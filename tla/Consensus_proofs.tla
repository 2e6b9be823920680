-------------------------- MODULE Consensus_proofs --------------------------
(***************************************************************************)
(* Proofs about the two parts of consensus, which share no state.          *)
(*                                                                         *)
(* Proof of staked authority, for any number of validators and any values  *)
(* of the thresholds:                                                      *)
(*   - RosterInvariant is inductive: the roster has no duplicates, lists   *)
(*     exactly the validators flagged active, none of them jailed and all  *)
(*     below the jailing threshold, and is longer than MAX_VALIDATORS only *)
(*     by those back from jail;                                            *)
(*   - the contracts implement the abstract ValidatorLifecycle;            *)
(*   - BondsCovered and StakeFallsBySentence: every call gives one record  *)
(*     at most what the call is paid, and says why it takes.               *)
(*                                                                         *)
(* Treasury mining on a chain that reorganises, for every supply,          *)
(* schedule, halving interval and set of miners:                           *)
(*   - the pre-minted coin is conserved between treasury and distribution; *)
(*   - a treasury above twice the first epoch's payout is never depleted;  *)
(*   - the engine's books are those of the canonical blocks, and without   *)
(*     donations its balances are those of the clients at the head; no     *)
(*     rollback makes a balance negative;                                  *)
(*   - the clients of three code bases agree on every state;               *)
(*   - the contract quotes what finalising the next block pays.            *)
(*                                                                         *)
(* The second needs a budget that every block respects.  Let r be the      *)
(* reward of block n's epoch, H the interval.  After block n the schedule  *)
(* can still pay (H - 1 - n % H) * r in this epoch, and less than H * r in *)
(* all the epochs after it, since each pays at most half of the one        *)
(* before.  Budget(n, d): what was distributed and what may still come fit *)
(* into 2 * H * ShiftedReward[0].  The snapshots carry the running total,  *)
(* so that orphaning the head restores the budget of its parent.           *)
(*                                                                         *)
(* The last three rest on what every root on the chain is (RootOK), not    *)
(* only that of the head, since orphaning returns to an old one: its coin  *)
(* is at least the supply and the fees of the blocks below it, and where   *)
(* it is no more, nobody has donated and it is the state of the engine.    *)
(***************************************************************************)
EXTENDS PoSA, TreasuryChain, RecursionTheorems

-----------------------------------------------------------------------------
(* The two operations on the roster array.                                 *)

\* Pushing an address that is not listed adds just it.
LEMMA PushResult ==
    ASSUME NEW S, NEW s \in Seq(S), IsInjective(s), NEW v \in S, v \notin Range(s)
    PROVE  /\ Append(s, v) \in Seq(S)
           /\ IsInjective(Append(s, v))
           /\ Range(Append(s, v)) = Range(s) \cup {v}
<1>1. Append(s, v) \in Seq(S)
  OBVIOUS
<1>2. /\ Len(Append(s, v)) = Len(s) + 1
      /\ \A i \in 1..Len(s) : Append(s, v)[i] = s[i]
      /\ Append(s, v)[Len(s) + 1] = v
  OBVIOUS
<1>3. /\ DOMAIN s = 1..Len(s)
      /\ DOMAIN Append(s, v) = 1..(Len(s) + 1)
      /\ Len(s) \in Nat
  BY <1>1, <1>2
<1>4. \A i \in 1..Len(s) : s[i] # v
  BY <1>3 DEF Range
<1>5. IsInjective(Append(s, v))
  BY <1>2, <1>3, <1>4 DEF IsInjective
<1>6. Range(Append(s, v)) = Range(s) \cup {v}
  BY <1>2, <1>3 DEF Range
<1> QED
  BY <1>1, <1>5, <1>6

\* A least position of a listed value exists: what the search loop of
\* _removeFromActiveValidators stops at.  (In a roster without duplicates it
\* is the only one.)
LEMMA FirstPosition ==
    ASSUME NEW S, NEW s \in Seq(S), IsInjective(s), NEW v, v \in Range(s)
    PROVE  LET first == CHOOSE i \in DOMAIN s :
                          s[i] = v /\ \A j \in DOMAIN s : s[j] = v => i <= j
           IN  first \in 1..Len(s) /\ s[first] = v
<1>1. DOMAIN s = 1..Len(s) /\ Len(s) \in Nat
  OBVIOUS
<1>2. PICK k \in DOMAIN s : s[k] = v
  BY DEF Range
<1>3. \A j \in DOMAIN s : s[j] = v => k <= j
  BY <1>1, <1>2 DEF IsInjective
<1> QED
  BY <1>1, <1>2, <1>3

\* Swap-and-pop takes out just the given address, wherever it stands.
LEMMA RemoveResult ==
    ASSUME NEW S, NEW s \in Seq(S), IsInjective(s), NEW v
    PROVE  /\ RemoveFromActive(s, v) \in Seq(S)
           /\ IsInjective(RemoveFromActive(s, v))
           /\ Range(RemoveFromActive(s, v)) = Range(s) \ {v}
<1>1. CASE v \notin Range(s)
  BY <1>1 DEF RemoveFromActive
<1>2. CASE v \in Range(s)
  <2> DEFINE first == CHOOSE i \in DOMAIN s :
                        s[i] = v /\ \A j \in DOMAIN s : s[j] = v => i <= j
  <2> DEFINE n == Len(s)
  <2> DEFINE r == [i \in 1..(n - 1) |-> IF i = first THEN s[n] ELSE s[i]]
  <2>1. RemoveFromActive(s, v) = r
    BY <1>2 DEF RemoveFromActive
  <2>2. first \in 1..n /\ s[first] = v
    BY <1>2, FirstPosition
  <2>3. DOMAIN s = 1..n /\ n \in Nat /\ n >= 1
    BY <2>2
  <2> HIDE DEF first, n
  <2>4. \A i \in 1..n : s[i] \in S
    BY <2>3 DEF n
  <2>5. r \in Seq(S)
    <3>1. \A i \in 1..(n - 1) : r[i] \in S
      BY <2>3, <2>4
    <3>2. n - 1 \in Nat
      BY <2>3
    <3> HIDE DEF r
    <3>3. r = [i \in 1..(n - 1) |-> r[i]]
      BY DEF r
    <3> QED
      BY <3>1, <3>2, <3>3
  <2>6. DOMAIN r = 1..(n - 1)
    OBVIOUS
  <2>7. \A i, j \in 1..n : s[i] = s[j] => i = j
    BY <2>3 DEF IsInjective
  <2>8. \A i \in 1..(n - 1) : i = first => r[i] = s[n]
    OBVIOUS
  <2>9. \A i \in 1..(n - 1) : i # first => r[i] = s[i]
    OBVIOUS
  <2> HIDE DEF r
  <2>10. IsInjective(r)
    <3> SUFFICES ASSUME NEW i \in 1..(n - 1), NEW j \in 1..(n - 1), r[i] = r[j]
                 PROVE  i = j
      BY <2>6 DEF IsInjective
    <3>1. i \in 1..n /\ j \in 1..n /\ n \in 1..n /\ i # n /\ j # n
      BY <2>3
    <3> QED
      BY <2>7, <2>8, <2>9, <3>1
  <2>11. Range(r) \subseteq Range(s) \ {v}
    <3> SUFFICES ASSUME NEW i \in 1..(n - 1)
                 PROVE  r[i] \in Range(s) \ {v}
      BY <2>6 DEF Range
    <3>1. i \in 1..n /\ n \in 1..n /\ i # n
      BY <2>3
    <3>2. CASE i = first
      BY <2>2, <2>3, <2>7, <2>8, <3>1, <3>2 DEF Range
    <3>3. CASE i # first
      BY <2>2, <2>3, <2>7, <2>9, <3>1, <3>3 DEF Range
    <3> QED
      BY <3>2, <3>3
  <2>12. Range(s) \ {v} \subseteq Range(r)
    <3> SUFFICES ASSUME NEW k \in 1..n, s[k] # v
                 PROVE  s[k] \in Range(r)
      BY <2>3 DEF Range
    <3>1. k # first
      BY <2>2
    <3>2. CASE k = n
      <4>1. first \in 1..(n - 1)
        BY <2>2, <2>3, <3>1, <3>2
      <4> QED
        BY <2>6, <2>8, <3>2, <4>1 DEF Range
    <3>3. CASE k # n
      <4>1. k \in 1..(n - 1)
        BY <2>3, <3>3
      <4> QED
        BY <2>6, <2>9, <3>1, <4>1 DEF Range
    <3> QED
      BY <3>2, <3>3
  <2> QED
    BY <2>1, <2>5, <2>10, <2>11, <2>12
<1> QED
  BY <1>1, <1>2

-----------------------------------------------------------------------------
(* The records.                                                            *)

\* Slashing takes no more than there is, and only stake.
LEMMA SlashedResult ==
    ASSUME NEW rec \in ValidatorRecord, NEW percentage \in 0..100
    PROVE  /\ Slashed(rec, percentage) \in ValidatorRecord
           /\ Slashed(rec, percentage).stakedAmount <= rec.stakedAmount
           /\ Slashed(rec, percentage).isActive = rec.isActive
           /\ Slashed(rec, percentage).isJailed = rec.isJailed
           /\ Slashed(rec, percentage).jailedUntilBlock = rec.jailedUntilBlock
           /\ Slashed(rec, percentage).missedBlocksCount = rec.missedBlocksCount
<1> DEFINE product == rec.stakedAmount * percentage
<1>1. rec.stakedAmount \in Nat
  BY DEF ValidatorRecord
<1>2. product \in Nat /\ product <= rec.stakedAmount * 100
  BY <1>1, SMTT(30)
<1> HIDE DEF product
<1>3. product \div 100 \in Nat /\ product \div 100 <= rec.stakedAmount
  BY <1>1, <1>2
<1>4. rec.stakedAmount - product \div 100 \in Nat
  BY <1>1, <1>3
<1>5. rec.stakedAmount - product \div 100 <= rec.stakedAmount
  BY <1>1, <1>3
<1> QED
  BY <1>4, <1>5 DEF Slashed, ValidatorRecord, product

\* Jailing sets both flags and the end of the sentence.
LEMMA JailedResult ==
    ASSUME NEW rec \in ValidatorRecord, NEW until \in Nat
    PROVE  /\ Jailed(rec, until) \in ValidatorRecord
           /\ ~Jailed(rec, until).isActive
           /\ Jailed(rec, until).isJailed
           /\ Jailed(rec, until).jailedUntilBlock = until
           /\ Jailed(rec, until).stakedAmount = rec.stakedAmount
BY DEF Jailed, ValidatorRecord

\* A miss moves the count and nothing else.
LEMMA MissedResult ==
    ASSUME NEW rec \in ValidatorRecord
    PROVE  /\ Missed(rec) \in ValidatorRecord
           /\ Missed(rec).isActive = rec.isActive
           /\ Missed(rec).isJailed = rec.isJailed
           /\ Missed(rec).jailedUntilBlock = rec.jailedUntilBlock
           /\ Missed(rec).missedBlocksCount = rec.missedBlocksCount + 1
           /\ Missed(rec).stakedAmount = rec.stakedAmount
BY DEF Missed, ValidatorRecord

\* The record of a (re-)registration.
LEMMA NewRecordResult ==
    ASSUME NEW stake \in Nat
    PROVE  /\ NewRecord(stake) \in ValidatorRecord
           /\ NewRecord(stake).isActive
           /\ ~NewRecord(stake).isJailed
           /\ NewRecord(stake).jailedUntilBlock = 0
           /\ NewRecord(stake).missedBlocksCount = 0
           /\ NewRecord(stake).stakedAmount = stake
BY DEF NewRecord, ValidatorRecord

-----------------------------------------------------------------------------
(* The three ways a call moves one validator's record and the roster       *)
(* together.  VSInvariant is the part of RosterInvariant about the         *)
(* validator set.                                                          *)

VSInvariant ==
    /\ activeValidators \in Seq(Validator)
    /\ validators \in [Validator -> ValidatorRecord]
    /\ RosterMatchesFlags
    /\ JailedIsInactive
    /\ ActiveBelowThreshold
    /\ RosterCapped

\* A list is at least as long as the set of what it lists is large.
LEMMA ListedAtMost ==
    ASSUME NEW S, NEW s \in Seq(S)
    PROVE  IsFiniteSet(Range(s)) /\ Cardinality(Range(s)) <= Len(s)
<1>1. DOMAIN s = 1..Len(s) /\ Len(s) \in Nat
  OBVIOUS
<1>2. s = [i \in 1..Len(s) |-> s[i]] /\ Range(s) = {s[i] : i \in 1..Len(s)}
  BY <1>1 DEF Range
<1>3. s \in Surjection(1..Len(s), Range(s))
  BY <1>1, <1>2 DEF Surjection
<1>4. ExistsSurjection(1..Len(s), Range(s))
  BY <1>3 DEF ExistsSurjection
<1> QED
  BY <1>1, <1>4, FS_NatSurjection, FS_SurjCardinalityBound

\* The unconvicted are a finite set, and on the roster.
LEMMA UnconvictedFinite ==
    ASSUME VSInvariant
    PROVE  /\ IsFiniteSet(Unconvicted) /\ Cardinality(Unconvicted) \in Nat
           /\ Unconvicted \subseteq Range(activeValidators)
           /\ Cardinality(Unconvicted) <= Len(activeValidators)
<1>1. Unconvicted \subseteq Range(activeValidators)
  BY DEF VSInvariant, RosterMatchesFlags, Unconvicted
<1>2. /\ IsFiniteSet(Range(activeValidators))
      /\ Cardinality(Range(activeValidators)) <= Len(activeValidators)
  BY ListedAtMost DEF VSInvariant
<1>3. /\ IsFiniteSet(Unconvicted)
      /\ Cardinality(Unconvicted) <= Cardinality(Range(activeValidators))
  BY <1>1, <1>2, FS_Subset
<1>4. /\ Cardinality(Unconvicted) \in Nat /\ Cardinality(Range(activeValidators)) \in Nat
      /\ Len(activeValidators) \in Nat
  BY <1>2, <1>3, FS_CardinalityType DEF VSInvariant
<1> QED
  BY <1>1, <1>2, <1>3, <1>4

\* A record that stays convicted, stays inactive, or stays as it was in both,
\* keeps the cap.
LEMMA CapKept ==
    ASSUME VSInvariant, NEW v \in Validator, NEW rec \in ValidatorRecord,
           validators' = [validators EXCEPT ![v] = rec],
           rec.isJailed => rec.jailedUntilBlock # 0,
           rec.isActive /\ rec.jailedUntilBlock = 0
             => validators[v].isActive /\ validators[v].jailedUntilBlock = 0
    PROVE  RosterCapped'
<1>1. /\ \A w \in Validator : w # v => validators'[w] = validators[w]
      /\ validators'[v] = rec
  BY DEF VSInvariant
<1>2. Unconvicted' \subseteq Unconvicted
  BY <1>1 DEF Unconvicted
<1>3. Cardinality(Unconvicted') <= Cardinality(Unconvicted) /\ IsFiniteSet(Unconvicted')
  BY <1>2, UnconvictedFinite, FS_Subset
<1>4. Cardinality(Unconvicted') \in Nat /\ Cardinality(Unconvicted) \in Nat
  BY <1>3, UnconvictedFinite, FS_CardinalityType
<1>5. MAX_VALIDATORS \in Nat /\ Cardinality(Unconvicted) <= MAX_VALIDATORS
  BY ValidatorSetParameters DEF VSInvariant, RosterCapped
<1>6. Cardinality(Unconvicted') <= MAX_VALIDATORS
  BY <1>3, <1>4, <1>5
<1>7. \A w \in Validator : validators'[w].isJailed => validators'[w].jailedUntilBlock # 0
  BY <1>1 DEF VSInvariant, RosterCapped
<1> QED
  BY <1>6, <1>7 DEF RosterCapped

\* A registration finds room on the roster, and so among the unconvicted.
LEMMA CapKeptByRegistering ==
    ASSUME VSInvariant, NEW v \in Validator, NEW rec \in ValidatorRecord,
           validators' = [validators EXCEPT ![v] = rec],
           ~rec.isJailed, Len(activeValidators) < MAX_VALIDATORS
    PROVE  RosterCapped'
<1>1. /\ \A w \in Validator : w # v => validators'[w] = validators[w]
      /\ validators'[v] = rec
  BY DEF VSInvariant
<1> DEFINE more == Unconvicted \cup {v}
<1>2. Unconvicted' \subseteq more
  BY <1>1 DEF Unconvicted
<1>3. /\ IsFiniteSet(Unconvicted) /\ Cardinality(Unconvicted) \in Nat
      /\ Cardinality(Unconvicted) <= Len(activeValidators)
  BY UnconvictedFinite
<1>4. /\ IsFiniteSet(more)
      /\ \/ Cardinality(more) = Cardinality(Unconvicted)
         \/ Cardinality(more) = Cardinality(Unconvicted) + 1
  BY <1>3, FS_AddElement
<1> HIDE DEF more
<1>5. Cardinality(Unconvicted') <= Cardinality(more) /\ IsFiniteSet(Unconvicted')
  BY <1>2, <1>4, FS_Subset
<1>6. Cardinality(Unconvicted') \in Nat /\ Cardinality(more) \in Nat
  BY <1>4, <1>5, FS_CardinalityType
<1>7. MAX_VALIDATORS \in Nat /\ Len(activeValidators) \in Nat
  BY ValidatorSetParameters DEF VSInvariant
<1>8. Cardinality(Unconvicted') <= MAX_VALIDATORS
  BY <1>3, <1>4, <1>5, <1>6, <1>7
<1>9. \A w \in Validator : validators'[w].isJailed => validators'[w].jailedUntilBlock # 0
  BY <1>1 DEF VSInvariant, RosterCapped
<1> QED
  BY <1>8, <1>9 DEF RosterCapped

\* A sentence: the record becomes inactive and the address leaves the roster.
LEMMA SentenceStep ==
    ASSUME VSInvariant, NEW v \in Validator, NEW rec \in ValidatorRecord,
           ~rec.isActive, rec.jailedUntilBlock # 0,
           validators' = [validators EXCEPT ![v] = rec],
           activeValidators' = RemoveFromActive(activeValidators, v)
    PROVE  VSInvariant'
<1>1. /\ activeValidators' \in Seq(Validator)
      /\ IsInjective(activeValidators')
      /\ Range(activeValidators') = Range(activeValidators) \ {v}
  BY RemoveResult DEF VSInvariant, RosterMatchesFlags
<1>2. validators' \in [Validator -> ValidatorRecord]
  BY DEF VSInvariant
<1>3. \A w \in Validator : w # v => validators'[w] = validators[w]
  BY DEF VSInvariant
<1>4. validators'[v] = rec
  BY DEF VSInvariant
<1>5. Range(activeValidators') = {w \in Validator : validators'[w].isActive}
  BY <1>1, <1>3, <1>4 DEF VSInvariant, RosterMatchesFlags
<1>6. JailedIsInactive'
  BY <1>3, <1>4 DEF VSInvariant, JailedIsInactive
<1>7. ActiveBelowThreshold'
  BY <1>3, <1>4 DEF VSInvariant, ActiveBelowThreshold
<1>8. RosterCapped'
  BY CapKept
<1> QED
  BY <1>1, <1>2, <1>5, <1>6, <1>7, <1>8 DEF VSInvariant, RosterMatchesFlags

\* A return: an inactive validator gets an active record and is pushed.
LEMMA ReturnStep ==
    ASSUME VSInvariant, NEW v \in Validator, NEW rec \in ValidatorRecord,
           ~validators[v].isActive,
           rec.isActive, ~rec.isJailed, rec.missedBlocksCount < SLASH_THRESHOLD,
           rec.jailedUntilBlock # 0 \/ Len(activeValidators) < MAX_VALIDATORS,
           validators' = [validators EXCEPT ![v] = rec],
           activeValidators' = Append(activeValidators, v)
    PROVE  VSInvariant'
<1>1. v \notin Range(activeValidators)
  BY DEF VSInvariant, RosterMatchesFlags
<1>2. /\ activeValidators' \in Seq(Validator)
      /\ IsInjective(activeValidators')
      /\ Range(activeValidators') = Range(activeValidators) \cup {v}
  BY <1>1, PushResult DEF VSInvariant, RosterMatchesFlags
<1>3. validators' \in [Validator -> ValidatorRecord]
  BY DEF VSInvariant
<1>4. \A w \in Validator : w # v => validators'[w] = validators[w]
  BY DEF VSInvariant
<1>5. validators'[v] = rec
  BY DEF VSInvariant
<1>6. Range(activeValidators') = {w \in Validator : validators'[w].isActive}
  BY <1>2, <1>4, <1>5 DEF VSInvariant, RosterMatchesFlags
<1>7. JailedIsInactive'
  BY <1>4, <1>5 DEF VSInvariant, JailedIsInactive
<1>8. ActiveBelowThreshold'
  BY <1>4, <1>5 DEF VSInvariant, ActiveBelowThreshold
<1>9. RosterCapped'
  BY CapKept, CapKeptByRegistering
<1> QED
  BY <1>2, <1>3, <1>6, <1>7, <1>8, <1>9 DEF VSInvariant, RosterMatchesFlags

\* Bookkeeping: the flags stay, the count stays below the threshold.
LEMMA BookkeepingStep ==
    ASSUME VSInvariant, NEW v \in Validator, NEW rec \in ValidatorRecord,
           rec.isActive = validators[v].isActive,
           rec.isJailed = validators[v].isJailed,
           rec.jailedUntilBlock = validators[v].jailedUntilBlock,
           rec.isActive => rec.missedBlocksCount < SLASH_THRESHOLD,
           validators' = [validators EXCEPT ![v] = rec],
           UNCHANGED activeValidators
    PROVE  VSInvariant'
<1>1. validators' \in [Validator -> ValidatorRecord]
  BY DEF VSInvariant
<1>2. \A w \in Validator : w # v => validators'[w] = validators[w]
  BY DEF VSInvariant
<1>3. validators'[v] = rec
  BY DEF VSInvariant
<1>4. Range(activeValidators') = {w \in Validator : validators'[w].isActive}
  BY <1>2, <1>3 DEF VSInvariant, RosterMatchesFlags
<1>5. JailedIsInactive'
  BY <1>2, <1>3 DEF VSInvariant, JailedIsInactive
<1>6. ActiveBelowThreshold'
  BY <1>2, <1>3 DEF VSInvariant, ActiveBelowThreshold
<1>7. RosterCapped'
  <2>1. rec.isJailed => rec.jailedUntilBlock # 0
    BY DEF VSInvariant, RosterCapped
  <2> QED
    BY <2>1, CapKept
<1> QED
  BY <1>1, <1>4, <1>5, <1>6, <1>7 DEF VSInvariant, RosterMatchesFlags

-----------------------------------------------------------------------------
(* One lemma per call.                                                     *)

LEMMA RegisterValidatorStep ==
    ASSUME VSInvariant, balance \in Nat, NEW v \in Validator, NEW stake \in Deposits,
           RegisterValidator(v, stake)
    PROVE  VSInvariant' /\ balance' \in Nat /\ blockNumber' = blockNumber
<1>1. stake \in Nat /\ SLASH_THRESHOLD > 0
  BY ValidatorSetParameters
<1>2. VSInvariant'
  BY <1>1, NewRecordResult, ReturnStep DEF RegisterValidator
<1> QED
  BY <1>1, <1>2 DEF RegisterValidator

LEMMA UnjailStep ==
    ASSUME VSInvariant, NEW v \in Validator, Unjail(v)
    PROVE  VSInvariant' /\ UNCHANGED <<balance, blockNumber>>
<1> DEFINE rec == [validators[v] EXCEPT !.isJailed = FALSE, !.isActive = TRUE,
                                       !.missedBlocksCount = 0]
<1>1. validators[v] \in ValidatorRecord
  BY DEF VSInvariant
<1>2. /\ rec \in ValidatorRecord
      /\ rec.isActive
      /\ ~rec.isJailed
      /\ rec.missedBlocksCount = 0
      /\ rec.jailedUntilBlock = validators[v].jailedUntilBlock
  BY <1>1 DEF ValidatorRecord
<1>3. ~validators[v].isActive
  BY DEF Unjail, VSInvariant, JailedIsInactive
<1>4. validators' = [validators EXCEPT ![v] = rec]
  BY DEF Unjail, VSInvariant
<1>5. activeValidators' = Append(activeValidators, v)
  BY DEF Unjail
<1>6. 0 < SLASH_THRESHOLD
  BY ValidatorSetParameters
<1>7. validators[v].jailedUntilBlock # 0
  BY DEF Unjail, VSInvariant, RosterCapped
<1> HIDE DEF rec
<1>8. VSInvariant'
  BY <1>2, <1>3, <1>4, <1>5, <1>6, <1>7, ReturnStep
<1> QED
  BY <1>8 DEF Unjail

LEMMA JailValidatorStep ==
    ASSUME VSInvariant, blockNumber \in Nat \ {0}, NEW v \in Validator, NEW duration \in Nat,
           JailValidator(v, duration)
    PROVE  VSInvariant' /\ UNCHANGED <<balance, blockNumber>>
<1>1. /\ validators[v] \in ValidatorRecord
      /\ blockNumber + duration \in Nat /\ blockNumber + duration # 0
  BY DEF VSInvariant
<1>2. /\ Jailed(validators[v], blockNumber + duration) \in ValidatorRecord
      /\ Jailed(validators[v], blockNumber + duration).jailedUntilBlock
            = blockNumber + duration
      /\ ~Jailed(validators[v], blockNumber + duration).isActive
  BY <1>1, JailedResult
<1>3. VSInvariant'
  BY <1>1, <1>2, SentenceStep DEF JailValidator
<1> QED
  BY <1>3 DEF JailValidator

LEMMA ReportMissedBlockStep ==
    ASSUME VSInvariant, blockNumber \in Nat \ {0}, NEW v \in Validator, ReportMissedBlock(v)
    PROVE  VSInvariant' /\ UNCHANGED <<balance, blockNumber>>
<1> DEFINE until == blockNumber + JAIL_DURATION_BLOCKS
<1> SUFFICES VSInvariant'
  BY DEF ReportMissedBlock
<1>1. validators[v] \in ValidatorRecord /\ until \in Nat /\ until # 0
  BY ValidatorSetParameters DEF VSInvariant
<1>2. CASE UNCHANGED <<validators, activeValidators>>
  BY <1>2 DEF VSInvariant, RosterMatchesFlags, JailedIsInactive, ActiveBelowThreshold,
              RosterCapped, Unconvicted
<1>3. CASE /\ ~ReachesThreshold(validators[v])
           /\ validators' = [validators EXCEPT ![v] = Missed(@)]
           /\ UNCHANGED activeValidators
  <2>1. /\ Missed(validators[v]) \in ValidatorRecord
        /\ Missed(validators[v]).isActive = validators[v].isActive
        /\ Missed(validators[v]).isJailed = validators[v].isJailed
        /\ Missed(validators[v]).jailedUntilBlock = validators[v].jailedUntilBlock
    BY <1>1, MissedResult
  <2>2. Missed(validators[v]).missedBlocksCount < SLASH_THRESHOLD
    BY <1>3, <2>1, ValidatorSetParameters DEF ReachesThreshold, ValidatorRecord
  <2> QED
    BY <1>3, <2>1, <2>2, BookkeepingStep
<1>4. CASE /\ validators' = [validators EXCEPT ![v] = Jailed(Missed(@), until)]
           /\ activeValidators' = RemoveFromActive(activeValidators, v)
  <2>1. Missed(validators[v]) \in ValidatorRecord
    BY <1>1, MissedResult
  <2>2. /\ Jailed(Missed(validators[v]), until) \in ValidatorRecord
        /\ ~Jailed(Missed(validators[v]), until).isActive
        /\ Jailed(Missed(validators[v]), until).jailedUntilBlock = until
    BY <1>1, <2>1, JailedResult
  <2> QED
    BY <1>1, <1>4, <2>2, SentenceStep
<1> QED
  BY <1>2, <1>3, <1>4 DEF ReportMissedBlock

LEMMA SlashValidatorStakeStep ==
    ASSUME VSInvariant, NEW v \in Validator, NEW percentage \in 0..100,
           SlashValidatorStake(v, percentage)
    PROVE  VSInvariant' /\ UNCHANGED <<balance, blockNumber>>
<1>1. validators[v] \in ValidatorRecord
  BY DEF VSInvariant
<1>2. /\ Slashed(validators[v], percentage) \in ValidatorRecord
      /\ Slashed(validators[v], percentage).isActive = validators[v].isActive
      /\ Slashed(validators[v], percentage).isJailed = validators[v].isJailed
      /\ Slashed(validators[v], percentage).jailedUntilBlock = validators[v].jailedUntilBlock
      /\ Slashed(validators[v], percentage).missedBlocksCount
            = validators[v].missedBlocksCount
  BY <1>1, SlashedResult
<1>3. VSInvariant'
  BY <1>2, BookkeepingStep DEF SlashValidatorStake, VSInvariant, ActiveBelowThreshold
<1> QED
  BY <1>3 DEF SlashValidatorStake

LEMMA SubmitDoubleSignEvidenceStep ==
    ASSUME VSInvariant, blockNumber \in Nat \ {0}, NEW v \in Validator, NEW hash,
           SubmitDoubleSignEvidence(v, hash)
    PROVE  VSInvariant' /\ UNCHANGED <<balance, blockNumber>>
<1> DEFINE until == blockNumber + DOUBLE_SIGN_JAIL
<1> DEFINE slashed == Slashed(validators[v], DOUBLE_SIGN_SLASH_PERCENT)
<1>1. validators[v] \in ValidatorRecord /\ until \in Nat /\ until # 0
  BY IndicatorParameters DEF VSInvariant
<1>2. slashed \in ValidatorRecord
  BY <1>1, SlashedResult, IndicatorParameters
<1>3. /\ Jailed(slashed, until) \in ValidatorRecord /\ ~Jailed(slashed, until).isActive
      /\ Jailed(slashed, until).jailedUntilBlock = until
  BY <1>1, <1>2, JailedResult
<1>4. VSInvariant'
  BY <1>1, <1>3, SentenceStep DEF SubmitDoubleSignEvidence
<1> QED
  BY <1>4 DEF SubmitDoubleSignEvidence

-----------------------------------------------------------------------------
(* The invariant.                                                          *)

IndicatorTypeOK ==
    /\ misdemeanorCount \in [Validator -> Nat]
    /\ felonyCount \in [Validator -> Nat]
    /\ processedEvidence \subseteq Evidence

LEMMA InvariantParts ==
    /\ RosterInvariant <=> /\ VSInvariant
                           /\ balance \in Nat
                           /\ blockNumber \in Nat \ {0}
                           /\ IndicatorTypeOK
    /\ RosterInvariant' <=> /\ VSInvariant'
                            /\ balance' \in Nat
                            /\ blockNumber' \in Nat \ {0}
                            /\ IndicatorTypeOK'
BY DEF RosterInvariant, TypeOK, VSInvariant, IndicatorTypeOK

LEMMA RosterInvariantInit == Init => RosterInvariant
<1> SUFFICES ASSUME Init
             PROVE  RosterInvariant
  OBVIOUS
<1>1. /\ NewRecord(MIN_STAKE) \in ValidatorRecord
      /\ NewRecord(MIN_STAKE).isActive
      /\ ~NewRecord(MIN_STAKE).isJailed
      /\ NewRecord(MIN_STAKE).missedBlocksCount = 0
      /\ NewRecord(MIN_STAKE).jailedUntilBlock = 0
  BY NewRecordResult, ValidatorSetParameters
<1>2. NoRecord \in ValidatorRecord /\ ~NoRecord.isActive /\ ~NoRecord.isJailed
  BY DEF NoRecord, ValidatorRecord
<1>3. \A v \in Validator : validators[v] =
        IF v \in Range(GenesisRoster) THEN NewRecord(MIN_STAKE) ELSE NoRecord
  BY DEF Init, VSInit
<1>4. validators \in [Validator -> ValidatorRecord]
  BY <1>1, <1>2 DEF Init, VSInit
<1>5. Range(GenesisRoster) \subseteq Validator
  BY GenesisAssumption DEF Range
<1>6. RosterMatchesFlags
  BY <1>1, <1>2, <1>3, <1>5, GenesisAssumption DEF Init, VSInit, RosterMatchesFlags
<1>7. JailedIsInactive
  BY <1>1, <1>2, <1>3 DEF JailedIsInactive
<1>8. ActiveBelowThreshold
  BY <1>1, <1>2, <1>3, ValidatorSetParameters DEF ActiveBelowThreshold
<1>9. TypeOK
  BY <1>4, GenesisAssumption DEF Init, VSInit, TypeOK
<1>10. RosterCapped
  <2>1. Unconvicted \subseteq Range(GenesisRoster)
    BY <1>2, <1>3 DEF Unconvicted
  <2>2. /\ IsFiniteSet(Range(GenesisRoster))
        /\ Cardinality(Range(GenesisRoster)) <= Len(GenesisRoster)
    BY GenesisAssumption, ListedAtMost
  <2>3. /\ IsFiniteSet(Unconvicted)
        /\ Cardinality(Unconvicted) <= Cardinality(Range(GenesisRoster))
    BY <2>1, <2>2, FS_Subset
  <2>4. Cardinality(Unconvicted) \in Nat /\ Cardinality(Range(GenesisRoster)) \in Nat
    BY <2>2, <2>3, FS_CardinalityType
  <2>5. /\ Len(GenesisRoster) <= MAX_VALIDATORS /\ Len(GenesisRoster) \in Nat
        /\ MAX_VALIDATORS \in Nat
    BY GenesisAssumption, ValidatorSetParameters
  <2>6. Cardinality(Unconvicted) <= MAX_VALIDATORS
    BY <2>2, <2>3, <2>4, <2>5
  <2>7. \A v \in Validator : ~validators[v].isJailed
    BY <1>1, <1>2, <1>3
  <2> QED
    BY <2>6, <2>7 DEF RosterCapped
<1> QED
  BY <1>6, <1>7, <1>8, <1>9, <1>10 DEF RosterInvariant

LEMMA RosterInvariantStep == RosterInvariant /\ [Next]_vars => RosterInvariant'
<1> SUFFICES ASSUME RosterInvariant, [Next]_vars
             PROVE  RosterInvariant'
  OBVIOUS
<1>1. VSInvariant /\ balance \in Nat /\ blockNumber \in Nat \ {0} /\ IndicatorTypeOK
  BY InvariantParts
<1>2. CASE UNCHANGED vars
  BY <1>1, <1>2, InvariantParts
     DEF vars, VSInvariant, IndicatorTypeOK, RosterMatchesFlags, JailedIsInactive,
         ActiveBelowThreshold, RosterCapped, Unconvicted
<1>3. CASE NewBlock /\ UNCHANGED indicatorVars
  BY <1>1, <1>3, InvariantParts
     DEF NewBlock, indicatorVars, VSInvariant, IndicatorTypeOK, RosterMatchesFlags,
         JailedIsInactive, ActiveBelowThreshold, RosterCapped, Unconvicted
<1>4. ASSUME NEW v \in Validator, ValidatorCall(v), UNCHANGED indicatorVars
      PROVE  RosterInvariant'
  <2>1. IndicatorTypeOK'
    BY <1>1, <1>4 DEF indicatorVars, IndicatorTypeOK
  <2> QED
    BY <1>1, <1>4, <2>1, RegisterValidatorStep, UnjailStep, InvariantParts
       DEF ValidatorCall
<1>5. ASSUME NEW v \in Validator, SystemCall(v), UNCHANGED indicatorVars
      PROVE  RosterInvariant'
  <2>1. IndicatorTypeOK'
    BY <1>1, <1>5 DEF indicatorVars, IndicatorTypeOK
  <2>2. VSInvariant' /\ UNCHANGED <<balance, blockNumber>>
    BY <1>1, <1>5, ReportMissedBlockStep, JailValidatorStep, SlashValidatorStakeStep,
       ValidatorSetParameters
       DEF SystemCall
  <2> QED
    BY <1>1, <2>1, <2>2, InvariantParts
<1>6. ASSUME NEW v \in Validator, IndicatorCall(v)
      PROVE  RosterInvariant'
  <2>1. CASE SlashMisdemeanor(v)
    <3>1. IndicatorTypeOK'
      BY <1>1, <2>1 DEF SlashMisdemeanor, IndicatorTypeOK
    <3> QED
      BY <1>1, <2>1, <3>1, ReportMissedBlockStep, InvariantParts DEF SlashMisdemeanor
  <2>2. CASE SlashFelony(v)
    <3>1. IndicatorTypeOK'
      BY <1>1, <2>2 DEF SlashFelony, IndicatorTypeOK
    <3> QED
      BY <1>1, <2>2, <3>1, SlashValidatorStakeStep, IndicatorParameters, InvariantParts
         DEF SlashFelony
  <2>3. CASE SlashCountOnly(v) \/ ResetRecord(v)
    <3>1. IndicatorTypeOK' /\ UNCHANGED vsVars
      BY <1>1, <2>3 DEF SlashCountOnly, ResetRecord, IndicatorTypeOK
    <3>2. VSInvariant'
      BY <1>1, <3>1 DEF vsVars, VSInvariant, RosterMatchesFlags, JailedIsInactive,
                        ActiveBelowThreshold, RosterCapped, Unconvicted
    <3> QED
      BY <1>1, <3>1, <3>2, InvariantParts DEF vsVars
  <2>4. ASSUME NEW hash \in Evidence, SubmitDoubleSignEvidence(v, hash)
        PROVE  RosterInvariant'
    <3>1. IndicatorTypeOK'
      BY <1>1, <2>4 DEF SubmitDoubleSignEvidence, IndicatorTypeOK
    <3> QED
      BY <1>1, <2>4, <3>1, SubmitDoubleSignEvidenceStep, InvariantParts
  <2> QED
    BY <1>6, <2>1, <2>2, <2>3, <2>4 DEF IndicatorCall, Slash
<1> QED
  BY <1>2, <1>3, <1>4, <1>5, <1>6 DEF Next

\* Type correctness, a duplicate-free roster equal to the flagged validators,
\* no active validator in jail and none at the jailing threshold: in every
\* reachable state, for every number of validators and all thresholds.
THEOREM RosterCorrect == Spec => []RosterInvariant
<1> QED
  BY RosterInvariantInit, RosterInvariantStep, PTL DEF Spec

\* The type invariant alone.
THEOREM TypeCorrect == Spec => []TypeOK
<1>1. RosterInvariant => TypeOK
  BY DEF RosterInvariant
<1> QED
  BY <1>1, RosterCorrect, PTL

\* The array and the flags agree, whatever the order of registrations, jailings
\* and returns.
THEOREM RosterAgrees == Spec => [](RosterMatchesFlags /\ JailedIsInactive)
<1>1. RosterInvariant => RosterMatchesFlags /\ JailedIsInactive
  BY DEF RosterInvariant
<1> QED
  BY <1>1, RosterCorrect, PTL

-----------------------------------------------------------------------------
(* The refinement: how a change of one record moves the abstract state.    *)

LEMMA MapOneRecord ==
    ASSUME validators \in [Validator -> ValidatorRecord],
           NEW v \in Validator, NEW rec \in ValidatorRecord,
           validators' = [validators EXCEPT ![v] = rec]
    PROVE  /\ StatusMap' = [StatusMap EXCEPT ![v] = StatusOf(rec)]
           /\ ReleaseMap' = [ReleaseMap EXCEPT ![v] = rec.jailedUntilBlock]
           /\ StatusMap[v] = StatusOf(validators[v])
           /\ ReleaseMap[v] = validators[v].jailedUntilBlock
           /\ ReleaseMap'[v] = rec.jailedUntilBlock
BY DEF StatusMap, ReleaseMap

\* A record whose flags and sentence stay is invisible to the life cycle.
LEMMA BookkeepingStutters ==
    ASSUME validators \in [Validator -> ValidatorRecord],
           NEW v \in Validator, NEW rec \in ValidatorRecord,
           rec.isActive = validators[v].isActive,
           rec.isJailed = validators[v].isJailed,
           rec.jailedUntilBlock = validators[v].jailedUntilBlock,
           validators' = [validators EXCEPT ![v] = rec],
           UNCHANGED <<balance, blockNumber, processedEvidence>>
    PROVE  UNCHANGED Lifecycle!lifecycleVars
<1>1. StatusOf(rec) = StatusOf(validators[v])
  BY DEF StatusOf
<1>2. UNCHANGED StatusMap
  BY <1>1 DEF StatusMap
<1>3. UNCHANGED ReleaseMap
  BY DEF ReleaseMap
<1> QED
  BY <1>2, <1>3 DEF Lifecycle!lifecycleVars

\* Every way into jail is the abstract Jail.
LEMMA SentenceJails ==
    ASSUME validators \in [Validator -> ValidatorRecord], blockNumber \in Nat,
           NEW v \in Validator, NEW rec \in ValidatorRecord,
           ~rec.isActive, rec.isJailed, rec.jailedUntilBlock >= blockNumber,
           validators' = [validators EXCEPT ![v] = rec],
           UNCHANGED <<balance, blockNumber>>
    PROVE  Lifecycle!Jail(v) /\ ReleaseMap'[v] = rec.jailedUntilBlock
<1>1. StatusOf(rec) = "jailed"
  BY DEF StatusOf
<1>2. rec.jailedUntilBlock \in Nat
  BY DEF ValidatorRecord
<1>3. /\ StatusMap' = [StatusMap EXCEPT ![v] = StatusOf(rec)]
      /\ ReleaseMap' = [ReleaseMap EXCEPT ![v] = rec.jailedUntilBlock]
      /\ ReleaseMap'[v] = rec.jailedUntilBlock
  BY MapOneRecord
<1> QED
  BY <1>1, <1>2, <1>3 DEF Lifecycle!Jail

LEMMA RegisterAdmits ==
    ASSUME RosterInvariant, NEW v \in Validator, NEW stake \in Deposits,
           RegisterValidator(v, stake), UNCHANGED processedEvidence
    PROVE  Lifecycle!Admit(v)
<1>1. stake \in Nat /\ balance \in Nat /\ MIN_STAKE \in Nat
  BY ValidatorSetParameters DEF RosterInvariant, TypeOK
<1>2. validators \in [Validator -> ValidatorRecord]
  BY DEF RosterInvariant, TypeOK
<1>3. /\ NewRecord(stake) \in ValidatorRecord
      /\ StatusOf(NewRecord(stake)) = "active"
      /\ NewRecord(stake).jailedUntilBlock = 0
  BY <1>1, NewRecordResult DEF StatusOf
<1>4. /\ StatusMap' = [StatusMap EXCEPT ![v] = "active"]
      /\ ReleaseMap' = [ReleaseMap EXCEPT ![v] = 0]
      /\ StatusMap[v] = StatusOf(validators[v])
  BY <1>2, <1>3, MapOneRecord DEF RegisterValidator
<1>5. StatusOf(validators[v]) # "active"
  BY DEF RegisterValidator, StatusOf
<1>6. balance' \in Nat /\ balance' >= balance + MIN_STAKE /\ UNCHANGED blockNumber
  BY <1>1 DEF RegisterValidator
<1> QED
  BY <1>4, <1>5, <1>6 DEF Lifecycle!Admit

LEMMA UnjailReleases ==
    ASSUME RosterInvariant, NEW v \in Validator, Unjail(v), UNCHANGED processedEvidence
    PROVE  Lifecycle!Release(v)
<1> DEFINE rec == [validators[v] EXCEPT !.isJailed = FALSE, !.isActive = TRUE,
                                       !.missedBlocksCount = 0]
<1>1. validators \in [Validator -> ValidatorRecord] /\ validators[v] \in ValidatorRecord
  BY DEF RosterInvariant, TypeOK
<1>2. /\ rec \in ValidatorRecord
      /\ StatusOf(rec) = "active"
      /\ rec.jailedUntilBlock = validators[v].jailedUntilBlock
  BY <1>1 DEF ValidatorRecord, StatusOf
<1>3. validators' = [validators EXCEPT ![v] = rec]
  BY <1>1 DEF Unjail
<1> HIDE DEF rec
<1>4. StatusMap' = [StatusMap EXCEPT ![v] = "active"]
  BY <1>1, <1>2, <1>3 DEF StatusMap
<1>5. UNCHANGED ReleaseMap
  BY <1>1, <1>2, <1>3 DEF ReleaseMap
<1>6. StatusMap[v] = "jailed"
  BY DEF Unjail, StatusMap, StatusOf, RosterInvariant, JailedIsInactive
<1>7. blockNumber >= ReleaseMap[v] /\ UNCHANGED <<balance, blockNumber>>
  BY DEF Unjail, ReleaseMap
<1> QED
  BY <1>4, <1>5, <1>6, <1>7 DEF Lifecycle!Release

LEMMA ReportMissedBlockRefines ==
    ASSUME RosterInvariant, NEW v \in Validator, ReportMissedBlock(v),
           UNCHANGED processedEvidence
    PROVE  Lifecycle!JailForMisses(v) \/ UNCHANGED Lifecycle!lifecycleVars
<1> DEFINE until == blockNumber + JAIL_DURATION_BLOCKS
<1>1. /\ validators \in [Validator -> ValidatorRecord]
      /\ validators[v] \in ValidatorRecord
      /\ blockNumber \in Nat /\ until \in Nat /\ until >= blockNumber
  BY ValidatorSetParameters DEF RosterInvariant, TypeOK
<1>2. UNCHANGED <<balance, blockNumber>>
  BY DEF ReportMissedBlock
<1>3. CASE UNCHANGED <<validators, activeValidators>>
  BY <1>2, <1>3 DEF Lifecycle!lifecycleVars, StatusMap, ReleaseMap
<1>4. CASE validators' = [validators EXCEPT ![v] = Missed(@)]
  BY <1>1, <1>2, <1>4, MissedResult, BookkeepingStutters
<1>5. CASE /\ ~IgnoresMiss(validators[v])
           /\ validators' = [validators EXCEPT ![v] = Jailed(Missed(@), until)]
  <2>1. Missed(validators[v]) \in ValidatorRecord
    BY <1>1, MissedResult
  <2> DEFINE rec == Jailed(Missed(validators[v]), until)
  <2>2. /\ rec \in ValidatorRecord
        /\ ~rec.isActive
        /\ rec.isJailed
        /\ rec.jailedUntilBlock = until
    BY <1>1, <2>1, JailedResult
  <2>3. validators' = [validators EXCEPT ![v] = rec]
    BY <1>5
  <2>4. Lifecycle!Jail(v)
    BY <1>1, <1>2, <2>2, <2>3, SentenceJails
  <2>5. StatusMap[v] = "active"
    BY <1>5 DEF StatusMap, StatusOf, IgnoresMiss
  <2> QED
    BY <2>4, <2>5 DEF Lifecycle!JailForMisses
<1> QED
  BY <1>3, <1>4, <1>5 DEF ReportMissedBlock

LEMMA JailValidatorOrders ==
    ASSUME RosterInvariant, NEW v \in Validator, NEW duration \in JailTerms,
           JailValidator(v, duration), UNCHANGED processedEvidence
    PROVE  Lifecycle!JailByOrder(v)
<1> DEFINE until == blockNumber + duration
<1>1. /\ validators \in [Validator -> ValidatorRecord]
      /\ validators[v] \in ValidatorRecord
      /\ blockNumber \in Nat /\ until \in Nat /\ until >= blockNumber
  BY ValidatorSetParameters DEF RosterInvariant, TypeOK
<1> DEFINE rec == Jailed(validators[v], until)
<1>2. /\ rec \in ValidatorRecord
      /\ ~rec.isActive
      /\ rec.isJailed
      /\ rec.jailedUntilBlock = until
  BY <1>1, JailedResult
<1>3. validators' = [validators EXCEPT ![v] = rec] /\ UNCHANGED <<balance, blockNumber>>
  BY DEF JailValidator
<1>4. Lifecycle!Jail(v) /\ ReleaseMap'[v] = blockNumber + duration
  BY <1>1, <1>2, <1>3, SentenceJails
<1> QED
  BY <1>4 DEF Lifecycle!JailByOrder

LEMMA SlashStutters ==
    ASSUME RosterInvariant, NEW v \in Validator, NEW percentage \in 0..100,
           SlashValidatorStake(v, percentage), UNCHANGED processedEvidence
    PROVE  UNCHANGED Lifecycle!lifecycleVars
<1>1. /\ validators \in [Validator -> ValidatorRecord]
      /\ validators[v] \in ValidatorRecord
  BY DEF RosterInvariant, TypeOK
<1> QED
  BY <1>1, SlashedResult, BookkeepingStutters DEF SlashValidatorStake

LEMMA EvidenceJails ==
    ASSUME RosterInvariant, NEW v \in Validator, NEW hash \in Evidence,
           SubmitDoubleSignEvidence(v, hash)
    PROVE  Lifecycle!JailOnEvidence(v)
<1> DEFINE until == blockNumber + DOUBLE_SIGN_JAIL
<1> DEFINE slashed == Slashed(validators[v], DOUBLE_SIGN_SLASH_PERCENT)
<1>1. /\ validators \in [Validator -> ValidatorRecord]
      /\ validators[v] \in ValidatorRecord
      /\ blockNumber \in Nat /\ until \in Nat /\ until >= blockNumber
  BY IndicatorParameters DEF RosterInvariant, TypeOK
<1>2. slashed \in ValidatorRecord
  BY <1>1, SlashedResult, IndicatorParameters
<1> DEFINE rec == Jailed(slashed, until)
<1>3. /\ rec \in ValidatorRecord
      /\ ~rec.isActive
      /\ rec.isJailed
      /\ rec.jailedUntilBlock = until
  BY <1>1, <1>2, JailedResult
<1>4. validators' = [validators EXCEPT ![v] = rec] /\ UNCHANGED <<balance, blockNumber>>
  BY DEF SubmitDoubleSignEvidence
<1>5. Lifecycle!Jail(v)
  BY <1>1, <1>3, <1>4, SentenceJails
<1>6. hash \in Evidence \ processedEvidence /\ processedEvidence' = processedEvidence \cup {hash}
  BY DEF SubmitDoubleSignEvidence
<1> QED
  BY <1>5, <1>6 DEF Lifecycle!JailOnEvidence

LEMMA LifecycleInit == Init => Lifecycle!Init
<1> SUFFICES ASSUME Init
             PROVE  Lifecycle!Init
  OBVIOUS
<1>1. \A v \in Validator : validators[v] =
        IF v \in Range(GenesisRoster) THEN NewRecord(MIN_STAKE) ELSE NoRecord
  BY DEF Init, VSInit
<1>2. \A v \in Validator : /\ StatusOf(validators[v]) \in {"out", "active"}
                           /\ validators[v].jailedUntilBlock = 0
  BY <1>1 DEF NewRecord, NoRecord, StatusOf
<1> QED
  BY <1>2 DEF Lifecycle!Init, StatusMap, ReleaseMap, Init, VSInit

LEMMA LifecycleStep ==
    RosterInvariant /\ [Next]_vars => [Lifecycle!Next]_(Lifecycle!lifecycleVars)
<1> SUFFICES ASSUME RosterInvariant, [Next]_vars
             PROVE  Lifecycle!Next \/ UNCHANGED Lifecycle!lifecycleVars
  OBVIOUS
<1>1. CASE UNCHANGED <<validators, balance, blockNumber, processedEvidence>>
  BY <1>1 DEF Lifecycle!lifecycleVars, StatusMap, ReleaseMap
<1>2. CASE NewBlock /\ UNCHANGED indicatorVars
  BY <1>2 DEF NewBlock, indicatorVars, Lifecycle!Next, Lifecycle!Tick, StatusMap, ReleaseMap
<1>3. ASSUME NEW v \in Validator, ValidatorCall(v), UNCHANGED processedEvidence
      PROVE  Lifecycle!Next
  BY <1>3, RegisterAdmits, UnjailReleases DEF ValidatorCall, Lifecycle!Next
<1>4. ASSUME NEW v \in Validator, SystemCall(v), UNCHANGED processedEvidence
      PROVE  Lifecycle!Next \/ UNCHANGED Lifecycle!lifecycleVars
  BY <1>4, ReportMissedBlockRefines, JailValidatorOrders, SlashStutters,
     ValidatorSetParameters
     DEF SystemCall, Lifecycle!Next
<1>5. ASSUME NEW v \in Validator, IndicatorCall(v)
      PROVE  Lifecycle!Next \/ UNCHANGED Lifecycle!lifecycleVars
  <2>1. CASE SlashMisdemeanor(v)
    BY <2>1, ReportMissedBlockRefines DEF SlashMisdemeanor, Lifecycle!Next
  <2>2. CASE SlashFelony(v)
    BY <2>2, SlashStutters, IndicatorParameters DEF SlashFelony
  <2>3. CASE SlashCountOnly(v) \/ ResetRecord(v)
    BY <1>1, <2>3 DEF SlashCountOnly, ResetRecord, vsVars
  <2>4. ASSUME NEW hash \in Evidence, SubmitDoubleSignEvidence(v, hash)
        PROVE  Lifecycle!Next
    BY <2>4, EvidenceJails DEF Lifecycle!Next
  <2> QED
    BY <1>5, <2>1, <2>2, <2>3, <2>4 DEF IndicatorCall, Slash
<1> QED
  BY <1>1, <1>2, <1>3, <1>4, <1>5 DEF Next, vars, indicatorVars

\* The two contracts together implement the abstract life cycle: whatever the
\* order of misses, felonies, evidence, governance calls, registrations and
\* returns, an active validator either paid a bond of at least MIN_STAKE for its
\* place or served a sentence to the end, and a sentence is passed for misses on
\* the active only, by an order of the authorities, or for a piece of evidence
\* not seen before.  The last two may fall on an address that never paid a bond.
THEOREM ContractsImplementLifecycle == Spec => ImplementsLifecycle
<1> QED
  BY LifecycleInit, LifecycleStep, RosterCorrect, PTL
     DEF Spec, ImplementsLifecycle, Lifecycle!Spec
-----------------------------------------------------------------------------
(* The bonds.  Every call changes one record at most.                      *)

\* One record, whose bond grows by no more than the contract is paid.
PaidChange(v, rec) ==
    /\ rec \in ValidatorRecord
    /\ validators' = [validators EXCEPT ![v] = rec]
    /\ rec.stakedAmount - validators[v].stakedAmount <= balance' - balance

\* A change without payment that leaves the bond as it is, or takes from it.
KeepsBond(v) ==
    /\ UNCHANGED balance
    /\ \E rec \in ValidatorRecord :
          /\ validators' = [validators EXCEPT ![v] = rec]
          /\ rec.stakedAmount = validators[v].stakedAmount

TakesBond(v) ==
    /\ UNCHANGED balance
    /\ \E rec \in ValidatorRecord :
          /\ validators' = [validators EXCEPT ![v] = rec]
          /\ rec.stakedAmount <= validators[v].stakedAmount

\* A registration pays for the bond it records.
LEMMA RegisterPays ==
    ASSUME RosterInvariant, NEW v \in Validator, NEW stake \in Deposits,
           RegisterValidator(v, stake)
    PROVE  PaidChange(v, NewRecord(stake)) /\ balance' \in Nat /\ balance' > balance
<1>1. stake \in Nat /\ stake > 0 /\ stake >= MIN_STAKE
  BY ValidatorSetParameters DEF RegisterValidator
<1>2. balance \in Nat /\ validators[v] \in ValidatorRecord
  BY DEF RosterInvariant, TypeOK
<1>3. validators[v].stakedAmount \in Nat
  BY <1>2 DEF ValidatorRecord
<1>4. NewRecord(stake) \in ValidatorRecord /\ NewRecord(stake).stakedAmount = stake
  BY <1>1, NewRecordResult
<1>5. balance' = balance + stake /\ validators' = [validators EXCEPT ![v] = NewRecord(stake)]
  BY DEF RegisterValidator
<1> QED
  BY <1>1, <1>2, <1>3, <1>4, <1>5 DEF PaidChange

\* Unjailing returns the validator with the bond it has left.
LEMMA UnjailKeeps ==
    ASSUME RosterInvariant, NEW v \in Validator, Unjail(v)
    PROVE  KeepsBond(v)
<1> DEFINE rec == [validators[v] EXCEPT !.isJailed = FALSE, !.isActive = TRUE,
                                       !.missedBlocksCount = 0]
<1>1. validators \in [Validator -> ValidatorRecord] /\ validators[v] \in ValidatorRecord
  BY DEF RosterInvariant, TypeOK
<1>2. rec \in ValidatorRecord /\ rec.stakedAmount = validators[v].stakedAmount
  BY <1>1 DEF ValidatorRecord
<1>3. validators' = [validators EXCEPT ![v] = rec] /\ UNCHANGED balance
  BY <1>1 DEF Unjail
<1> HIDE DEF rec
<1> QED
  BY <1>2, <1>3 DEF KeepsBond

LEMMA ReportMissedBlockKeeps ==
    ASSUME RosterInvariant, NEW v \in Validator, ReportMissedBlock(v)
    PROVE  KeepsBond(v)
<1> DEFINE until == blockNumber + JAIL_DURATION_BLOCKS
<1>1. /\ validators \in [Validator -> ValidatorRecord]
      /\ validators[v] \in ValidatorRecord
      /\ until \in Nat
      /\ UNCHANGED balance
  BY ValidatorSetParameters DEF RosterInvariant, TypeOK, ReportMissedBlock
<1>2. /\ Missed(validators[v]) \in ValidatorRecord
      /\ Missed(validators[v]).stakedAmount = validators[v].stakedAmount
  BY <1>1, MissedResult
<1>3. CASE UNCHANGED validators
  <2>1. validators' = [validators EXCEPT ![v] = validators[v]]
    BY <1>1, <1>3
  <2> QED
    BY <1>1, <2>1 DEF KeepsBond
<1>4. CASE validators' = [validators EXCEPT ![v] = Missed(@)]
  BY <1>1, <1>2, <1>4 DEF KeepsBond
<1>5. CASE validators' = [validators EXCEPT ![v] = Jailed(Missed(@), until)]
  <2>1. /\ Jailed(Missed(validators[v]), until) \in ValidatorRecord
        /\ Jailed(Missed(validators[v]), until).stakedAmount = validators[v].stakedAmount
    BY <1>1, <1>2, JailedResult
  <2> QED
    BY <1>1, <1>5, <2>1 DEF KeepsBond
<1> QED
  BY <1>3, <1>4, <1>5 DEF ReportMissedBlock

LEMMA JailValidatorKeeps ==
    ASSUME RosterInvariant, NEW v \in Validator, NEW duration \in Nat,
           JailValidator(v, duration)
    PROVE  KeepsBond(v)
<1>1. /\ validators \in [Validator -> ValidatorRecord]
      /\ validators[v] \in ValidatorRecord
      /\ blockNumber + duration \in Nat
  BY DEF RosterInvariant, TypeOK
<1>2. /\ Jailed(validators[v], blockNumber + duration) \in ValidatorRecord
      /\ Jailed(validators[v], blockNumber + duration).stakedAmount = validators[v].stakedAmount
  BY <1>1, JailedResult
<1> QED
  BY <1>1, <1>2 DEF JailValidator, KeepsBond

LEMMA SlashTakes ==
    ASSUME RosterInvariant, NEW v \in Validator, NEW percentage \in 0..100,
           SlashValidatorStake(v, percentage)
    PROVE  TakesBond(v)
<1>1. /\ validators \in [Validator -> ValidatorRecord]
      /\ validators[v] \in ValidatorRecord
  BY DEF RosterInvariant, TypeOK
<1>2. /\ Slashed(validators[v], percentage) \in ValidatorRecord
      /\ Slashed(validators[v], percentage).stakedAmount <= validators[v].stakedAmount
  BY <1>1, SlashedResult
<1> QED
  BY <1>1, <1>2 DEF SlashValidatorStake, TakesBond

LEMMA EvidenceTakes ==
    ASSUME RosterInvariant, NEW v \in Validator, NEW hash,
           SubmitDoubleSignEvidence(v, hash)
    PROVE  TakesBond(v)
<1> DEFINE until == blockNumber + DOUBLE_SIGN_JAIL
<1> DEFINE slashed == Slashed(validators[v], DOUBLE_SIGN_SLASH_PERCENT)
<1>1. /\ validators \in [Validator -> ValidatorRecord]
      /\ validators[v] \in ValidatorRecord
      /\ until \in Nat
  BY IndicatorParameters DEF RosterInvariant, TypeOK
<1>2. slashed \in ValidatorRecord /\ slashed.stakedAmount <= validators[v].stakedAmount
  BY <1>1, SlashedResult, IndicatorParameters
<1>3. /\ Jailed(slashed, until) \in ValidatorRecord
      /\ Jailed(slashed, until).stakedAmount = slashed.stakedAmount
  BY <1>1, <1>2, JailedResult
<1>4. validators' = [validators EXCEPT ![v] = Jailed(slashed, until)] /\ UNCHANGED balance
  BY DEF SubmitDoubleSignEvidence
<1> HIDE DEF slashed, until
<1> QED
  BY <1>2, <1>3, <1>4 DEF TakesBond

\* What a step does to the bonds, by the call it makes.
LEMMA BondStep ==
    ASSUME RosterInvariant, Next
    PROVE  \/ UNCHANGED <<validators, balance>>
           \/ \E v \in Validator :
                 \/ KeepsBond(v)
                 \/ /\ balance' \in Nat /\ balance' > balance
                    /\ \E rec : PaidChange(v, rec)
                 \/ /\ TakesBond(v)
                    /\ \/ \E percentage \in Percentages : SlashValidatorStake(v, percentage)
                       \/ felonyCount'[v] = felonyCount[v] + 1
                       \/ \E hash \in Evidence \ processedEvidence :
                             processedEvidence' = processedEvidence \cup {hash}
<1>1. CASE NewBlock
  BY <1>1 DEF NewBlock
<1>2. ASSUME NEW v \in Validator, ValidatorCall(v)
      PROVE  \/ KeepsBond(v)
             \/ /\ balance' \in Nat /\ balance' > balance
                /\ \E rec : PaidChange(v, rec)
  BY <1>2, RegisterPays, UnjailKeeps DEF ValidatorCall
<1>3. ASSUME NEW v \in Validator, SystemCall(v)
      PROVE  \/ KeepsBond(v)
             \/ /\ TakesBond(v)
                /\ \E percentage \in Percentages : SlashValidatorStake(v, percentage)
  BY <1>3, ReportMissedBlockKeeps, JailValidatorKeeps, SlashTakes, ValidatorSetParameters
     DEF SystemCall
<1>4. ASSUME NEW v \in Validator, IndicatorCall(v)
      PROVE  \/ UNCHANGED <<validators, balance>>
             \/ KeepsBond(v)
             \/ /\ TakesBond(v)
                /\ \/ felonyCount'[v] = felonyCount[v] + 1
                   \/ \E hash \in Evidence \ processedEvidence :
                         processedEvidence' = processedEvidence \cup {hash}
  <2>1. CASE SlashMisdemeanor(v)
    BY <2>1, ReportMissedBlockKeeps DEF SlashMisdemeanor
  <2>2. CASE SlashFelony(v)
    <3>1. felonyCount'[v] = felonyCount[v] + 1
      BY <2>2 DEF SlashFelony, RosterInvariant, TypeOK
    <3> QED
      BY <2>2, <3>1, SlashTakes, IndicatorParameters DEF SlashFelony
  <2>3. CASE SlashCountOnly(v) \/ ResetRecord(v)
    BY <2>3 DEF SlashCountOnly, ResetRecord, vsVars
  <2>4. ASSUME NEW hash \in Evidence, SubmitDoubleSignEvidence(v, hash)
        PROVE  /\ TakesBond(v)
               /\ hash \notin processedEvidence
               /\ processedEvidence' = processedEvidence \cup {hash}
    BY <2>4, EvidenceTakes DEF SubmitDoubleSignEvidence
  <2> QED
    BY <1>4, <2>1, <2>2, <2>3, <2>4 DEF IndicatorCall, Slash
<1> QED
  BY <1>1, <1>2, <1>3, <1>4 DEF Next

-----------------------------------------------------------------------------
(* The bonds on record and the coin that covers them.                      *)

\* In genesis each validator on the roster, which lists nobody twice, has
\* MIN_STAKE.
LEMMA BondsCoveredInit == Init => BondsCovered
<1> SUFFICES ASSUME Init
             PROVE  BondsCovered
  OBVIOUS
<1>1. /\ MIN_STAKE \in Int
      /\ Range(GenesisRoster) \in SUBSET Validator
  BY ValidatorSetParameters, GenesisAssumption DEF Range
<1>2. \A v \in Validator : Stake[v] = IF v \in Range(GenesisRoster) THEN MIN_STAKE ELSE 0
  BY DEF Stake, Init, VSInit, NewRecord, NoRecord
<1>3. Stake \in [Validator -> Int]
  BY <1>1, <1>2 DEF Stake
<1>4. TotalStake = MIN_STAKE * Cardinality(Range(GenesisRoster))
  BY <1>1, <1>2, <1>3, SumConstantOnSubset, AddressAssumption DEF TotalStake
<1>5. Cardinality(Range(GenesisRoster)) = Len(GenesisRoster)
  <2>1. Len(GenesisRoster) \in Nat /\ DOMAIN GenesisRoster = 1..Len(GenesisRoster)
    BY GenesisAssumption
  <2>2. GenesisRoster \in Bijection(1..Len(GenesisRoster), Range(GenesisRoster))
    BY <2>1, GenesisAssumption
       DEF Bijection, Injection, Surjection, IsInjective, Range
  <2>3. ExistsBijection(1..Len(GenesisRoster), Range(GenesisRoster))
    BY <2>2 DEF ExistsBijection
  <2> QED
    BY <1>1, <2>1, <2>3, FS_CountingElements, AddressAssumption, FS_Subset
<1>6. TotalStake \in Int
  BY <1>3, SumType, AddressAssumption DEF TotalStake
<1> QED
  BY <1>4, <1>5, <1>6 DEF BondsCovered, Init, VSInit

LEMMA OneBondMoves ==
    ASSUME RosterInvariant, BondsCovered, balance' \in Nat,
           NEW v \in Validator, NEW rec, PaidChange(v, rec)
    PROVE  BondsCovered'
<1>1. validators \in [Validator -> ValidatorRecord] /\ balance \in Nat
  BY DEF RosterInvariant, TypeOK
<1>2. validators' \in [Validator -> ValidatorRecord]
  BY <1>1 DEF PaidChange
<1>3. Stake \in [Validator -> Int] /\ Stake' \in [Validator -> Int]
  BY <1>1, <1>2 DEF Stake, ValidatorRecord
<1>4. \A w \in Validator \ {v} : Stake'[w] = Stake[w]
  BY <1>1 DEF Stake, PaidChange
<1>5. Stake'[v] - Stake[v] <= balance' - balance
  BY <1>1 DEF Stake, PaidChange
<1>6. TotalStake' = TotalStake + Stake'[v] - Stake[v]
  BY <1>3, <1>4, SumUpdate, AddressAssumption DEF TotalStake
<1>7. TotalStake \in Int /\ Stake[v] \in Int /\ Stake'[v] \in Int
  BY <1>3, SumType, AddressAssumption DEF TotalStake
<1>8. MIN_STAKE * Len(GenesisRoster) \in Int
  BY ValidatorSetParameters, GenesisAssumption
<1> QED
  BY <1>1, <1>5, <1>6, <1>7, <1>8 DEF BondsCovered

LEMMA BondsCoveredStep == RosterInvariant /\ BondsCovered /\ [Next]_vars => BondsCovered'
<1> SUFFICES ASSUME RosterInvariant, BondsCovered, [Next]_vars
             PROVE  BondsCovered'
  OBVIOUS
<1>1. CASE UNCHANGED <<validators, balance>>
  BY <1>1 DEF BondsCovered, TotalStake, Stake
<1>2. CASE UNCHANGED vars
  BY <1>1, <1>2 DEF vars
<1>3. ASSUME NEW v \in Validator, KeepsBond(v) \/ TakesBond(v)
      PROVE  BondsCovered'
  <2>1. PICK rec \in ValidatorRecord :
           /\ validators' = [validators EXCEPT ![v] = rec]
           /\ rec.stakedAmount <= validators[v].stakedAmount
    BY <1>3 DEF KeepsBond, TakesBond, ValidatorRecord
  <2>2. balance' = balance /\ balance \in Nat /\ validators[v].stakedAmount \in Nat
    BY <1>3 DEF KeepsBond, TakesBond, RosterInvariant, TypeOK, ValidatorRecord
  <2>3. rec.stakedAmount \in Nat
    BY DEF ValidatorRecord
  <2>4. PaidChange(v, rec)
    BY <2>1, <2>2, <2>3 DEF PaidChange
  <2> QED
    BY <2>2, <2>4, OneBondMoves
<1> QED
  BY <1>1, <1>2, <1>3, BondStep, OneBondMoves

\* The bonds on record never exceed what the contract was paid plus the
\* MIN_STAKE granted to each genesis validator, for every finite set of
\* addresses: a bond replaced by a re-registration is not counted twice.
THEOREM BondsAreCovered == Spec => []BondsCovered
<1> QED
  BY BondsCoveredInit, BondsCoveredStep, RosterCorrect, PTL DEF Spec

\* Slashing follows a cause on record: whatever the interleaving, a bond falls
\* only with a new felony, with evidence not seen before, with a fresh bond in
\* its place, or by the governor's own slash.
THEOREM StakeFallsOnlySo == Spec => StakeFallsBySentence
<1> DEFINE Cause(v) ==
      \/ felonyCount'[v] = felonyCount[v] + 1
      \/ \E hash \in Evidence \ processedEvidence :
            processedEvidence' = processedEvidence \cup {hash}
      \/ balance' > balance
      \/ \E percentage \in Percentages : SlashValidatorStake(v, percentage)
<1>1. ASSUME RosterInvariant, [Next]_vars, NEW v \in Validator,
             validators'[v].stakedAmount < validators[v].stakedAmount
      PROVE  Cause(v)
  <2>1. /\ validators \in [Validator -> ValidatorRecord]
        /\ validators[v].stakedAmount \in Nat
    BY <1>1 DEF RosterInvariant, TypeOK, ValidatorRecord
  <2>2. validators'[v] # validators[v]
    BY <1>1, <2>1
  <2>3. ~UNCHANGED validators
    BY <2>2
  <2>4. ASSUME NEW w \in Validator, KeepsBond(w)
        PROVE  FALSE
    BY <1>1, <2>1, <2>2, <2>4 DEF KeepsBond
  <2>5. ASSUME NEW w \in Validator, TakesBond(w)
        PROVE  w = v
    BY <2>1, <2>2, <2>5 DEF TakesBond
  <2> QED
    BY <1>1, <2>3, <2>4, <2>5, BondStep DEF vars
<1>2. RosterInvariant /\ [Next]_vars =>
        [\A v \in Validator :
            validators'[v].stakedAmount < validators[v].stakedAmount => Cause(v)]_vars
  BY <1>1
<1> QED
  BY <1>2, RosterCorrect, PTL DEF Spec, StakeFallsBySentence

-----------------------------------------------------------------------------
(* Treasury mining.                                                        *)

H == HALVING_INTERVAL

\* The schedule, before the cap at what the treasury holds.
Scheduled(n) ==
    IF n \div H >= MAX_HALVINGS THEN 0 ELSE ShiftedReward[n \div H]

Budget(n, distributed) ==
    distributed + (H - 1 - (n % H)) * Scheduled(n) + H * Scheduled(n)
        <= 2 * H * ShiftedReward[0]

\* The right shift by one place more is the floor of half.
LEMMA Shift ==
    /\ ShiftedReward \in [Nat -> Nat]
    /\ ShiftedReward[0] = INITIAL_BLOCK_REWARD
    /\ \A h \in Nat : ShiftedReward[h + 1] = ShiftedReward[h] \div 2
BY TreasuryParameters, Halving DEF ShiftedReward

LEMMA Parameters ==
    /\ H \in Nat /\ H >= 1
    /\ MAX_HALVINGS \in Nat /\ MAX_HALVINGS >= 1
    /\ ShiftedReward[0] \in Nat
    /\ TREASURY_ADDRESS \notin Miner
BY TreasuryParameters, Shift DEF H

\* From a block to the next: within an epoch, or into the next one.
LEMMA EpochStep ==
    ASSUME NEW n \in Nat
    PROVE  /\ n \div H \in Nat
           /\ n % H \in 0..(H - 1)
           /\ \/ /\ (n + 1) \div H = n \div H
                 /\ (n + 1) % H = (n % H) + 1
              \/ /\ (n + 1) \div H = (n \div H) + 1
                 /\ n % H = H - 1
                 /\ (n + 1) % H = 0
<1> DEFINE q == n \div H
<1> DEFINE r == n % H
<1>1. H \in Nat /\ H >= 1
  BY Parameters
<1>2. q \in Nat /\ r \in 0..(H - 1) /\ n = H * q + r
  BY <1>1, Z3T(30)
<1>3. CASE r + 1 < H
  <2>1. n + 1 = H * q + (r + 1)
    BY <1>1, <1>2
  <2> QED
    BY <1>1, <1>2, <1>3, <2>1, Z3T(30)
<1>4. CASE r + 1 = H
  <2>1. n + 1 = H * (q + 1) + 0
    BY <1>1, <1>2, <1>4, Z3T(30)
  <2> QED
    BY <1>1, <1>2, <1>4, <2>1, Z3T(30)
<1> QED
  BY <1>1, <1>2, <1>3, <1>4

LEMMA ScheduledType == ASSUME NEW n \in Nat PROVE Scheduled(n) \in Nat
BY EpochStep, Shift DEF Scheduled

\* Within an epoch the schedule stays, in the next one it is halved at least.
LEMMA ScheduleStep ==
    ASSUME NEW n \in Nat
    PROVE  /\ (n + 1) \div H = n \div H => Scheduled(n + 1) = Scheduled(n)
           /\ (n + 1) \div H = (n \div H) + 1 => 2 * Scheduled(n + 1) <= Scheduled(n)
<1> DEFINE q == n \div H
<1>1. q \in Nat
  BY EpochStep
<1>2. (n + 1) \div H = q => Scheduled(n + 1) = Scheduled(n)
  BY DEF Scheduled
<1>3. ASSUME (n + 1) \div H = q + 1
      PROVE  2 * Scheduled(n + 1) <= Scheduled(n)
  <2>1. CASE q + 1 >= MAX_HALVINGS
    <3>1. Scheduled(n + 1) = 0
      BY <1>3, <2>1 DEF Scheduled
    <3> QED
      BY <3>1, ScheduledType
  <2>2. CASE q + 1 < MAX_HALVINGS
    <3>1. Scheduled(n + 1) = ShiftedReward[q + 1] /\ Scheduled(n) = ShiftedReward[q]
      BY <1>1, <1>3, <2>2, Parameters DEF Scheduled
    <3>2. ShiftedReward[q + 1] = ShiftedReward[q] \div 2 /\ ShiftedReward[q] \in Nat
      BY <1>1, Shift
    <3> DEFINE reward == ShiftedReward[q]
    <3>3. reward \in Nat /\ 2 * (reward \div 2) <= reward
      BY <3>2
    <3> QED
      BY <3>1, <3>2, <3>3
  <2> QED
    BY <1>1, <2>1, <2>2, Parameters
<1> QED
  BY <1>2, <1>3

LEMMA BudgetGenesis == Budget(0, 0)
<1>1. 0 \div H = 0 /\ 0 % H = 0
  BY Parameters, Z3T(30)
<1>2. Scheduled(0) = ShiftedReward[0]
  BY <1>1, Parameters DEF Scheduled
<1> DEFINE r == ShiftedReward[0]
<1>3. r \in Nat /\ H \in Nat /\ H >= 1
  BY Parameters
<1>4. 0 + (H - 1 - 0) * r + H * r <= 2 * H * r
  <2> HIDE DEF r
  <2> DEFINE x == (H - 1 - 0) * r
  <2> DEFINE y == H * r
  <2>1. x \in Nat /\ y \in Nat /\ x <= y /\ 2 * H * r = y + y
    BY <1>3, Z3T(30)
  <2> HIDE DEF x, y
  <2>2. 0 + x + y <= y + y
    BY <2>1
  <2> QED
    BY <2>1, <2>2 DEF x, y
<1>5. 0 + (H - 1 - (0 % H)) * Scheduled(0) + H * Scheduled(0) <= 2 * H * ShiftedReward[0]
  BY <1>1, <1>2, <1>4
<1> QED
  BY <1>5 DEF Budget

\* A payout of at most the schedule keeps within the budget.
LEMMA BudgetStep ==
    ASSUME NEW n \in Nat, NEW distributed \in Nat, Budget(n, distributed),
           NEW payout \in Nat, payout <= Scheduled(n + 1)
    PROVE  Budget(n + 1, distributed + payout)
<1> DEFINE r == Scheduled(n)
<1> DEFINE s == Scheduled(n + 1)
<1> DEFINE m == n % H
<1> DEFINE cap == 2 * H * ShiftedReward[0]
<1>1. r \in Nat /\ s \in Nat /\ H \in Nat /\ H >= 1 /\ cap \in Nat
  BY ScheduledType, Parameters
<1>2. m \in 0..(H - 1)
  BY EpochStep
<1>3. distributed + (H - 1 - m) * r + H * r <= cap
  BY DEF Budget
<1>4. CASE (n + 1) \div H = n \div H /\ (n + 1) % H = m + 1
  <2>1. s = r
    BY <1>4, ScheduleStep
  <2> HIDE DEF r, s, m, cap
  <2>2. distributed + payout + (H - 1 - (m + 1)) * r + H * r <= cap
    <3>1. (H - 1 - m) * r = (H - 1 - (m + 1)) * r + r
      BY <1>1, <1>2, Z3T(30)
    <3> DEFINE x == (H - 1 - (m + 1)) * r
    <3> DEFINE y == H * r
    <3>2. x \in Int /\ y \in Int
      BY <1>1, <1>2
    <3>3. payout <= r
      BY <2>1 DEF s
    <3>4. distributed + (x + r) + y <= cap
      BY <1>3, <3>1
    <3> HIDE DEF x, y
    <3>5. distributed + payout + x + y <= cap
      BY <1>1, <3>2, <3>3, <3>4
    <3> QED
      BY <3>5 DEF x, y
  <2> QED
    BY <1>4, <2>1, <2>2 DEF Budget, s, cap
<1>5. CASE (n + 1) \div H = (n \div H) + 1 /\ m = H - 1 /\ (n + 1) % H = 0
  <2>1. 2 * s <= r
    BY <1>5, ScheduleStep
  <2>2. payout <= s
    OBVIOUS
  <2> HIDE DEF r, s, m, cap
  <2>3. distributed + H * r <= cap
    BY <1>1, <1>3, <1>5
  <2>4. H * (2 * s) <= H * r
    BY <1>1, <2>1, Z3T(30)
  <2>5. payout + (H - 1 - 0) * s + H * s <= H * (2 * s)
    BY <1>1, <2>2, Z3T(30)
  <2> DEFINE x == H * r
  <2> DEFINE y == H * (2 * s)
  <2> DEFINE z == (H - 1 - 0) * s + H * s
  <2>6. x \in Int /\ y \in Int /\ z \in Int
    BY <1>1
  <2>7. distributed + x <= cap /\ y <= x /\ payout + z <= y
    <3>1. payout + z <= y
      <4> DEFINE z1 == (H - 1 - 0) * s
      <4> DEFINE z2 == H * s
      <4>1. z1 \in Int /\ z2 \in Int
        BY <1>1
      <4>2. payout + z1 + z2 <= y
        BY <2>5
      <4> HIDE DEF z1, z2, y
      <4>3. payout + (z1 + z2) <= y
        BY <2>6, <4>1, <4>2
      <4> QED
        BY <4>3 DEF z1, z2
    <3> QED
      BY <2>3, <2>4, <3>1
  <2> HIDE DEF x, y, z
  <2>8. distributed + payout + z <= cap
    BY <1>1, <2>6, <2>7
  <2>9. distributed + payout + (H - 1 - 0) * s + H * s <= cap
    <3> DEFINE z1 == (H - 1 - 0) * s
    <3> DEFINE z2 == H * s
    <3>1. z1 \in Int /\ z2 \in Int
      BY <1>1
    <3>2. distributed + payout + (z1 + z2) <= cap
      BY <2>8 DEF z
    <3> HIDE DEF z1, z2
    <3>3. distributed + payout + z1 + z2 <= cap
      BY <1>1, <3>1, <3>2
    <3> QED
      BY <3>3 DEF z1, z2
  <2> QED
    BY <1>5, <2>9 DEF Budget, s, cap
<1> QED
  BY <1>4, <1>5, EpochStep

\* What is left of the budget is never negative.
LEMMA BudgetBounds ==
    ASSUME NEW n \in Nat, NEW distributed \in Nat, Budget(n, distributed)
    PROVE  distributed <= 2 * H * ShiftedReward[0]
<1> DEFINE r == Scheduled(n)
<1> DEFINE m == n % H
<1> DEFINE x == (H - 1 - m) * r
<1> DEFINE y == H * r
<1> DEFINE cap == 2 * H * ShiftedReward[0]
<1>1. r \in Nat /\ H \in Nat /\ H >= 1 /\ m \in 0..(H - 1) /\ cap \in Nat
  <2>1. r \in Nat
    BY ScheduledType
  <2>2. m \in 0..(H - 1)
    BY EpochStep
  <2>3. H \in Nat /\ H >= 1 /\ cap \in Nat
    BY Parameters
  <2> QED
    BY <2>1, <2>2, <2>3
<1>2. H - 1 - m \in Nat
  BY <1>1
<1>3. x \in Nat /\ y \in Nat
  <2> HIDE DEF r, m
  <2> QED
    BY <1>1, <1>2, Z3T(30)
<1>4. distributed + x + y <= cap
  BY DEF Budget
<1> HIDE DEF x, y, cap
<1>5. distributed <= cap
  BY <1>1, <1>3, <1>4
<1> QED
  BY <1>5 DEF cap


-----------------------------------------------------------------------------
\* What the snapshot of block n says was distributed up to it.
Distributed(history, n) == IF n = 0 THEN 0 ELSE history[n].distributed

ChainTypeOK ==
    /\ treasury_balance_wei \in Nat
    /\ balances \in [Account -> Int]
    /\ balances[TREASURY_ADDRESS] \in Nat
    /\ height \in Nat
    /\ DOMAIN block_history = 1..height
    /\ \A n \in 1..height : block_history[n] \in Snapshot

\* Each snapshot adds its payout to the total of the one below it.
HistoryAdds ==
    \A n \in 1..height :
        block_history[n].distributed = Distributed(block_history, n - 1) + block_history[n].payout

WithinBudget == \A n \in 0..height : Budget(n, Distributed(block_history, n))

BudgetInv ==
    /\ ChainTypeOK
    /\ HistoryAdds
    /\ total_distributed_wei = Distributed(block_history, height)
    /\ WithinBudget
    /\ PreMintedConserved

LEMMA PayoutBounds ==
    ASSUME balances[TREASURY_ADDRESS] \in Nat, NEW n \in Nat
    PROVE  /\ Payout(n) \in Nat
           /\ Payout(n) <= Scheduled(n)
           /\ Payout(n) <= balances[TREASURY_ADDRESS]
<1> DEFINE t == balances[TREASURY_ADDRESS]
<1>1. Scheduled(n) \in Nat
  BY ScheduledType
<1>2. CalculateBlockReward(n, t) = IF t = 0 THEN 0 ELSE AtMost(Scheduled(n), t)
  BY <1>1 DEF CalculateBlockReward, Scheduled, H, AtMost
<1>3. /\ CalculateBlockReward(n, t) \in Nat
      /\ CalculateBlockReward(n, t) <= Scheduled(n)
      /\ CalculateBlockReward(n, t) <= t
  BY <1>1, <1>2 DEF AtMost
<1>4. Payout(n) = CalculateBlockReward(n, t)
  BY <1>3 DEF Payout, AtMost
<1> QED
  BY <1>3, <1>4

LEMMA DistributedType ==
    ASSUME ChainTypeOK, NEW n \in 0..height
    PROVE  Distributed(block_history, n) \in Nat
BY DEF ChainTypeOK, Distributed, Snapshot

LEMMA BudgetInvInit == ChainInit => BudgetInv
<1> SUFFICES ASSUME ChainInit PROVE BudgetInv
  OBVIOUS
<1>1. ChainTypeOK
  BY Parameters, TreasuryParameters DEF ChainInit, EngineInit, ChainTypeOK, Account
<1>2. HistoryAdds
  BY DEF ChainInit, HistoryAdds
<1>3. total_distributed_wei = Distributed(block_history, height)
  BY DEF ChainInit, EngineInit, Distributed
<1>4. WithinBudget
  <2>1. height = 0 /\ Distributed(block_history, 0) = 0
    BY DEF ChainInit, Distributed
  <2> QED
    BY <2>1, BudgetGenesis DEF WithinBudget
<1>5. PreMintedConserved
  BY Parameters, TreasuryParameters DEF ChainInit, EngineInit, PreMintedConserved, Account
<1> QED
  BY <1>1, <1>2, <1>3, <1>4, <1>5 DEF BudgetInv

\* A block takes its payout from the treasury and appends a snapshot.
LEMMA BudgetInvExtend ==
    ASSUME BudgetInv, NEW miner \in Miner, NEW tx_fees \in Fees, NEW donation \in Donations,
           ExtendChain(miner, tx_fees, donation)
    PROVE  BudgetInv'
<1> DEFINE n == height + 1
<1> DEFINE payout == Payout(n)
<1> DEFINE t == balances[TREASURY_ADDRESS]
<1>1. /\ height \in Nat /\ n \in Nat /\ n >= 1 /\ treasury_balance_wei \in Nat
      /\ balances \in [Account -> Int]
      /\ t \in Nat
      /\ DOMAIN block_history = 1..height
  BY DEF BudgetInv, ChainTypeOK
<1>2. payout \in Nat /\ payout <= Scheduled(n) /\ payout <= t
  BY <1>1, PayoutBounds
<1>3. miner \in Account /\ miner # TREASURY_ADDRESS /\ TREASURY_ADDRESS \in Account
      /\ tx_fees \in Nat
  BY Parameters, TreasuryParameters DEF Account
<1>4. total_distributed_wei \in Nat /\ total_distributed_wei = Distributed(block_history, height)
  BY <1>1, DistributedType DEF BudgetInv
<1> HIDE DEF payout
<1>5. /\ height' = n /\ treasury_balance_wei' = treasury_balance_wei
      /\ balances' = [balances EXCEPT ![TREASURY_ADDRESS] = @ - payout,
                                      ![miner] = @ + payout + tx_fees]
      /\ total_distributed_wei' = total_distributed_wei + payout
      /\ block_history' = [k \in DOMAIN block_history \cup {n} |->
            IF k = n
            THEN [miner |-> miner, payout |-> payout, fees |-> tx_fees,
                  remaining |-> t - payout,
                  distributed |-> total_distributed_wei + payout]
            ELSE block_history[k]]
  BY DEF ExtendChain, FinalizeBlockReward, payout
<1>6. balances'[TREASURY_ADDRESS] = t - payout /\ balances' \in [Account -> Int]
  BY <1>1, <1>2, <1>3, <1>5
<1>7. DOMAIN block_history' = 1..height'
  BY <1>1, <1>5
<1>8. \A k \in 1..height : block_history'[k] = block_history[k]
  BY <1>1, <1>5
<1>9. /\ block_history'[n] = [miner |-> miner, payout |-> payout, fees |-> tx_fees,
                  remaining |-> t - payout,
                  distributed |-> total_distributed_wei + payout]
  BY <1>1, <1>5
<1>10. ChainTypeOK'
  <2>1. t - payout \in Nat
    BY <1>1, <1>2
  <2>2. block_history'[n] \in Snapshot
    BY <1>2, <1>3, <1>4, <1>9, <2>1 DEF Snapshot
  <2>3. \A k \in 1..height' : block_history'[k] \in Snapshot
    BY <1>1, <1>5, <1>8, <2>2 DEF BudgetInv, ChainTypeOK
  <2> QED
    BY <1>1, <1>5, <1>6, <1>7, <2>1, <2>3 DEF ChainTypeOK
<1>11. /\ \A k \in 0..height : Distributed(block_history', k) = Distributed(block_history, k)
       /\ Distributed(block_history', n) = total_distributed_wei + payout
  BY <1>1, <1>8, <1>9 DEF Distributed
<1>12. HistoryAdds'
  <2>1. SUFFICES ASSUME NEW k \in 1..height'
                 PROVE  block_history'[k].distributed
                           = Distributed(block_history', k - 1) + block_history'[k].payout
    BY DEF HistoryAdds
  <2>2. CASE k = n
    BY <1>1, <1>4, <1>9, <1>11, <2>2
  <2>3. CASE k # n
    <3>1. k \in 1..height /\ k - 1 \in 0..height
      BY <1>1, <1>5, <2>1, <2>3
    <3> QED
      BY <1>8, <1>11, <3>1 DEF BudgetInv, HistoryAdds
  <2> QED
    BY <2>2, <2>3
<1>13. total_distributed_wei' = Distributed(block_history', height')
  BY <1>1, <1>5, <1>9 DEF Distributed
<1>14. WithinBudget'
  <2>1. Budget(height, total_distributed_wei)
    BY <1>1, <1>4 DEF BudgetInv, WithinBudget
  <2>2. Budget(n, total_distributed_wei + payout)
    BY <1>1, <1>2, <1>4, <2>1, BudgetStep
  <2>3. \A k \in 0..height : Budget(k, Distributed(block_history', k))
    BY <1>11 DEF BudgetInv, WithinBudget
  <2>4. \A k \in 0..height' : k \in 0..height \/ k = n
    BY <1>1, <1>5
  <2>5. \A k \in 0..height' : Budget(k, Distributed(block_history', k))
    BY <1>11, <2>2, <2>3, <2>4
  <2> QED
    BY <2>5 DEF WithinBudget, Budget
<1>15. PreMintedConserved'
  BY <1>1, <1>2, <1>4, <1>5, <1>6 DEF BudgetInv, PreMintedConserved
<1> QED
  BY <1>10, <1>12, <1>13, <1>14, <1>15 DEF BudgetInv

\* Orphaning the head gives the payout of its snapshot back.
LEMMA BudgetInvOrphan == ASSUME BudgetInv, OrphanHead PROVE BudgetInv'
<1> DEFINE snapshot == block_history[height]
<1> DEFINE t == balances[TREASURY_ADDRESS]
<1>1. /\ height \in Nat /\ height > 0 /\ treasury_balance_wei \in Nat
      /\ balances \in [Account -> Int]
      /\ t \in Nat
      /\ DOMAIN block_history = 1..height
      /\ snapshot \in Snapshot
  BY DEF BudgetInv, ChainTypeOK, OrphanHead
<1>2. snapshot.miner \in Account /\ snapshot.miner # TREASURY_ADDRESS
      /\ snapshot.payout \in Nat /\ snapshot.fees \in Nat
      /\ TREASURY_ADDRESS \in Account
  BY <1>1, Parameters DEF Account, Snapshot
<1>3. /\ height' = height - 1 /\ treasury_balance_wei' = treasury_balance_wei
      /\ balances' = [balances EXCEPT
            ![TREASURY_ADDRESS] = @ + snapshot.payout,
            ![snapshot.miner] = @ - (snapshot.payout + snapshot.fees)]
      /\ total_distributed_wei' = total_distributed_wei - snapshot.payout
      /\ block_history' = [n \in DOMAIN block_history \ {height} |-> block_history[n]]
  BY DEF OrphanHead, RollbackBlockReorg
<1>4. balances'[TREASURY_ADDRESS] = t + snapshot.payout /\ balances' \in [Account -> Int]
  BY <1>1, <1>2, <1>3
<1>5. DOMAIN block_history' = 1..height' /\ height' \in Nat
  BY <1>1, <1>3
<1>6. \A k \in 1..height' : k \in 1..height /\ block_history'[k] = block_history[k]
  BY <1>1, <1>3
<1>7. ChainTypeOK'
  <2>1. \A k \in 1..height' : block_history'[k] \in Snapshot
    BY <1>6 DEF BudgetInv, ChainTypeOK
  <2>2. balances'[TREASURY_ADDRESS] \in Nat
    BY <1>1, <1>2, <1>4
  <2> QED
    BY <1>1, <1>3, <1>4, <1>5, <2>1, <2>2 DEF ChainTypeOK
<1>8. \A k \in 0..height' : k \in 0..height /\ Distributed(block_history', k) = Distributed(block_history, k)
  BY <1>1, <1>3, <1>6 DEF Distributed
<1>9. HistoryAdds'
  <2>1. SUFFICES ASSUME NEW k \in 1..height'
                 PROVE  block_history'[k].distributed
                           = Distributed(block_history', k - 1) + block_history'[k].payout
    BY DEF HistoryAdds
  <2>2. k - 1 \in 0..height'
    BY <1>5, <2>1
  <2> QED
    BY <1>6, <1>8, <2>1, <2>2 DEF BudgetInv, HistoryAdds
<1>10. total_distributed_wei' = Distributed(block_history, height - 1)
  <2>1. Distributed(block_history, height) = Distributed(block_history, height - 1) + snapshot.payout
    BY <1>1 DEF BudgetInv, HistoryAdds, Distributed
  <2>2. Distributed(block_history, height - 1) \in Nat /\ Distributed(block_history, height) \in Nat
    BY <1>1, DistributedType DEF BudgetInv
  <2> QED
    BY <1>2, <1>3, <2>1, <2>2 DEF BudgetInv
<1>11. total_distributed_wei' = Distributed(block_history', height')
  <2>1. height - 1 \in 0..height'
    BY <1>1, <1>3
  <2>2. Distributed(block_history', height - 1) = Distributed(block_history, height - 1)
    BY <1>3, <1>8, <2>1 DEF Distributed
  <2> QED
    BY <1>1, <1>3, <1>6, <1>10 DEF Distributed
<1>12. WithinBudget'
  <2>1. \A k \in 0..height' : Budget(k, Distributed(block_history', k))
    BY <1>8 DEF BudgetInv, WithinBudget
  <2> QED
    BY <2>1 DEF WithinBudget, Budget
<1>13. PreMintedConserved'
  <2>1. total_distributed_wei \in Nat
    BY <1>1, DistributedType DEF BudgetInv
  <2> QED
    BY <1>1, <1>2, <1>3, <1>4, <2>1 DEF BudgetInv, PreMintedConserved
<1> QED
  BY <1>7, <1>9, <1>11, <1>12, <1>13 DEF BudgetInv

LEMMA BudgetInvStep == BudgetInv /\ [ChainNext]_chainVars => BudgetInv'
<1> SUFFICES ASSUME BudgetInv, [ChainNext]_chainVars PROVE BudgetInv'
  OBVIOUS
<1>1. ASSUME NEW miner \in Miner, NEW tx_fees \in Fees, NEW donation \in Donations,
             ExtendChain(miner, tx_fees, donation)
      PROVE  BudgetInv'
  BY <1>1, BudgetInvExtend
<1>2. CASE OrphanHead
  BY <1>2, BudgetInvOrphan
<1>3. CASE UNCHANGED chainVars
  BY <1>3 DEF chainVars, engineVars, BudgetInv, ChainTypeOK, HistoryAdds, WithinBudget,
              Distributed, PreMintedConserved
<1> QED
  BY <1>1, <1>2, <1>3 DEF ChainNext

LEMMA BudgetInvariant == ChainSpec => []BudgetInv
<1>1. ChainInit => BudgetInv
  BY BudgetInvInit
<1>2. BudgetInv /\ [ChainNext]_chainVars => BudgetInv'
  BY BudgetInvStep
<1> QED
  BY <1>1, <1>2, PTL DEF ChainSpec

\* Over any history of extensions and reorganisations, the capped payouts
\* included, treasury and distribution add up to the pre-minted supply.
THEOREM TreasuryConserved == ChainSpec => []PreMintedConserved
<1>1. BudgetInv => PreMintedConserved
  BY DEF BudgetInv
<1> QED
  BY <1>1, BudgetInvariant, PTL

\* The halving series never empties a treasury of more than twice what the first
\* epoch pays, whatever is reorganised.
THEOREM TreasuryNeverDepleted == ChainSpec => []NeverDepleted
<1>1. BudgetInv => NeverDepleted
  <2> SUFFICES ASSUME BudgetInv, AmpleTreasury PROVE balances[TREASURY_ADDRESS] > 0
    BY DEF NeverDepleted
  <2> DEFINE cap == 2 * H * ShiftedReward[0]
  <2>1. cap \in Nat /\ treasury_balance_wei \in Nat
    BY Parameters DEF BudgetInv, ChainTypeOK
  <2>2. height \in Nat /\ total_distributed_wei \in Nat
        /\ total_distributed_wei = Distributed(block_history, height)
        /\ balances[TREASURY_ADDRESS] \in Nat
    BY DistributedType DEF BudgetInv, ChainTypeOK
  <2>3. Budget(height, total_distributed_wei)
    BY <2>2 DEF BudgetInv, WithinBudget
  <2>4. total_distributed_wei <= cap
    BY <2>2, <2>3, BudgetBounds
  <2>5. treasury_balance_wei > cap
    BY DEF AmpleTreasury, H
  <2> HIDE DEF cap
  <2> QED
    BY <2>1, <2>2, <2>4, <2>5 DEF BudgetInv, PreMintedConserved
<1> QED
  BY <1>1, BudgetInvariant, PTL

-----------------------------------------------------------------------------
(* The books of a history of blocks, up to block n.                        *)

Blocks(history, n, miner) == {k \in 1..n : history[k].miner = miner}

FeesTo(history, n, miner) ==
    SumFunction([k \in Blocks(history, n, miner) |-> history[k].fees])

PaidTo(history, n, miner) ==
    SumFunction([k \in Blocks(history, n, miner) |-> history[k].payout + history[k].fees])

AllFees(history, n) == SumFunction([k \in 1..n |-> history[k].fees])

AllPayouts(history, n) == SumFunction([k \in 1..n |-> history[k].payout])

\* The balances the engine has after block n, by its history.
IsEngine(state, history, n, supply) ==
    /\ state[TREASURY_ADDRESS] = supply - AllPayouts(history, n)
    /\ \A miner \in Miner : state[miner] = PaidTo(history, n, miner)

LEMMA BooksType ==
    ASSUME NEW n \in Nat, NEW history, \A k \in 1..n : history[k] \in Snapshot
    PROVE  /\ AllFees(history, n) \in Nat
           /\ AllPayouts(history, n) \in Nat
           /\ \A miner \in Miner : /\ FeesTo(history, n, miner) \in Nat
                                   /\ PaidTo(history, n, miner) \in Nat
<1>1. \A k \in 1..n : history[k].fees \in Nat /\ history[k].payout \in Nat
  BY DEF Snapshot
<1>2. IsFiniteSet(1..n)
  BY FS_Interval
<1>3. /\ [k \in 1..n |-> history[k].fees] \in [1..n -> Nat]
      /\ [k \in 1..n |-> history[k].payout] \in [1..n -> Nat]
  BY <1>1
<1>4. AllFees(history, n) \in Nat /\ AllPayouts(history, n) \in Nat
  BY <1>2, <1>3, SumNat DEF AllFees, AllPayouts
<1>5. ASSUME NEW miner \in Miner
      PROVE  FeesTo(history, n, miner) \in Nat /\ PaidTo(history, n, miner) \in Nat
  <2> DEFINE B == Blocks(history, n, miner)
  <2>1. B \subseteq 1..n /\ IsFiniteSet(B)
    BY <1>2, FS_Subset DEF Blocks
  <2> HIDE DEF B
  <2>2. /\ [k \in B |-> history[k].fees] \in [B -> Nat]
        /\ [k \in B |-> history[k].payout + history[k].fees] \in [B -> Nat]
    BY <1>1, <2>1
  <2>3. /\ SumFunction([k \in B |-> history[k].fees]) \in Nat
        /\ SumFunction([k \in B |-> history[k].payout + history[k].fees]) \in Nat
    BY <2>1, <2>2, SumNat
  <2> QED
    BY <2>3 DEF B, FeesTo, PaidTo
<1> QED
  BY <1>4, <1>5

\* They depend on the first n blocks alone.
LEMMA BooksLocal ==
    ASSUME NEW n \in Nat, NEW history, NEW other, \A k \in 1..n : other[k] = history[k]
    PROVE  /\ AllFees(other, n) = AllFees(history, n)
           /\ AllPayouts(other, n) = AllPayouts(history, n)
           /\ \A miner \in Miner : /\ FeesTo(other, n, miner) = FeesTo(history, n, miner)
                                   /\ PaidTo(other, n, miner) = PaidTo(history, n, miner)
<1>1. /\ [k \in 1..n |-> other[k].fees] = [k \in 1..n |-> history[k].fees]
      /\ [k \in 1..n |-> other[k].payout] = [k \in 1..n |-> history[k].payout]
  OBVIOUS
<1>2. ASSUME NEW miner \in Miner
      PROVE  /\ FeesTo(other, n, miner) = FeesTo(history, n, miner)
             /\ PaidTo(other, n, miner) = PaidTo(history, n, miner)
  <2> DEFINE B == Blocks(history, n, miner)
  <2>1. Blocks(other, n, miner) = B /\ B \subseteq 1..n
    BY DEF Blocks
  <2> HIDE DEF B
  <2>2. /\ [k \in B |-> other[k].fees] = [k \in B |-> history[k].fees]
        /\ [k \in B |-> other[k].payout + other[k].fees]
              = [k \in B |-> history[k].payout + history[k].fees]
    BY <2>1
  <2>3. /\ FeesTo(other, n, miner) = SumFunction([k \in B |-> other[k].fees])
        /\ PaidTo(other, n, miner) = SumFunction([k \in B |-> other[k].payout + other[k].fees])
    BY <2>1 DEF FeesTo, PaidTo
  <2>4. /\ FeesTo(history, n, miner) = SumFunction([k \in B |-> history[k].fees])
        /\ PaidTo(history, n, miner)
              = SumFunction([k \in B |-> history[k].payout + history[k].fees])
    BY DEF FeesTo, PaidTo, B
  <2> QED
    BY <2>2, <2>3, <2>4
<1> QED
  BY <1>1, <1>2 DEF AllFees, AllPayouts

\* Before the first block the books are empty.
LEMMA BooksGenesis ==
    ASSUME NEW history
    PROVE  /\ AllFees(history, 0) = 0
           /\ AllPayouts(history, 0) = 0
           /\ \A miner \in Miner : FeesTo(history, 0, miner) = 0 /\ PaidTo(history, 0, miner) = 0
<1>1. 1..0 = {} /\ \A miner \in Miner : Blocks(history, 0, miner) = {}
  BY DEF Blocks
<1>2. ASSUME NEW f, DOMAIN f = {} PROVE SumFunction(f) = 0
  BY <1>2, SumEmpty
<1>3. AllFees(history, 0) = 0 /\ AllPayouts(history, 0) = 0
  BY <1>1, <1>2 DEF AllFees, AllPayouts
<1>4. ASSUME NEW miner \in Miner
      PROVE  FeesTo(history, 0, miner) = 0 /\ PaidTo(history, 0, miner) = 0
  BY <1>1, <1>2 DEF FeesTo, PaidTo
<1> QED
  BY <1>3, <1>4

\* A block adds to the books of its miner.
LEMMA BooksStep ==
    ASSUME NEW n \in Nat, NEW history, \A k \in 1..n + 1 : history[k] \in Snapshot
    PROVE  LET b == history[n + 1]
           IN  /\ AllFees(history, n + 1) = AllFees(history, n) + b.fees
               /\ AllPayouts(history, n + 1) = AllPayouts(history, n) + b.payout
               /\ \A miner \in Miner :
                     /\ FeesTo(history, n + 1, miner) = FeesTo(history, n, miner)
                           + (IF miner = b.miner THEN b.fees ELSE 0)
                     /\ PaidTo(history, n + 1, miner) = PaidTo(history, n, miner)
                           + (IF miner = b.miner THEN b.payout + b.fees ELSE 0)
<1> DEFINE b == history[n + 1]
<1>1. \A k \in 1..n + 1 : history[k].fees \in Nat /\ history[k].payout \in Nat
  BY DEF Snapshot
<1>2. /\ 1..n + 1 = (1..n) \cup {n + 1} /\ n + 1 \notin 1..n
      /\ IsFiniteSet(1..n)
  BY FS_Interval
<1>3. ASSUME NEW S, S \subseteq 1..n, NEW v, \A k \in 1..n + 1 : v[k] \in Nat
      PROVE  SumFunction([k \in S \cup {n + 1} |-> v[k]])
                = SumFunction([k \in S |-> v[k]]) + v[n + 1]
  <2> DEFINE x == n + 1
  <2>1. IsFiniteSet(S) /\ x \notin S /\ \A k \in S \cup {x} : v[k] \in Int
    <3>1. IsFiniteSet(S)
      BY <1>2, <1>3, FS_Subset
    <3> QED
      BY <1>3, <3>1
  <2> HIDE DEF x
  <2>2. SumFunction([k \in S \cup {x} |-> v[k]]) = SumFunction([k \in S |-> v[k]]) + v[x]
    BY <2>1, SumOneMore
  <2> QED
    BY <2>2 DEF x
<1> DEFINE fees == [k \in 1..n + 1 |-> history[k].fees]
<1> DEFINE payouts == [k \in 1..n + 1 |-> history[k].payout]
<1> DEFINE both == [k \in 1..n + 1 |-> history[k].payout + history[k].fees]
<1>4. \A k \in 1..n + 1 : fees[k] \in Nat /\ payouts[k] \in Nat /\ both[k] \in Nat
  BY <1>1
<1>5. ASSUME NEW S \in SUBSET (1..n + 1)
      PROVE  /\ [k \in S |-> fees[k]] = [k \in S |-> history[k].fees]
             /\ [k \in S |-> payouts[k]] = [k \in S |-> history[k].payout]
             /\ [k \in S |-> both[k]] = [k \in S |-> history[k].payout + history[k].fees]
  OBVIOUS
<1>6. n + 1 \in 1..n + 1
  OBVIOUS
<1>7. fees[n + 1] = b.fees /\ payouts[n + 1] = b.payout /\ both[n + 1] = b.payout + b.fees
  BY <1>6
<1> HIDE DEF fees, payouts, both, b
<1>8. /\ AllFees(history, n + 1) = AllFees(history, n) + b.fees
      /\ AllPayouts(history, n + 1) = AllPayouts(history, n) + b.payout
  <2>1. /\ SumFunction([k \in (1..n) \cup {n + 1} |-> fees[k]])
              = SumFunction([k \in 1..n |-> fees[k]]) + b.fees
        /\ SumFunction([k \in (1..n) \cup {n + 1} |-> payouts[k]])
              = SumFunction([k \in 1..n |-> payouts[k]]) + b.payout
    BY <1>3, <1>4, <1>7
  <2>2. 1..n \subseteq 1..n + 1
    BY <1>2
  <2> QED
    BY <1>2, <1>5, <2>1, <2>2 DEF AllFees, AllPayouts
<1>9. ASSUME NEW miner \in Miner
      PROVE  /\ FeesTo(history, n + 1, miner)
                   = FeesTo(history, n, miner) + (IF miner = b.miner THEN b.fees ELSE 0)
             /\ PaidTo(history, n + 1, miner) = PaidTo(history, n, miner)
                   + (IF miner = b.miner THEN b.payout + b.fees ELSE 0)
  <2> DEFINE B == Blocks(history, n, miner)
  <2>1. B \subseteq 1..n /\ B \subseteq 1..n + 1
    BY <1>2 DEF Blocks
  <2>2. /\ FeesTo(history, n, miner) = SumFunction([k \in B |-> fees[k]])
        /\ PaidTo(history, n, miner) = SumFunction([k \in B |-> both[k]])
    <3> HIDE DEF B
    <3>1. /\ [k \in B |-> fees[k]] = [k \in B |-> history[k].fees]
          /\ [k \in B |-> both[k]] = [k \in B |-> history[k].payout + history[k].fees]
      BY <1>5, <2>1
    <3> QED
      BY <3>1 DEF B, FeesTo, PaidTo
  <2>3. FeesTo(history, n, miner) \in Nat /\ PaidTo(history, n, miner) \in Nat
    <3>1. \A k \in 1..n : history[k] \in Snapshot
      BY <1>2
    <3> QED
      BY <3>1, BooksType
  <2>4. CASE miner = b.miner
    <3> DEFINE C == B \cup {n + 1}
    <3>1. Blocks(history, n + 1, miner) = C
      BY <1>2, <2>4 DEF Blocks, b
    <3>2. C \subseteq 1..n + 1
      BY <1>2, <2>1
    <3> HIDE DEF C, B
    <3>3. /\ [k \in C |-> fees[k]] = [k \in C |-> history[k].fees]
          /\ [k \in C |-> both[k]] = [k \in C |-> history[k].payout + history[k].fees]
      BY <1>5, <3>2
    <3>4. /\ FeesTo(history, n + 1, miner) = SumFunction([k \in C |-> fees[k]])
          /\ PaidTo(history, n + 1, miner) = SumFunction([k \in C |-> both[k]])
      BY <3>1, <3>3 DEF FeesTo, PaidTo
    <3>5. /\ SumFunction([k \in C |-> fees[k]]) = SumFunction([k \in B |-> fees[k]]) + b.fees
          /\ SumFunction([k \in C |-> both[k]])
                = SumFunction([k \in B |-> both[k]]) + (b.payout + b.fees)
      BY <1>3, <1>4, <1>7, <2>1 DEF C
    <3> QED
      BY <2>2, <2>4, <3>4, <3>5
  <2>5. CASE miner # b.miner
    <3>1. Blocks(history, n + 1, miner) = Blocks(history, n, miner)
      BY <1>2, <2>5 DEF Blocks, b
    <3>2. /\ FeesTo(history, n + 1, miner) = FeesTo(history, n, miner)
          /\ PaidTo(history, n + 1, miner) = PaidTo(history, n, miner)
      BY <3>1 DEF FeesTo, PaidTo
    <3> QED
      BY <2>3, <2>5, <3>2
  <2> QED
    BY <2>4, <2>5
<1> QED
  BY <1>8, <1>9 DEF b

-----------------------------------------------------------------------------
(* The state roots.                                                        *)

\* The code bases compute the same capped reward.
LEMMA RewardsCoincide ==
    ASSUME NEW n \in Nat, NEW treasury \in Nat
    PROVE  LET reward == AtMost(Scheduled(n), treasury)
           IN  /\ reward \in Nat /\ reward <= treasury
               /\ CalculateTreasuryBlockReward(n, treasury) = reward
               /\ AtMost(NethermindReward(n), treasury) = reward
               /\ AtMost(CalculateBlockReward(n, treasury), treasury) = reward
               /\ QuotedReward(n, treasury) = reward
<1>1. Scheduled(n) \in Nat
  BY ScheduledType
<1> QED
  BY <1>1 DEF AtMost, Scheduled, H, CalculateTreasuryBlockReward, NethermindReward,
              CalculateBlockReward, QuotedReward

LEMMA Accounts ==
    /\ IsFiniteSet(Account)
    /\ TREASURY_ADDRESS \in Account
    /\ Miner \subseteq Account
    /\ \A a \in Account : a \in Miner <=> a # TREASURY_ADDRESS
BY TreasuryParameters, FS_AddElement DEF Account

\* Coin that one account gets is coin that all together get.
LEMMA TotalGains ==
    ASSUME NEW state \in [Account -> Int], NEW a \in Account, NEW amount \in Int
    PROVE  SumFunction([state EXCEPT ![a] = @ + amount]) = SumFunction(state) + amount
<1> DEFINE after == [state EXCEPT ![a] = @ + amount]
<1>1. /\ after \in [Account -> Int]
      /\ after[a] = state[a] + amount
      /\ \A b \in Account \ {a} : after[b] = state[b]
      /\ state[a] \in Int
  OBVIOUS
<1> HIDE DEF after
<1>2. SumFunction(after) = SumFunction(state) + after[a] - state[a]
  BY <1>1, Accounts, SumUpdate
<1>3. SumFunction(state) \in Int
  BY Accounts, SumType
<1>4. SumFunction(after) = SumFunction(state) + amount
  BY <1>1, <1>2, <1>3
<1> QED
  BY <1>4 DEF after

Settled(state, miner, reward, fees) ==
    [state EXCEPT ![TREASURY_ADDRESS] = @ - reward, ![miner] = @ + reward + fees]

\* A payout moves coin from the treasury to the coinbase; only the fees are new.
LEMMA TotalOfPayout ==
    ASSUME NEW state \in [Account -> Nat], NEW miner \in Miner,
           NEW reward \in Nat, reward <= state[TREASURY_ADDRESS], NEW fees \in Nat
    PROVE  LET after == Settled(state, miner, reward, fees)
           IN  /\ after \in [Account -> Nat]
               /\ SumFunction(after) = SumFunction(state) + fees
               /\ after[TREASURY_ADDRESS] = state[TREASURY_ADDRESS] - reward
               /\ \A a \in Miner : after[a]
                     = state[a] + (IF a = miner THEN reward + fees ELSE 0)
<1> DEFINE T == TREASURY_ADDRESS
<1> DEFINE minus == 0 - reward
<1> DEFINE plus == reward + fees
<1> DEFINE taken == [state EXCEPT ![T] = @ + minus]
<1> DEFINE given == [taken EXCEPT ![miner] = @ + plus]
<1> DEFINE after == [state EXCEPT ![T] = @ - reward, ![miner] = @ + reward + fees]
<1>0. T \in Account /\ miner \in Account /\ miner # T /\ Miner \subseteq Account /\ T \notin Miner
  BY Accounts
<1>1. state[T] \in Nat /\ state[miner] \in Nat /\ minus \in Int /\ plus \in Int
  BY <1>0
<1>2. after = given
  <2>1. state[T] - reward = state[T] + minus /\ state[miner] + reward + fees = state[miner] + plus
    BY <1>1
  <2>2. after = [a \in Account |-> IF a = miner THEN state[miner] + reward + fees
                                  ELSE IF a = T THEN state[T] - reward ELSE state[a]]
    BY <1>0
  <2> HIDE DEF minus, plus
  <2>3. given = [a \in Account |-> IF a = miner THEN state[miner] + plus
                                  ELSE IF a = T THEN state[T] + minus ELSE state[a]]
    BY <1>0
  <2> HIDE DEF after, given
  <2> QED
    BY <2>1, <2>2, <2>3
<1>3. /\ after \in [Account -> Nat]
      /\ after[T] = state[T] - reward
      /\ \A a \in Miner : after[a] = state[a] + (IF a = miner THEN reward + fees ELSE 0)
  <2>1. state[T] - reward \in Nat
    BY <1>1
  <2> QED
    BY <1>0, <1>1, <2>1
<1>4. SumFunction(state) \in Int /\ state \in [Account -> Int] /\ taken \in [Account -> Int]
  <2>1. state \in [Account -> Int] /\ taken \in [Account -> Int]
    BY <1>0, <1>1
  <2> QED
    BY <2>1, Accounts, SumType
<1> HIDE DEF minus, plus, after
<1>5. SumFunction(taken) = SumFunction(state) + minus
  BY <1>0, <1>1, <1>4, TotalGains
<1> HIDE DEF taken
<1>6. SumFunction(given) = SumFunction(taken) + plus
  BY <1>0, <1>1, <1>4, TotalGains
<1> HIDE DEF given
<1>7. SumFunction(after) = SumFunction(state) + fees
  BY <1>2, <1>4, <1>5, <1>6 DEF minus, plus
<1> QED
  BY <1>3, <1>7 DEF after, Settled

\* What the states after block n are, by the history of the engine: the clients
\* agree up to the fees, and hold at least what they began with and the fees; if
\* no more than that, they hold what the engine does.
RootOK(root, history, n, supply) ==
    /\ root["bsc"] \in [Account -> Nat]
    /\ root["edge"] = root["bsc"]
    /\ root["nethermind"] = [a \in Account |->
          IF a \in Miner THEN root["bsc"][a] - FeesTo(history, n, a) ELSE root["bsc"][a]]
    /\ SumFunction(root["bsc"]) >= supply + AllFees(history, n)
    /\ SumFunction(root["bsc"]) = supply + AllFees(history, n)
          => IsEngine(root["bsc"], history, n, supply)

LEMMA RootGenesis ==
    ASSUME NEW history, NEW supply \in Nat, NEW root,
           \A client \in Client : root[client] = [a \in Account |->
               IF a = TREASURY_ADDRESS THEN supply ELSE 0]
    PROVE  RootOK(root, history, 0, supply)
<1> DEFINE state == [a \in Account |-> IF a = TREASURY_ADDRESS THEN supply ELSE 0]
<1> DEFINE zero == [a \in Account |-> 0]
<1>1. /\ state \in [Account -> Nat] /\ state[TREASURY_ADDRESS] = supply
      /\ \A a \in Account \ {TREASURY_ADDRESS} : state[a] = zero[a]
      /\ zero \in [Account -> Int] /\ state \in [Account -> Int]
      /\ \A a \in Account : zero[a] = 0
      /\ \A a \in Miner : state[a] = 0
  BY Accounts
<1>2. root["bsc"] = state /\ root["edge"] = state /\ root["nethermind"] = state
  BY DEF Client
<1> HIDE DEF state, zero
<1>3. SumFunction(zero) = 0
  BY <1>1, Accounts, SumZero
<1>4. SumFunction(state) = SumFunction(zero) + state[TREASURY_ADDRESS] - zero[TREASURY_ADDRESS]
  BY <1>1, Accounts, SumUpdate
<1>5. SumFunction(state) = supply
  BY <1>1, <1>3, <1>4, Accounts
<1>6. /\ AllFees(history, 0) = 0 /\ AllPayouts(history, 0) = 0
      /\ \A a \in Miner : FeesTo(history, 0, a) = 0 /\ PaidTo(history, 0, a) = 0
  BY BooksGenesis
<1>7. state = [a \in Account |->
         IF a \in Miner THEN state[a] - FeesTo(history, 0, a) ELSE state[a]]
  BY <1>1, <1>6, Accounts
<1>8. IsEngine(state, history, 0, supply)
  BY <1>1, <1>6 DEF IsEngine
<1> QED
  BY <1>1, <1>2, <1>5, <1>6, <1>7, <1>8 DEF RootOK

\* A root depends on the first n blocks alone.
LEMMA RootLocal ==
    ASSUME NEW n \in Nat, NEW history, NEW other, \A k \in 1..n : other[k] = history[k],
           NEW root, NEW supply, RootOK(root, history, n, supply)
    PROVE  RootOK(root, other, n, supply)
<1>1. /\ AllFees(other, n) = AllFees(history, n)
      /\ AllPayouts(other, n) = AllPayouts(history, n)
      /\ \A a \in Miner : /\ FeesTo(other, n, a) = FeesTo(history, n, a)
                          /\ PaidTo(other, n, a) = PaidTo(history, n, a)
  BY BooksLocal
<1>2. [a \in Account |->
          IF a \in Miner THEN root["bsc"][a] - FeesTo(other, n, a) ELSE root["bsc"][a]]
      = [a \in Account |->
          IF a \in Miner THEN root["bsc"][a] - FeesTo(history, n, a) ELSE root["bsc"][a]]
  BY <1>1
<1>3. IsEngine(root["bsc"], history, n, supply) => IsEngine(root["bsc"], other, n, supply)
  BY <1>1 DEF IsEngine
<1> QED
  BY <1>1, <1>2, <1>3 DEF RootOK

\* Finalising a block on the states of its parent.
LEMMA RootStep ==
    ASSUME NEW n \in Nat, NEW history, \A k \in 1..n + 1 : history[k] \in Snapshot,
           NEW root, NEW supply \in Nat, RootOK(root, history, n, supply),
           supply - AllPayouts(history, n) \in Nat,
           history[n + 1].payout
              = AtMost(Scheduled(n + 1), supply - AllPayouts(history, n)),
           NEW donation \in Nat, NEW after,
           after["bsc"] = FinalizePISOTreasuryMiningBlock(Donated(root["bsc"], donation),
                              n + 1, history[n + 1].miner, history[n + 1].fees),
           after["edge"] = ProcessPolygonEdgeTreasuryPayout(Donated(root["edge"], donation),
                              n + 1, history[n + 1].miner, history[n + 1].fees),
           after["nethermind"] = ProcessBlockReward(Donated(root["nethermind"], donation),
                              n + 1, history[n + 1].miner)
    PROVE  /\ RootOK(after, history, n + 1, supply)
           /\ LET treasury == root["bsc"][TREASURY_ADDRESS] + donation
              IN  after["bsc"][TREASURY_ADDRESS] = treasury - QuotedReward(n + 1, treasury)
<1> DEFINE T == TREASURY_ADDRESS
<1> DEFINE miner == history[n + 1].miner
<1> DEFINE fees == history[n + 1].fees
<1> DEFINE payout == history[n + 1].payout
<1> DEFINE before == root["bsc"]
<1> DEFINE given == Donated(before, donation)
<1> DEFINE t == given[T]
<1> DEFINE reward == AtMost(Scheduled(n + 1), t)
<1> DEFINE paid == after["bsc"]
<1>1. /\ miner \in Miner /\ fees \in Nat /\ payout \in Nat
      /\ T \in Account /\ T \notin Miner /\ Miner \subseteq Account
  <2>1. history[n + 1] \in Snapshot
    OBVIOUS
  <2> QED
    BY <2>1, Accounts DEF Snapshot
<1>2. /\ before \in [Account -> Nat]
      /\ root["edge"] = before
      /\ root["nethermind"] = [a \in Account |->
            IF a \in Miner THEN before[a] - FeesTo(history, n, a) ELSE before[a]]
      /\ SumFunction(before) >= supply + AllFees(history, n)
      /\ SumFunction(before) = supply + AllFees(history, n)
            => IsEngine(before, history, n, supply)
  BY DEF RootOK
<1>3. /\ given \in [Account -> Nat]
      /\ t = before[T] + donation /\ t \in Nat
      /\ \A a \in Miner : given[a] = before[a]
      /\ SumFunction(given) = SumFunction(before) + donation
  <2>1. before \in [Account -> Int]
    BY <1>2
  <2>2. SumFunction([before EXCEPT ![T] = @ + donation]) = SumFunction(before) + donation
    BY <1>1, <2>1, TotalGains
  <2>3. given = [before EXCEPT ![T] = @ + donation]
    BY DEF Donated
  <2> HIDE DEF given
  <2> QED
    BY <1>1, <1>2, <2>2, <2>3
<1>4. /\ reward \in Nat /\ reward <= t
      /\ CalculateTreasuryBlockReward(n + 1, t) = reward
      /\ AtMost(NethermindReward(n + 1), t) = reward
      /\ QuotedReward(n + 1, t) = reward
  <2> DEFINE m == n + 1
  <2>1. m \in Nat /\ t \in Nat
    BY <1>3
  <2> HIDE DEF t, m
  <2>2. LET r == AtMost(Scheduled(m), t)
        IN  /\ r \in Nat /\ r <= t
            /\ CalculateTreasuryBlockReward(m, t) = r
            /\ AtMost(NethermindReward(m), t) = r
            /\ QuotedReward(m, t) = r
    BY <2>1, RewardsCoincide
  <2> QED
    BY <2>2 DEF m
<1>5. /\ paid = [given EXCEPT ![T] = @ - reward, ![miner] = @ + reward + fees]
      /\ after["edge"] = paid
  <2>1. paid = FinalizePISOTreasuryMiningBlock(given, n + 1, miner, fees)
    OBVIOUS
  <2>2. after["edge"] = ProcessPolygonEdgeTreasuryPayout(given, n + 1, miner, fees)
    BY <1>2
  <2> HIDE DEF paid, given, reward
  <2> QED
    BY <1>4, <2>1, <2>2 DEF FinalizePISOTreasuryMiningBlock, ProcessPolygonEdgeTreasuryPayout
<1>6. /\ paid \in [Account -> Nat]
      /\ SumFunction(paid) = SumFunction(given) + fees
      /\ paid[T] = t - reward
      /\ \A a \in Miner : paid[a] = given[a] + (IF a = miner THEN reward + fees ELSE 0)
  <2>1. /\ given \in [Account -> Nat] /\ miner \in Miner /\ fees \in Nat
        /\ reward \in Nat /\ reward <= given[TREASURY_ADDRESS]
    BY <1>1, <1>3, <1>4
  <2>2. paid = Settled(given, miner, reward, fees)
    BY <1>5 DEF Settled
  <2> HIDE DEF paid, given, reward, miner, fees
  <2>3. LET a == Settled(given, miner, reward, fees)
        IN  /\ a \in [Account -> Nat]
            /\ SumFunction(a) = SumFunction(given) + fees
            /\ a[TREASURY_ADDRESS] = given[TREASURY_ADDRESS] - reward
            /\ \A b \in Miner : a[b] = given[b] + (IF b = miner THEN reward + fees ELSE 0)
    BY <2>1, TotalOfPayout
  <2> QED
    BY <2>2, <2>3
<1>7. /\ AllFees(history, n) \in Nat
      /\ AllPayouts(history, n) \in Nat
      /\ AllFees(history, n + 1) = AllFees(history, n) + fees
      /\ AllPayouts(history, n + 1) = AllPayouts(history, n) + payout
      /\ \A a \in Miner :
            /\ FeesTo(history, n, a) \in Nat /\ PaidTo(history, n, a) \in Nat
            /\ FeesTo(history, n + 1, a)
                  = FeesTo(history, n, a) + (IF a = miner THEN fees ELSE 0)
            /\ PaidTo(history, n + 1, a)
                  = PaidTo(history, n, a) + (IF a = miner THEN payout + fees ELSE 0)
  <2>1. \A k \in 1..n : history[k] \in Snapshot
    OBVIOUS
  <2>2. /\ AllFees(history, n) \in Nat /\ AllPayouts(history, n) \in Nat
        /\ \A a \in Miner : FeesTo(history, n, a) \in Nat /\ PaidTo(history, n, a) \in Nat
    BY <2>1, BooksType
  <2> QED
    BY <2>2, BooksStep
<1>8. after["nethermind"] = [a \in Account |->
         IF a \in Miner THEN paid[a] - FeesTo(history, n + 1, a) ELSE paid[a]]
  <2> DEFINE other == root["nethermind"]
  <2> DEFINE gift == Donated(other, donation)
  <2>1. other = [a \in Account |->
            IF a \in Miner THEN before[a] - FeesTo(history, n, a) ELSE before[a]]
    BY <1>2
  <2>2. gift = [other EXCEPT ![T] = @ + donation]
    BY DEF Donated
  <2> HIDE DEF other, before, gift, given, paid, reward, miner, fees, payout, t
  <2>3. /\ DOMAIN gift = Account
        /\ gift[T] = t
        /\ \A a \in Miner : gift[a] = given[a] - FeesTo(history, n, a)
    BY <1>1, <1>3, <2>1, <2>2
  <2>4. gift = [a \in Account |-> gift[a]]
    BY <2>1, <2>2
  <2>5. after["nethermind"] = [gift EXCEPT ![T] = @ - reward, ![miner] = @ + reward]
    <3>1. after["nethermind"] = ProcessBlockReward(gift, n + 1, miner)
      BY DEF gift, other, miner
    <3> QED
      BY <1>4, <2>3, <3>1 DEF ProcessBlockReward
  <2>6. /\ DOMAIN after["nethermind"] = Account
        /\ after["nethermind"] = [a \in Account |-> after["nethermind"][a]]
    BY <2>3, <2>4, <2>5
  <2>7. after["nethermind"][T] = paid[T]
    BY <1>1, <1>6, <2>3, <2>5
  <2>8. ASSUME NEW a \in Miner
        PROVE  after["nethermind"][a] = paid[a] - FeesTo(history, n + 1, a)
    <3>1. /\ given[a] \in Nat /\ FeesTo(history, n, a) \in Nat
          /\ gift[a] = given[a] - FeesTo(history, n, a) /\ a \in Account /\ a # T
      BY <1>1, <1>3, <1>7, <2>3, <2>8
    <3>2. CASE a = miner
      <4>1. after["nethermind"][a] = gift[a] + reward
        BY <1>1, <2>3, <2>5, <3>1, <3>2
      <4>2. paid[a] = given[a] + (reward + fees)
        BY <1>6, <2>8, <3>2
      <4>3. FeesTo(history, n + 1, a) = FeesTo(history, n, a) + fees
        BY <1>7, <2>8, <3>2
      <4> QED
        BY <1>1, <1>4, <3>1, <4>1, <4>2, <4>3
    <3>3. CASE a # miner
      <4>1. after["nethermind"][a] = gift[a]
        BY <1>1, <2>3, <2>5, <3>1, <3>3
      <4>2. paid[a] = given[a]
        BY <1>6, <2>8, <3>1, <3>3
      <4>3. FeesTo(history, n + 1, a) = FeesTo(history, n, a)
        BY <1>7, <2>8, <3>1, <3>3
      <4> QED
        BY <3>1, <4>1, <4>2, <4>3
    <3> QED
      BY <3>2, <3>3
  <2>9. \A a \in Account : after["nethermind"][a]
           = IF a \in Miner THEN paid[a] - FeesTo(history, n + 1, a) ELSE paid[a]
    BY <2>7, <2>8, Accounts
  <2> QED
    BY <2>6, <2>9
<1>9. SumFunction(before) \in Int
  <2> HIDE DEF before
  <2> QED
    BY <1>2, Accounts, SumType
<1>10. SumFunction(paid) >= supply + AllFees(history, n + 1)
  <2> HIDE DEF paid, given, before, fees
  <2> QED
    BY <1>1, <1>2, <1>3, <1>6, <1>7, <1>9
<1>11. ASSUME SumFunction(paid) = supply + AllFees(history, n + 1)
       PROVE  IsEngine(paid, history, n + 1, supply)
  <2> HIDE DEF paid, given, before, fees
  <2>1. donation = 0 /\ SumFunction(before) = supply + AllFees(history, n)
    <3> DEFINE total == SumFunction(before)
    <3> DEFINE old == AllFees(history, n)
    <3>1. /\ total \in Int /\ old \in Nat /\ fees \in Nat
          /\ total >= supply + old
          /\ total + donation + fees = supply + (old + fees)
      BY <1>1, <1>2, <1>3, <1>6, <1>7, <1>9, <1>11
    <3> HIDE DEF total, old
    <3>2. donation = 0 /\ total = supply + old
      BY <3>1
    <3> QED
      BY <3>2 DEF total, old
  <2>2. /\ before[T] = supply - AllPayouts(history, n)
        /\ \A a \in Miner : before[a] = PaidTo(history, n, a)
    BY <1>2, <2>1 DEF IsEngine
  <2>3. t = supply - AllPayouts(history, n)
    BY <1>2, <1>3, <2>1, <2>2
  <2>4. payout = reward
    BY <2>3
  <2> HIDE DEF payout, reward, t
  <2>5. paid[T] = supply - AllPayouts(history, n + 1)
    BY <1>4, <1>6, <1>7, <2>3, <2>4
  <2>6. ASSUME NEW a \in Miner PROVE paid[a] = PaidTo(history, n + 1, a)
    <3>1. paid[a] = before[a] + (IF a = miner THEN reward + fees ELSE 0)
      BY <1>3, <1>6, <2>6
    <3> QED
      BY <1>7, <2>2, <2>4, <2>6, <3>1
  <2> QED
    BY <2>5, <2>6 DEF IsEngine
<1>12. RootOK(after, history, n + 1, supply)
  BY <1>5, <1>6, <1>8, <1>10, <1>11 DEF RootOK
<1> QED
  BY <1>3, <1>4, <1>6, <1>12

-----------------------------------------------------------------------------
(* The engine and the roots together.                                      *)

Root == [Client -> [Account -> Int]]

\* Every root, not only that of the head: orphaning returns to an old one.
RootsInv ==
    /\ roots \in Seq(Root)
    /\ Len(roots) = height + 1
    /\ \A n \in 0..height : RootOK(roots[n + 1], block_history, n, treasury_balance_wei)

BooksInv ==
    /\ total_distributed_wei = AllPayouts(block_history, height)
    /\ IsEngine(balances, block_history, height, treasury_balance_wei)

ChainInv == BudgetInv /\ BooksInv /\ RootsInv

LEMMA RootType ==
    ASSUME NEW n \in Nat, NEW history, \A k \in 1..n : history[k] \in Snapshot,
           NEW root, NEW supply, RootOK(root, history, n, supply), DOMAIN root = Client,
           root = [client \in Client |-> root[client]]
    PROVE  root \in Root
<1>1. \A a \in Miner : FeesTo(history, n, a) \in Nat
  BY BooksType
<1>2. root["bsc"] \in [Account -> Int] /\ root["edge"] \in [Account -> Int]
  BY DEF RootOK
<1>3. root["nethermind"] \in [Account -> Int]
  <2>1. root["nethermind"] = [a \in Account |->
          IF a \in Miner THEN root["bsc"][a] - FeesTo(history, n, a) ELSE root["bsc"][a]]
    BY DEF RootOK
  <2> DEFINE r == root["nethermind"]
  <2> DEFINE b == root["bsc"]
  <2>2. b \in [Account -> Int]
    BY <1>2
  <2> HIDE DEF b
  <2>3. [a \in Account |-> IF a \in Miner THEN b[a] - FeesTo(history, n, a) ELSE b[a]]
           \in [Account -> Int]
    BY <1>1, <2>2
  <2> QED
    BY <2>1, <2>3 DEF b
<1> QED
  BY <1>2, <1>3 DEF Client, Root

LEMMA ChainInvInit == ChainInit => ChainInv
<1> SUFFICES ASSUME ChainInit PROVE ChainInv
  OBVIOUS
<1> DEFINE supply == treasury_balance_wei
<1>1. /\ height = 0 /\ supply \in Nat
      /\ balances = [a \in Account |-> IF a = TREASURY_ADDRESS THEN supply ELSE 0]
      /\ total_distributed_wei = 0
      /\ roots = <<[client \in Client |-> balances]>>
  BY TreasuryParameters DEF ChainInit, EngineInit
<1>2. BudgetInv
  BY BudgetInvInit
<1>3. /\ AllPayouts(block_history, 0) = 0
      /\ \A a \in Miner : PaidTo(block_history, 0, a) = 0
  BY BooksGenesis
<1>4. BooksInv
  BY <1>1, <1>3, Accounts DEF BooksInv, IsEngine
<1> DEFINE root == [client \in Client |-> balances]
<1>5. /\ DOMAIN root = Client /\ root = [client \in Client |-> root[client]]
      /\ \A client \in Client : root[client] = balances
  OBVIOUS
<1> HIDE DEF root, supply
<1>6. RootOK(root, block_history, 0, supply)
  BY <1>1, <1>5, RootGenesis
<1>7. root \in Root
  <2>1. \A k \in 1..0 : block_history[k] \in Snapshot
    OBVIOUS
  <2> QED
    BY <1>5, <1>6, <2>1, RootType
<1>8. RootsInv
  <2>1. roots = <<root>>
    BY <1>1 DEF root
  <2>2. roots \in Seq(Root) /\ Len(roots) = 1 /\ roots[1] = root
    BY <1>7, <2>1
  <2>3. Len(roots) = height + 1 /\ \A n \in 0..height : n = 0
    BY <1>1, <2>2
  <2>4. RootOK(roots[0 + 1], block_history, 0, supply)
    BY <1>6, <2>2
  <2> HIDE DEF root
  <2> QED
    BY <2>2, <2>3, <2>4 DEF RootsInv, supply
<1> QED
  BY <1>2, <1>4, <1>8 DEF ChainInv

\* What a block makes of a consistent chain, and what it pays out of the treasury.
LEMMA ChainInvExtend ==
    ASSUME ChainInv, NEW miner \in Miner, NEW tx_fees \in Fees, NEW donation \in Donations,
           ExtendChain(miner, tx_fees, donation)
    PROVE  /\ ChainInv'
           /\ LET treasury == HeadState["bsc"][TREASURY_ADDRESS] + donation
              IN  roots'[height' + 1]["bsc"][TREASURY_ADDRESS]
                     = treasury - QuotedReward(height', treasury)
<1> DEFINE n == height + 1
<1> DEFINE payout == Payout(n)
<1> DEFINE supply == treasury_balance_wei
<1> DEFINE T == TREASURY_ADDRESS
<1> DEFINE root == roots[n]
<1> DEFINE after == roots'[n + 1]
<1> DEFINE given == [client \in Client |-> Donated(HeadState[client], donation)]
<1> DEFINE finalised == [client \in Client |->
            CASE client = "bsc" ->
                   FinalizePISOTreasuryMiningBlock(given[client], n, miner, tx_fees)
              [] client = "edge" ->
                   ProcessPolygonEdgeTreasuryPayout(given[client], n, miner, tx_fees)
              [] client = "nethermind" ->
                   ProcessBlockReward(given[client], n, miner)]
<1>1. /\ height \in Nat /\ n \in Nat /\ n >= 1 /\ supply \in Nat
      /\ balances \in [Account -> Int]
      /\ balances[T] \in Nat
      /\ DOMAIN block_history = 1..height
      /\ roots \in Seq(Root) /\ Len(roots) = n
  BY DEF ChainInv, BudgetInv, ChainTypeOK, RootsInv
<1>2. miner \in Account /\ miner # T /\ T \in Account /\ tx_fees \in Nat /\ donation \in Nat
  BY Accounts, TreasuryParameters, ChainParameters
<1>3. /\ height' = n /\ supply' = supply
      /\ balances' = [balances EXCEPT ![T] = @ - payout, ![miner] = @ + payout + tx_fees]
      /\ total_distributed_wei' = total_distributed_wei + payout
      /\ block_history' = [k \in DOMAIN block_history \cup {n} |->
            IF k = n
            THEN [miner |-> miner, payout |-> payout, fees |-> tx_fees,
                  remaining |-> balances[TREASURY_ADDRESS] - payout,
                  distributed |-> total_distributed_wei + payout]
            ELSE block_history[k]]
      /\ roots' = Append(roots, finalised)
  BY DEF ExtendChain, FinalizeBlockReward
<1>4. BudgetInv'
  BY BudgetInvExtend DEF ChainInv
<1>5. \A k \in 1..n : block_history'[k] \in Snapshot
  BY <1>3, <1>4 DEF BudgetInv, ChainTypeOK
<1>6. /\ \A k \in 1..height : block_history'[k] = block_history[k]
      /\ block_history'[n].miner = miner
      /\ block_history'[n].payout = payout
      /\ block_history'[n].fees = tx_fees
  <2> HIDE DEF payout
  <2> QED
    BY <1>1, <1>3
<1>7. after = finalised /\ DOMAIN after = Client /\ after = [client \in Client |-> after[client]]
  <2>1. after = finalised
    <3> HIDE DEF finalised
    <3> QED
      BY <1>1, <1>3
  <2> QED
    BY <2>1
<1>8. /\ after["bsc"] = FinalizePISOTreasuryMiningBlock(Donated(root["bsc"], donation),
                            n, miner, tx_fees)
      /\ after["edge"] = ProcessPolygonEdgeTreasuryPayout(Donated(root["edge"], donation),
                            n, miner, tx_fees)
      /\ after["nethermind"] = ProcessBlockReward(Donated(root["nethermind"], donation),
                            n, miner)
  <2>1. "bsc" \in Client /\ "edge" \in Client /\ "nethermind" \in Client
    BY DEF Client
  <2>2. \A client \in Client : given[client] = Donated(root[client], donation)
    BY DEF HeadState
  <2> HIDE DEF given, root, n, after
  <2> QED
    BY <1>7, <2>1, <2>2
<1>9. RootOK(root, block_history', height, supply)
  <2>1. RootOK(root, block_history, height, supply)
    BY <1>1 DEF ChainInv, RootsInv
  <2> HIDE DEF root, supply
  <2> QED
    BY <1>1, <1>6, <2>1, RootLocal
<1>10. /\ AllPayouts(block_history', height) = AllPayouts(block_history, height)
       /\ \A a \in Miner : PaidTo(block_history', height, a) = PaidTo(block_history, height, a)
  <2>1. height \in Nat /\ \A k \in 1..height : block_history'[k] = block_history[k]
    BY <1>1, <1>6
  <2> QED
    BY <2>1, BooksLocal
<1>11. balances[T] = supply - AllPayouts(block_history', height)
  BY <1>10 DEF ChainInv, BooksInv, IsEngine
<1>12. payout = AtMost(Scheduled(n), balances[T]) /\ payout \in Nat
  <2> DEFINE t == balances[T]
  <2>1. payout = AtMost(CalculateBlockReward(n, t), t)
    BY DEF Payout
  <2>2. t \in Nat /\ n \in Nat
    BY <1>1
  <2> HIDE DEF t, n, payout
  <2>3. LET r == AtMost(Scheduled(n), t)
        IN  r \in Nat /\ AtMost(CalculateBlockReward(n, t), t) = r
    BY <2>2, RewardsCoincide
  <2> QED
    BY <2>1, <2>3 DEF t
<1> HIDE DEF payout, given, finalised, root, after, supply
<1>13. /\ RootOK(after, block_history', n, supply)
       /\ LET treasury == root["bsc"][T] + donation
          IN  after["bsc"][T] = treasury - QuotedReward(n, treasury)
  <2> DEFINE history == block_history'
  <2> DEFINE b == history[height + 1]
  <2>1. /\ height \in Nat /\ supply \in Nat /\ donation \in Nat
        /\ \A k \in 1..height + 1 : history[k] \in Snapshot
    BY <1>1, <1>2, <1>5
  <2>2. /\ supply - AllPayouts(history, height) \in Nat
        /\ b.payout = AtMost(Scheduled(height + 1), supply - AllPayouts(history, height))
    BY <1>1, <1>6, <1>11, <1>12
  <2>3. /\ after["bsc"] = FinalizePISOTreasuryMiningBlock(Donated(root["bsc"], donation),
                              height + 1, b.miner, b.fees)
        /\ after["edge"] = ProcessPolygonEdgeTreasuryPayout(Donated(root["edge"], donation),
                              height + 1, b.miner, b.fees)
        /\ after["nethermind"] = ProcessBlockReward(Donated(root["nethermind"], donation),
                              height + 1, b.miner)
    BY <1>6, <1>8
  <2> HIDE DEF history
  <2>4. RootOK(root, history, height, supply)
    BY <1>9 DEF history
  <2>5. /\ RootOK(after, history, height + 1, supply)
        /\ LET treasury == root["bsc"][TREASURY_ADDRESS] + donation
           IN  after["bsc"][TREASURY_ADDRESS] = treasury - QuotedReward(height + 1, treasury)
    BY <2>1, <2>2, <2>3, <2>4, RootStep
  <2> QED
    BY <2>5 DEF history
<1>14. RootsInv'
  <2>1. after \in Root
    <3> HIDE DEF n
    <3> QED
      BY <1>1, <1>5, <1>7, <1>13, RootType
  <2>2. /\ roots' \in Seq(Root) /\ Len(roots') = height' + 1
        /\ \A k \in 1..n : roots'[k] = roots[k]
    BY <1>1, <1>3, <1>7, <2>1
  <2>3. ASSUME NEW k \in 0..height' PROVE RootOK(roots'[k + 1], block_history', k, supply)
    <3>1. CASE k = n
      BY <1>13, <3>1 DEF after
    <3>2. CASE k # n
      <4>1. k \in 0..height /\ k + 1 \in 1..n /\ k \in Nat
        BY <1>1, <1>3, <2>3, <3>2
      <4>2. RootOK(roots[k + 1], block_history, k, supply)
        BY <4>1 DEF ChainInv, RootsInv, supply
      <4>3. \A i \in 1..k : block_history'[i] = block_history[i]
        BY <1>1, <1>6, <4>1
      <4>4. RootOK(roots[k + 1], block_history', k, supply)
        BY <4>1, <4>2, <4>3, RootLocal
      <4> QED
        BY <2>2, <4>1, <4>4
    <3> QED
      BY <3>1, <3>2
  <2> QED
    BY <1>3, <2>2, <2>3 DEF RootsInv, supply
<1>15. BooksInv'
  <2>1. /\ AllPayouts(block_history', n) = AllPayouts(block_history', height) + payout
        /\ \A a \in Miner : PaidTo(block_history', n, a)
              = PaidTo(block_history', height, a) + (IF a = miner THEN payout + tx_fees ELSE 0)
    BY <1>1, <1>5, <1>6, BooksStep
  <2>2. AllPayouts(block_history', height) \in Nat
        /\ \A a \in Miner : PaidTo(block_history', height, a) \in Nat
    <3>1. \A k \in 1..height : block_history'[k] \in Snapshot
      BY <1>1, <1>5
    <3> QED
      BY <1>1, <3>1, BooksType
  <2>3. /\ total_distributed_wei = AllPayouts(block_history', height)
        /\ \A a \in Miner : balances[a] = PaidTo(block_history', height, a)
    BY <1>10 DEF ChainInv, BooksInv, IsEngine
  <2>4. total_distributed_wei' = AllPayouts(block_history', n)
    BY <1>3, <2>1, <2>3
  <2>5. balances'[T] = supply - AllPayouts(block_history', n)
    <3>1. balances'[T] = balances[T] - payout
      BY <1>1, <1>2, <1>3
    <3> QED
      BY <1>1, <1>11, <1>12, <2>1, <2>2, <3>1
  <2>6. ASSUME NEW a \in Miner PROVE balances'[a] = PaidTo(block_history', n, a)
    <3>1. a \in Account /\ a # T
      BY Accounts
    <3>2. a = miner => balances'[a] = balances[a] + payout + tx_fees
      BY <1>1, <1>2, <1>3, <3>1
    <3>3. a # miner => balances'[a] = balances[a]
      BY <1>1, <1>2, <1>3, <3>1
    <3> QED
      BY <1>2, <1>12, <2>1, <2>2, <2>3, <3>2, <3>3
  <2> QED
    BY <1>3, <2>4, <2>5, <2>6 DEF BooksInv, IsEngine, supply
<1>16. LET treasury == HeadState["bsc"][TREASURY_ADDRESS] + donation
       IN  roots'[height' + 1]["bsc"][TREASURY_ADDRESS]
              = treasury - QuotedReward(height', treasury)
  BY <1>3, <1>13 DEF HeadState, root, after
<1> QED
  BY <1>4, <1>14, <1>15, <1>16 DEF ChainInv

\* Orphaning the head leaves the books and roots of its parent.
LEMMA ChainInvOrphan == ASSUME ChainInv, OrphanHead PROVE ChainInv' /\ height' # height + 1
<1> DEFINE n == height - 1
<1> DEFINE snapshot == block_history[height]
<1> DEFINE supply == treasury_balance_wei
<1> DEFINE T == TREASURY_ADDRESS
<1>1. /\ height \in Nat /\ height >= 1 /\ n \in Nat /\ height = n + 1 /\ supply \in Nat
      /\ balances \in [Account -> Int]
      /\ DOMAIN block_history = 1..height
      /\ \A k \in 1..n + 1 : block_history[k] \in Snapshot
      /\ roots \in Seq(Root) /\ Len(roots) = height + 1
  BY DEF OrphanHead, ChainInv, BudgetInv, ChainTypeOK, RootsInv
<1>2. /\ snapshot.miner \in Miner /\ snapshot.miner \in Account /\ snapshot.miner # T
      /\ snapshot.payout \in Nat /\ snapshot.fees \in Nat
      /\ T \in Account
  BY <1>1, Accounts DEF Snapshot
<1>3. /\ height' = n /\ supply' = supply
      /\ balances' = [balances EXCEPT
            ![T] = @ + snapshot.payout,
            ![snapshot.miner] = @ - (snapshot.payout + snapshot.fees)]
      /\ total_distributed_wei' = total_distributed_wei - snapshot.payout
      /\ block_history' = [k \in DOMAIN block_history \ {height} |-> block_history[k]]
      /\ roots' = SubSeq(roots, 1, height)
  BY DEF OrphanHead, RollbackBlockReorg
<1>4. BudgetInv'
  BY BudgetInvOrphan DEF ChainInv
<1>5. \A k \in 1..n : block_history'[k] = block_history[k]
  BY <1>1, <1>3
<1>6. /\ roots' \in Seq(Root) /\ Len(roots') = height' + 1
      /\ \A k \in 1..height : roots'[k] = roots[k]
  BY <1>1, <1>3
<1>7. RootsInv'
  <2>1. ASSUME NEW k \in 0..height' PROVE RootOK(roots'[k + 1], block_history', k, supply)
    <3>1. k \in 0..height /\ k + 1 \in 1..height /\ k \in Nat /\ \A i \in 1..k : i \in 1..n
      BY <1>1, <1>3, <2>1
    <3>2. RootOK(roots[k + 1], block_history, k, supply)
      BY <3>1 DEF ChainInv, RootsInv
    <3>3. \A i \in 1..k : block_history'[i] = block_history[i]
      BY <1>5, <3>1
    <3> HIDE DEF supply
    <3>4. RootOK(roots[k + 1], block_history', k, supply)
      BY <3>1, <3>2, <3>3, RootLocal
    <3> QED
      BY <1>6, <3>1, <3>4
  <2> QED
    BY <1>3, <1>6, <2>1 DEF RootsInv
<1>8. /\ AllPayouts(block_history', n) = AllPayouts(block_history, n)
      /\ \A a \in Miner : PaidTo(block_history', n, a) = PaidTo(block_history, n, a)
  BY <1>1, <1>5, BooksLocal
<1>9. /\ AllPayouts(block_history, height) = AllPayouts(block_history, n) + snapshot.payout
      /\ \A a \in Miner : PaidTo(block_history, height, a) = PaidTo(block_history, n, a)
            + (IF a = snapshot.miner THEN snapshot.payout + snapshot.fees ELSE 0)
  <2>1. LET b == block_history[n + 1]
        IN  /\ AllPayouts(block_history, n + 1) = AllPayouts(block_history, n) + b.payout
            /\ \A a \in Miner : PaidTo(block_history, n + 1, a) = PaidTo(block_history, n, a)
                  + (IF a = b.miner THEN b.payout + b.fees ELSE 0)
    <3> HIDE DEF n
    <3>1. n \in Nat /\ \A k \in 1..n + 1 : block_history[k] \in Snapshot
      BY <1>1
    <3>2. LET b == block_history[n + 1]
          IN  /\ AllPayouts(block_history, n + 1) = AllPayouts(block_history, n) + b.payout
              /\ \A a \in Miner :
                    PaidTo(block_history, n + 1, a) = PaidTo(block_history, n, a)
                       + (IF a = b.miner THEN b.payout + b.fees ELSE 0)
      BY ONLY <3>1, BooksStep
    <3> QED
      BY <3>2
  <2> QED
    BY <1>1, <2>1
<1>10. AllPayouts(block_history, n) \in Nat
       /\ \A a \in Miner : PaidTo(block_history, n, a) \in Nat
  <2>1. \A k \in 1..n : block_history[k] \in Snapshot
    BY <1>1
  <2> QED
    BY <1>1, <2>1, BooksType
<1>11. /\ total_distributed_wei = AllPayouts(block_history, height)
       /\ balances[T] = supply - AllPayouts(block_history, height)
       /\ \A a \in Miner : balances[a] = PaidTo(block_history, height, a)
  BY DEF ChainInv, BooksInv, IsEngine
<1>12. BooksInv'
  <2> HIDE DEF snapshot, n, supply
  <2>1. total_distributed_wei' = AllPayouts(block_history', n)
    BY <1>2, <1>3, <1>8, <1>9, <1>10, <1>11
  <2>2. balances'[T] = supply - AllPayouts(block_history', n)
    <3>1. balances'[T] = balances[T] + snapshot.payout
      BY <1>1, <1>2, <1>3
    <3> QED
      BY <1>1, <1>2, <1>8, <1>9, <1>10, <1>11, <3>1
  <2>3. ASSUME NEW a \in Miner PROVE balances'[a] = PaidTo(block_history', n, a)
    <3>1. a \in Account /\ a # T
      BY Accounts
    <3>2. a = snapshot.miner => balances'[a] = balances[a] - (snapshot.payout + snapshot.fees)
      BY <1>1, <1>2, <1>3, <3>1
    <3>3. a # snapshot.miner => balances'[a] = balances[a]
      BY <1>1, <1>2, <1>3, <3>1
    <3> QED
      BY <1>2, <1>8, <1>9, <1>10, <1>11, <3>2, <3>3
  <2> QED
    BY <1>3, <2>1, <2>2, <2>3 DEF BooksInv, IsEngine, supply
<1> QED
  BY <1>1, <1>3, <1>4, <1>7, <1>12 DEF ChainInv

LEMMA ChainInvStep == ChainInv /\ [ChainNext]_chainVars => ChainInv'
<1> SUFFICES ASSUME ChainInv, [ChainNext]_chainVars PROVE ChainInv'
  OBVIOUS
<1>1. ASSUME NEW miner \in Miner, NEW tx_fees \in Fees, NEW donation \in Donations,
             ExtendChain(miner, tx_fees, donation)
      PROVE  ChainInv'
  BY <1>1, ChainInvExtend
<1>2. CASE OrphanHead
  BY <1>2, ChainInvOrphan
<1>3. CASE UNCHANGED chainVars
  <2>1. BudgetInv'
    BY <1>3, BudgetInvStep DEF ChainInv
  <2> QED
    BY <1>3, <2>1 DEF chainVars, engineVars, ChainInv, BooksInv, RootsInv, IsEngine
<1> QED
  BY <1>1, <1>2, <1>3 DEF ChainNext

LEMMA ChainInvariant == ChainSpec => []ChainInv
<1>1. ChainInit => ChainInv
  BY ChainInvInit
<1>2. ChainInv /\ [ChainNext]_chainVars => ChainInv'
  BY ChainInvStep
<1> QED
  BY <1>1, <1>2, PTL DEF ChainSpec

\* The sums the properties speak of are the books up to the head.
LEMMA BooksAtHead ==
    ASSUME ChainInv
    PROVE  /\ \A miner \in Miner : FeesOnChain(miner) = FeesTo(block_history, height, miner)
           /\ \A miner \in Miner : PaidByHistory(miner) = PaidTo(block_history, height, miner)
           /\ SumFunction([n \in DOMAIN block_history |-> block_history[n].fees])
                 = AllFees(block_history, height)
           /\ SumFunction([n \in DOMAIN block_history |-> block_history[n].payout])
                 = AllPayouts(block_history, height)
<1>1. DOMAIN block_history = 1..height
  BY DEF ChainInv, BudgetInv, ChainTypeOK
<1>2. \A miner \in Miner : BlocksOf(miner) = Blocks(block_history, height, miner)
  BY <1>1 DEF BlocksOf, Blocks
<1> QED
  BY <1>1, <1>2 DEF FeesOnChain, PaidByHistory, FeesTo, PaidTo, AllFees, AllPayouts

\* After any extensions and reorganisations the engine's books are those of the
\* canonical blocks, and its balances those of the clients at the head when no
\* transaction paid the treasury: undoing a block by its snapshot, capped payouts
\* included, is going back to the root of its parent.
THEOREM EngineFollows == ChainSpec => []EngineFollowsChain
<1>1. ChainInv => EngineFollowsChain
  <2> SUFFICES ASSUME ChainInv PROVE EngineFollowsChain
    OBVIOUS
  <2>1. BooksAreCanonical
    BY BooksAtHead DEF BooksAreCanonical, ChainInv, BudgetInv, ChainTypeOK, BooksInv, IsEngine
  <2>2. ASSUME NoDonations PROVE balances = HeadState["bsc"] /\ balances = HeadState["edge"]
    <3>1. height \in 0..height /\ balances \in [Account -> Int]
      BY DEF ChainInv, BudgetInv, ChainTypeOK
    <3>2. RootOK(HeadState, block_history, height, treasury_balance_wei)
      BY <3>1 DEF ChainInv, RootsInv, HeadState
    <3>3. SumFunction(HeadState["bsc"]) = treasury_balance_wei + AllFees(block_history, height)
      BY <2>2, BooksAtHead DEF NoDonations
    <3>4. /\ IsEngine(HeadState["bsc"], block_history, height, treasury_balance_wei)
          /\ HeadState["bsc"] \in [Account -> Nat]
          /\ HeadState["edge"] = HeadState["bsc"]
      BY <3>2, <3>3 DEF RootOK
    <3>5. IsEngine(balances, block_history, height, treasury_balance_wei)
      BY DEF ChainInv, BooksInv
    <3>6. \A a \in Account : balances[a] = HeadState["bsc"][a]
      BY <3>4, <3>5, Accounts DEF IsEngine
    <3> QED
      BY <3>1, <3>4, <3>6
  <2> QED
    BY <2>1, <2>2 DEF EngineFollowsChain, EngineMatchesStateRoot
<1> QED
  BY <1>1, ChainInvariant, PTL

\* Whatever is orphaned in whatever order, no rollback takes more from an account
\* than it has: a miner's balance is a sum of what its canonical blocks paid.
THEOREM EngineTypeCorrect == ChainSpec => []EngineTypeOK
<1>1. ASSUME ChainInv, treasury_balance_wei \in InitialSupplies PROVE EngineTypeOK
  <2>1. /\ height \in Nat /\ DOMAIN block_history = 1..height
        /\ \A n \in 1..height : block_history[n] \in Snapshot
        /\ balances \in [Account -> Int] /\ balances[TREASURY_ADDRESS] \in Nat
    BY <1>1 DEF ChainInv, BudgetInv, ChainTypeOK
  <2>2. \A miner \in Miner : balances[miner] \in Nat
    BY <1>1, <2>1, BooksType DEF ChainInv, BooksInv, IsEngine
  <2>3. balances \in [Account -> Nat]
    BY <2>1, <2>2, Accounts
  <2>4. total_distributed_wei \in Nat
    BY <1>1, <2>1, DistributedType DEF ChainInv, BudgetInv
  <2>5. DOMAIN block_history \subseteq Nat
    BY <2>1
  <2> QED
    BY <1>1, <2>1, <2>3, <2>4, <2>5 DEF EngineTypeOK
<1>2. ChainInit => treasury_balance_wei \in InitialSupplies
  BY DEF ChainInit, EngineInit
<1>3. treasury_balance_wei \in InitialSupplies /\ [ChainNext]_chainVars
         => (treasury_balance_wei \in InitialSupplies)'
  BY DEF ChainNext, ExtendChain, FinalizeBlockReward, OrphanHead, RollbackBlockReorg,
         chainVars, engineVars
<1>4. ChainSpec => [](treasury_balance_wei \in InitialSupplies)
  BY <1>2, <1>3, PTL DEF ChainSpec
<1> QED
  BY <1>1, <1>4, ChainInvariant, PTL

\* The three code bases agree on every payout, at a halving, past the last one
\* and at the end of the treasury, so that their state roots do not fork.
THEOREM ClientsNeverFork == ChainSpec => []ClientsAgree
<1>1. ChainInv => ClientsAgree
  <2> SUFFICES ASSUME ChainInv PROVE ClientsAgree
    OBVIOUS
  <2>1. height \in 0..height
    BY DEF ChainInv, BudgetInv, ChainTypeOK
  <2>2. RootOK(HeadState, block_history, height, treasury_balance_wei)
    BY <2>1 DEF ChainInv, RootsInv, HeadState
  <2>3. HeadState["bsc"] = HeadState["edge"]
    BY <2>2 DEF RootOK
  <2>4. HeadState["nethermind"] = [a \in Account |->
            IF a \in Miner THEN HeadState["bsc"][a] - FeesTo(block_history, height, a)
            ELSE HeadState["bsc"][a]]
    BY <2>2 DEF RootOK
  <2> DEFINE b == HeadState["bsc"]
  <2>5. [a \in Account |-> IF a \in Miner THEN b[a] - FeesTo(block_history, height, a) ELSE b[a]]
           = [a \in Account |-> IF a \in Miner THEN b[a] - FeesOnChain(a) ELSE b[a]]
    <3> HIDE DEF b
    <3> QED
      BY BooksAtHead
  <2> QED
    BY <2>3, <2>4, <2>5 DEF ClientsAgree
<1> QED
  BY <1>1, ChainInvariant, PTL

\* Finalising a block takes from the treasury what the contract quoted for it.
THEOREM QuotesArePaid == ChainSpec => QuoteIsPaid
<1> DEFINE Quoted == height' = height + 1 =>
          \E donation \in Donations :
             LET treasury == HeadState["bsc"][TREASURY_ADDRESS] + donation
             IN  roots'[height' + 1]["bsc"][TREASURY_ADDRESS]
                    = treasury - QuotedReward(height', treasury)
<1>1. ChainInv /\ [ChainNext]_chainVars => [Quoted]_chainVars
  <2> SUFFICES ASSUME ChainInv, [ChainNext]_chainVars PROVE [Quoted]_chainVars
    OBVIOUS
  <2>1. ASSUME NEW miner \in Miner, NEW tx_fees \in Fees, NEW donation \in Donations,
               ExtendChain(miner, tx_fees, donation)
        PROVE  Quoted
    BY <2>1, ChainInvExtend
  <2>2. CASE OrphanHead
    BY <2>2, ChainInvOrphan
  <2> QED
    BY <2>1, <2>2 DEF ChainNext
<1> QED
  BY <1>1, ChainInvariant, PTL DEF ChainSpec, QuoteIsPaid
=============================================================================
