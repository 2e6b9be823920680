-------------------------------- MODULE PoSA --------------------------------
(***************************************************************************)
(* The proof-of-staked-authority subsystem: the slash indicator            *)
(* (contracts/PISOSlashIndicator.sol) on top of the validator set it       *)
(* calls.  The consensus engine reports missed proposal slots and clears   *)
(* records at epoch changes; anybody submits double-sign evidence.  The    *)
(* indicator verifies nothing about it: any two byte strings whose hash it *)
(* has not seen are evidence against any address.  A call of the indicator *)
(* and the calls it makes into the validator set are one transaction,      *)
(* hence one action.                                                       *)
(***************************************************************************)
EXTENDS ValidatorSet

CONSTANTS
    MISDEMEANOR_THRESHOLD,     \* 50 in the source
    FELONY_THRESHOLD,          \* 150 in the source
    FELONY_SLASH_PERCENT,      \* 5, a literal of slash()
    DOUBLE_SIGN_SLASH_PERCENT, \* 20 in the source
    DOUBLE_SIGN_JAIL,          \* 1_000_000, a literal of submitDoubleSignEvidence()
    Evidence,                  \* the hashes of the pairs of byte strings anybody
                               \* may submit, of which there is no end: a finite
                               \* set of them is a bound
    MaxFelonies                \* bound on the felonies of one validator

ASSUME IndicatorParameters ==
    /\ MISDEMEANOR_THRESHOLD \in Nat \ {0}
    /\ FELONY_THRESHOLD \in Nat
    /\ MISDEMEANOR_THRESHOLD < FELONY_THRESHOLD
    /\ FELONY_SLASH_PERCENT \in 0..100
    /\ DOUBLE_SIGN_SLASH_PERCENT \in 0..100
    /\ DOUBLE_SIGN_JAIL \in Nat
    /\ MaxFelonies \in Nat

VARIABLES
    misdemeanorCount,  \* missed slots since the last reset
    felonyCount,
    processedEvidence  \* the hashes already acted on

indicatorVars == <<misdemeanorCount, felonyCount, processedEvidence>>
vars == <<activeValidators, validators, balance, blockNumber,
          misdemeanorCount, felonyCount, processedEvidence>>

Init ==
    /\ VSInit
    /\ misdemeanorCount = [v \in Validator |-> 0]
    /\ felonyCount = [v \in Validator |-> 0]
    /\ processedEvidence = {}

\* slash(): the miss that brings the count to MISDEMEANOR_THRESHOLD, and only
\* that one, is passed on to the validator set.
SlashMisdemeanor(v) ==
    /\ misdemeanorCount[v] + 1 = MISDEMEANOR_THRESHOLD
    /\ misdemeanorCount' = [misdemeanorCount EXCEPT ![v] = @ + 1]
    /\ ReportMissedBlock(v)
    /\ UNCHANGED <<felonyCount, processedEvidence>>

SlashFelony(v) ==
    /\ misdemeanorCount[v] + 1 # MISDEMEANOR_THRESHOLD
    /\ misdemeanorCount[v] + 1 >= FELONY_THRESHOLD
    /\ felonyCount[v] < MaxFelonies
    /\ felonyCount' = [felonyCount EXCEPT ![v] = @ + 1]
    /\ misdemeanorCount' = [misdemeanorCount EXCEPT ![v] = 0]
    /\ SlashValidatorStake(v, FELONY_SLASH_PERCENT)
    /\ UNCHANGED processedEvidence

SlashCountOnly(v) ==
    /\ misdemeanorCount[v] + 1 # MISDEMEANOR_THRESHOLD
    /\ misdemeanorCount[v] + 1 < FELONY_THRESHOLD
    /\ misdemeanorCount' = [misdemeanorCount EXCEPT ![v] = @ + 1]
    /\ UNCHANGED <<felonyCount, processedEvidence, vsVars>>

Slash(v) == SlashMisdemeanor(v) \/ SlashFelony(v) \/ SlashCountOnly(v)

\* Mutant: the processed flag is set but not looked at.
SubmitEvidenceAgain(v, hash) ==
    /\ processedEvidence' = processedEvidence \cup {hash}
    /\ blockNumber + DOUBLE_SIGN_JAIL <= MaxHeight
    /\ validators' = [validators EXCEPT
          ![v] = Jailed(Slashed(@, DOUBLE_SIGN_SLASH_PERCENT),
                        blockNumber + DOUBLE_SIGN_JAIL)]
    /\ activeValidators' = RemoveFromActive(activeValidators, v)
    /\ UNCHANGED <<balance, blockNumber, misdemeanorCount, felonyCount>>

\* The hash of a pair is remembered; the validator it is submitted against
\* is no part of it, and need not be one.  No signature and no header is looked
\* at.  The stake is slashed first, then the jail is entered.
SubmitDoubleSignEvidence(v, hash) ==
    /\ hash \notin processedEvidence
    /\ processedEvidence' = processedEvidence \cup {hash}
    /\ blockNumber + DOUBLE_SIGN_JAIL <= MaxHeight
    /\ validators' = [validators EXCEPT
          ![v] = Jailed(Slashed(@, DOUBLE_SIGN_SLASH_PERCENT),
                        blockNumber + DOUBLE_SIGN_JAIL)]
    /\ activeValidators' = RemoveFromActive(activeValidators, v)
    /\ UNCHANGED <<balance, blockNumber, misdemeanorCount, felonyCount>>

ResetRecord(v) ==
    /\ misdemeanorCount' = [misdemeanorCount EXCEPT ![v] = 0]
    /\ UNCHANGED <<felonyCount, processedEvidence, vsVars>>

IndicatorCall(v) ==
    \/ Slash(v)
    \/ ResetRecord(v)
    \/ \E hash \in Evidence : SubmitDoubleSignEvidence(v, hash)

Next ==
    \/ NewBlock /\ UNCHANGED indicatorVars
    \/ \E v \in Validator :
          \/ ValidatorCall(v) /\ UNCHANGED indicatorVars
          \/ SystemCall(v) /\ UNCHANGED indicatorVars
          \/ IndicatorCall(v)

Spec == Init /\ [][Next]_vars

\* The chain keeps producing blocks and the operator of a jailed validator
\* calls unjail() once it may (docs/VALIDATOR_NODE_GUIDE.md).
FairSpec ==
    /\ Spec
    /\ WF_vars(NewBlock /\ UNCHANGED indicatorVars)
    /\ \A v \in Validator : WF_vars(Unjail(v) /\ UNCHANGED indicatorVars)

-----------------------------------------------------------------------------
TypeOK ==
    /\ activeValidators \in Seq(Validator)
    /\ validators \in [Validator -> ValidatorRecord]
    /\ balance \in Nat
    /\ blockNumber \in Nat \ {0}
    /\ misdemeanorCount \in [Validator -> Nat]
    /\ felonyCount \in [Validator -> Nat]
    /\ processedEvidence \subseteq Evidence

\* The array a block producer iterates over and the flags of the mapping tell
\* the same story: nobody is listed twice (a duplicate would get two slots in
\* the rotation and survive the removal by jailing, which takes out one
\* entry), and exactly the validators flagged active are listed.  Registering,
\* unjailing and the swap-and-pop removal keep this up separately.
RosterMatchesFlags ==
    /\ IsInjective(activeValidators)
    /\ Range(activeValidators) = {v \in Validator : validators[v].isActive}

\* A jailed validator is never among the active ones, so it neither signs
\* blocks nor registers past its jail flag unnoticed.
JailedIsInactive ==
    \A v \in Validator : ~(validators[v].isActive /\ validators[v].isJailed)

\* An active validator is always below the threshold at which
\* reportMissedBlock jails: unjail and registerValidator clear the count, so a
\* validator that returns is not jailed again by its very next miss.
ActiveBelowThreshold ==
    \A v \in Validator : validators[v].isActive =>
        validators[v].missedBlocksCount < SLASH_THRESHOLD

\* The active validators that have not been in jail since they registered.  (A
\* record keeps the end of its last sentence until the next registration.)
Unconvicted ==
    {v \in Validator : validators[v].isActive /\ validators[v].jailedUntilBlock = 0}

\* Only those back from jail take the roster past MAX_VALIDATORS: registering
\* compares its length, jailing makes room that unjail does not ask for again.
RosterCapped ==
    /\ Cardinality(Unconvicted) <= MAX_VALIDATORS
    /\ \A v \in Validator : validators[v].isJailed => validators[v].jailedUntilBlock # 0

\* The inductive invariant behind the theorems.
RosterInvariant ==
    /\ TypeOK /\ RosterMatchesFlags /\ JailedIsInactive
    /\ ActiveBelowThreshold /\ RosterCapped

Stake == [v \in Validator |-> validators[v].stakedAmount]

TotalStake == SumFunction(Stake)

\* The bonds on record are covered by coin: what the contract was paid, and
\* the MIN_STAKE each genesis validator was granted.
BondsCovered == TotalStake <= balance + MIN_STAKE * Len(GenesisRoster)

StatusOf(rec) ==
    IF rec.isActive THEN "active" ELSE IF rec.isJailed THEN "jailed" ELSE "out"

StatusMap == [v \in Validator |-> StatusOf(validators[v])]

ReleaseMap == [v \in Validator |-> validators[v].jailedUntilBlock]

Lifecycle == INSTANCE ValidatorLifecycle WITH
    MinBond <- MIN_STAKE,
    status <- StatusMap,
    release <- ReleaseMap,
    Terms <- JailTerms,
    Proof <- Evidence,
    bonded <- balance,
    accepted <- processedEvidence,
    now <- blockNumber

\* The contracts implement the abstract life cycle: no interleaving of slashing,
\* evidence, governance calls, registration and unjailing lets an address on the
\* roster but by a fresh bond or by a sentence served to its end, and only the
\* three causes named there pass a sentence: missed blocks on an active validator,
\* an order of the authorities, or one more piece of evidence, on any address.
ImplementsLifecycle == Lifecycle!Spec

\* Unless the governor slashes it, a bond on record shrinks only together with
\* the record of its cause: one more felony, one more piece of evidence never
\* seen before, or a fresh bond replacing it.  The same bytes submitted again, by
\* anybody and against anybody, take nothing; other bytes are other evidence.
StakeFallsBySentence ==
    [][\A v \in Validator :
          validators'[v].stakedAmount < validators[v].stakedAmount =>
             \/ felonyCount'[v] = felonyCount[v] + 1
             \/ \E hash \in Evidence \ processedEvidence :
                    processedEvidence' = processedEvidence \cup {hash}
             \/ balance' > balance
             \/ \E percentage \in Percentages : SlashValidatorStake(v, percentage)]_vars

\* Every sentence has an end: whoever is in jail until some block becomes active,
\* unless another sentence takes the place of this one.  (Nothing bounds how often
\* that happens: evidence is free and the authorities may order anew.)
JailEnds ==
    \A v \in Validator, until \in 0..MaxHeight :
        (validators[v].isJailed /\ validators[v].jailedUntilBlock = until)
            ~> (validators[v].isActive \/ validators[v].jailedUntilBlock # until)

\* Who signs has a bond on record (TOKENOMICS.md: nodes must bond a minimum of
\* 100,000 PISO to compete for inclusion in the active consensus set).  The code
\* does not hold to it: a sentence served makes an address active that never
\* registered.
ActiveHaveBonds ==
    \A v \in Validator : validators[v].isActive => validators[v].stakedAmount > 0
=============================================================================
