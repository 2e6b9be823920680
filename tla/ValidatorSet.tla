---------------------------- MODULE ValidatorSet ----------------------------
(***************************************************************************)
(* The system contract contracts/PISOValidatorSet.sol: the roster of       *)
(* consensus validators, their bonds, and the jail.                        *)
(*                                                                         *)
(* A contract call is a transaction: it runs to its end or reverts, so     *)
(* every external function is one action whose guard is the conjunction    *)
(* of its require()s (a reverted call changes nothing and is left out).    *)
(* Several transactions, of several senders, share a block; NewBlock       *)
(* moves block.number.  Addresses are the members of Validator, amounts    *)
(* are natural numbers in a unit in which MIN_STAKE is a small number.     *)
(* feeRecipient, consensusAddress and the unused mapping                   *)
(* userDelegatedStake take part in no decision and are left out.           *)
(***************************************************************************)
EXTENDS Naturals, Sequences, FiniteSets, Functions

CONSTANTS
    Validator,            \* the addresses that may appear as a validator
    GenesisRoster,        \* _initialValidators of the constructor
    MIN_STAKE,            \* 100_000 ether in the source
    MAX_VALIDATORS,       \* 21 in the source
    SLASH_THRESHOLD,      \* 50 in the source
    JAIL_DURATION_BLOCKS, \* 28800 in the source
    Deposits,             \* the msg.value a registration may carry
    Percentages,          \* the percentages the system or governor slashes by
    JailTerms,            \* the durations the system or governor jails for
    MaxHeight,            \* bound: the last block explored
    MaxBalance            \* bound: the most coin ever bonded

ASSUME AddressAssumption == IsFiniteSet(Validator)

ASSUME GenesisAssumption ==
    /\ GenesisRoster \in Seq(Validator)
    /\ IsInjective(GenesisRoster)
    /\ Len(GenesisRoster) <= MAX_VALIDATORS

ASSUME ValidatorSetParameters ==
    /\ MIN_STAKE \in Nat \ {0}
    /\ MAX_VALIDATORS \in Nat \ {0}
    /\ SLASH_THRESHOLD \in Nat \ {0}
    /\ JAIL_DURATION_BLOCKS \in Nat
    /\ Deposits \subseteq Nat
    /\ Percentages \subseteq 0..100
    /\ JailTerms \subseteq Nat
    /\ MaxHeight \in Nat
    /\ MaxBalance \in Nat

VARIABLES
    activeValidators,  \* the array activeValidators
    validators,        \* the mapping validators
    balance,           \* address(this).balance
    blockNumber        \* block.number

vsVars == <<activeValidators, validators, balance, blockNumber>>


ValidatorRecord ==
    [stakedAmount : Nat, isActive : BOOLEAN, isJailed : BOOLEAN,
     jailedUntilBlock : Nat, missedBlocksCount : Nat]

\* What the mapping returns for an address that was never written.
NoRecord ==
    [stakedAmount |-> 0, isActive |-> FALSE, isJailed |-> FALSE,
     jailedUntilBlock |-> 0, missedBlocksCount |-> 0]

\* The record the constructor and registerValidator write.
NewRecord(stake) ==
    [stakedAmount |-> stake, isActive |-> TRUE, isJailed |-> FALSE,
     jailedUntilBlock |-> 0, missedBlocksCount |-> 0]

-----------------------------------------------------------------------------
(* The effects of the restricted functions, on one record and on the       *)
(* roster; PISOSlashIndicator calls several of them in one transaction.    *)

\* Mutant: the last entry is popped but not moved.
RemoveLastOnly(s, v) ==
    IF v \notin Range(s) THEN s ELSE SubSeq(s, 1, Len(s) - 1)

\* _removeFromActiveValidators: the first entry equal to v is overwritten by
\* the last one, and the last one is popped.
RemoveFromActive(s, v) ==
    IF v \notin Range(s) THEN s
    ELSE LET first == CHOOSE i \in DOMAIN s :
                        s[i] = v /\ \A j \in DOMAIN s : s[j] = v => i <= j
         IN  [i \in 1..(Len(s) - 1) |-> IF i = first THEN s[Len(s)] ELSE s[i]]

\* slashValidatorStake: integer percentage, burnt from the record only.
Slashed(rec, percentage) ==
    [rec EXCEPT !.stakedAmount = @ - (@ * percentage) \div 100]

\* jailValidator: no look at what the record holds.
Jailed(rec, until) ==
    [rec EXCEPT !.isJailed = TRUE, !.isActive = FALSE, !.jailedUntilBlock = until]

\* reportMissedBlock returns early for these.
IgnoresMiss(rec) == ~rec.isActive \/ rec.isJailed

\* reportMissedBlock, past the early return.
Missed(rec) == [rec EXCEPT !.missedBlocksCount = @ + 1]

ReachesThreshold(rec) == Missed(rec).missedBlocksCount >= SLASH_THRESHOLD

-----------------------------------------------------------------------------
\* The constructor has run; the first calls are in block 1 at the earliest, as
\* block 0, of genesis, holds no transactions.
VSInit ==
    /\ activeValidators = GenesisRoster
    /\ validators = [v \in Validator |->
            IF v \in Range(GenesisRoster) THEN NewRecord(MIN_STAKE) ELSE NoRecord]
    /\ balance = 0
    /\ blockNumber = 1

\* Mutant: the deposit is not compared with MIN_STAKE, which is what is recorded.
RegisterUncheckedDeposit(v, stake) ==
    /\ ~validators[v].isActive
    /\ Len(activeValidators) < MAX_VALIDATORS
    /\ balance + stake <= MaxBalance
    /\ validators' = [validators EXCEPT ![v] = NewRecord(MIN_STAKE)]
    /\ activeValidators' = Append(activeValidators, v)
    /\ balance' = balance + stake
    /\ UNCHANGED blockNumber

\* registerValidator, by an address that is not active at the moment: a
\* newcomer, or one that sits in jail.
RegisterValidator(v, stake) ==
    /\ stake >= MIN_STAKE
    /\ ~validators[v].isActive
    /\ Len(activeValidators) < MAX_VALIDATORS
    /\ balance + stake <= MaxBalance
    /\ validators' = [validators EXCEPT ![v] = NewRecord(stake)]
    /\ activeValidators' = Append(activeValidators, v)
    /\ balance' = balance + stake
    /\ UNCHANGED blockNumber

ReportMissedBlock(v) ==
    /\ UNCHANGED <<balance, blockNumber>>
    /\ \/ /\ IgnoresMiss(validators[v])
          /\ UNCHANGED <<validators, activeValidators>>
       \/ /\ ~IgnoresMiss(validators[v])
          /\ ~ReachesThreshold(validators[v])
          /\ validators' = [validators EXCEPT ![v] = Missed(@)]
          /\ UNCHANGED activeValidators
       \/ /\ ~IgnoresMiss(validators[v])
          /\ ReachesThreshold(validators[v])
          /\ blockNumber + JAIL_DURATION_BLOCKS <= MaxHeight
          /\ validators' = [validators EXCEPT
                ![v] = Jailed(Missed(@), blockNumber + JAIL_DURATION_BLOCKS)]
          /\ activeValidators' = RemoveFromActive(activeValidators, v)

JailValidator(v, duration) ==
    /\ blockNumber + duration <= MaxHeight
    /\ validators' = [validators EXCEPT ![v] = Jailed(@, blockNumber + duration)]
    /\ activeValidators' = RemoveFromActive(activeValidators, v)
    /\ UNCHANGED <<balance, blockNumber>>

SlashValidatorStake(v, percentage) ==
    /\ percentage <= 100
    /\ validators' = [validators EXCEPT ![v] = Slashed(@, percentage)]
    /\ UNCHANGED <<activeValidators, balance, blockNumber>>

\* Mutant: the end of the sentence is not awaited.
UnjailAtOnce(v) ==
    /\ validators[v].isJailed
    /\ validators' = [validators EXCEPT ![v].isJailed = FALSE,
                                        ![v].isActive = TRUE,
                                        ![v].missedBlocksCount = 0]
    /\ activeValidators' = Append(activeValidators, v)
    /\ UNCHANGED <<balance, blockNumber>>

\* Mutant: the flag is cleared, the validator not put back.
UnjailInactive(v) ==
    /\ validators[v].isJailed
    /\ blockNumber >= validators[v].jailedUntilBlock
    /\ validators' = [validators EXCEPT ![v].isJailed = FALSE,
                                        ![v].missedBlocksCount = 0]
    /\ UNCHANGED <<activeValidators, balance, blockNumber>>

Unjail(v) ==
    /\ validators[v].isJailed
    /\ blockNumber >= validators[v].jailedUntilBlock
    /\ validators' = [validators EXCEPT ![v].isJailed = FALSE,
                                        ![v].isActive = TRUE,
                                        ![v].missedBlocksCount = 0]
    /\ activeValidators' = Append(activeValidators, v)
    /\ UNCHANGED <<balance, blockNumber>>

\* The consensus engine seals a block.
NewBlock ==
    /\ blockNumber < MaxHeight
    /\ blockNumber' = blockNumber + 1
    /\ UNCHANGED <<activeValidators, validators, balance>>

\* The calls of the validators themselves.
ValidatorCall(v) ==
    \/ \E stake \in Deposits : RegisterValidator(v, stake)
    \/ Unjail(v)

\* The calls the consensus engine or the governor makes directly
\* (onlySystemOrSlash).
SystemCall(v) ==
    \/ ReportMissedBlock(v)
    \/ \E duration \in JailTerms : JailValidator(v, duration)
    \/ \E percentage \in Percentages : SlashValidatorStake(v, percentage)
=============================================================================
