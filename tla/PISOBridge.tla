----------------------------- MODULE PISOBridge -----------------------------
(***************************************************************************)
(* contracts/PISOBridge.sol: relayers vote for a withdrawal under its      *)
(* transaction hash, and the vote that reaches the threshold releases the  *)
(* coin in the same transaction.  A call that reverts changes nothing, so  *)
(* its guards are conjuncts of the action.                                 *)
(***************************************************************************)
EXTENDS Integers, Sequences, FiniteSets, Functions

CONSTANTS
    RelayerList,  \* the argument _relayers of the constructor
    THRESHOLD,    \* the argument _threshold
    TxHash,       \* the hashes that may be voted for
    Refusing,     \* the recipients whose code reverts when it is sent coin
    MaxVault      \* bound on the coin of the vault

isRelayer == Range(RelayerList)

\* The require of the constructor; voteCounts is a uint8 and reverts beyond 255.
ASSUME BridgeParameters ==
    /\ RelayerList \in Seq(isRelayer)
    /\ THRESHOLD \in Nat \ {0}
    /\ THRESHOLD <= Len(RelayerList)
    /\ Len(RelayerList) <= 255
    /\ MaxVault \in Nat

VARIABLES
    votes,                  \* votes[hash]: who voted for it
    voteCounts,
    processedTransactions,
    vault,                  \* address(this).balance
    funded                  \* history: the coin that came in through receive()

bridgeVars == <<votes, voteCounts, processedTransactions, vault, funded>>

BridgeInit ==
    /\ votes = [h \in TxHash |-> {}]
    /\ voteCounts = [h \in TxHash |-> 0]
    /\ processedTransactions = {}
    /\ vault = 0
    /\ funded = 0

Receive(amount) ==
    /\ vault + amount <= MaxVault
    /\ vault' = vault + amount
    /\ funded' = funded + amount
    /\ UNCHANGED <<votes, voteCounts, processedTransactions>>

Counted(relayer, hash) ==
    /\ votes' = [votes EXCEPT ![hash] = @ \cup {relayer}]
    /\ voteCounts' = [voteCounts EXCEPT ![hash] = @ + 1]

VoteBelowThreshold(relayer, hash) ==
    /\ voteCounts[hash] + 1 < THRESHOLD
    /\ Counted(relayer, hash)
    /\ UNCHANGED <<processedTransactions, vault, funded>>

\* The transfer fails when the vault holds less or the recipient reverts; then the
\* vote is undone too.  Everything is written before the recipient has control,
\* and the lock keeps it from voting.
VoteAndRelease(relayer, recipient, amount, hash) ==
    /\ voteCounts[hash] + 1 >= THRESHOLD
    /\ Counted(relayer, hash)
    /\ processedTransactions' = processedTransactions \cup {hash}
    /\ recipient \notin Refusing
    /\ vault >= amount
    /\ vault' = vault - amount
    /\ UNCHANGED funded

\* Mutant: executed proposals still take votes.
VoteOnProcessed(relayer, recipient, amount, hash) ==
    /\ relayer \in isRelayer
    /\ relayer \notin votes[hash]
    /\ \/ VoteBelowThreshold(relayer, hash)
       \/ VoteAndRelease(relayer, recipient, amount, hash)

\* Mutant: a relayer may vote again.
VoteTwice(relayer, recipient, amount, hash) ==
    /\ relayer \in isRelayer
    /\ hash \notin processedTransactions
    /\ \/ VoteBelowThreshold(relayer, hash)
       \/ VoteAndRelease(relayer, recipient, amount, hash)

\* Mutant: the vote is kept although the transfer failed.
VoteSurvivingFailure(relayer, recipient, amount, hash) ==
    /\ relayer \in isRelayer
    /\ hash \notin processedTransactions
    /\ relayer \notin votes[hash]
    /\ \/ VoteBelowThreshold(relayer, hash)
       \/ VoteAndRelease(relayer, recipient, amount, hash)
       \/ /\ voteCounts[hash] + 1 >= THRESHOLD
          /\ vault < amount
          /\ Counted(relayer, hash)
          /\ UNCHANGED <<processedTransactions, vault, funded>>

\* Recipient and amount are the word of this caller: neither is part of the hash
\* the contract sees, and those of the votes before are not kept.
VoteProposal(relayer, recipient, amount, hash) ==
    /\ relayer \in isRelayer
    /\ hash \notin processedTransactions
    /\ relayer \notin votes[hash]
    /\ \/ VoteBelowThreshold(relayer, hash)
       \/ VoteAndRelease(relayer, recipient, amount, hash)
=============================================================================
