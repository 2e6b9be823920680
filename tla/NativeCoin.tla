----------------------------- MODULE NativeCoin -----------------------------
(***************************************************************************)
(* What the chain gives its contracts: the coins of each account, the time *)
(* of the block, and the calls that are still open.  A contract that pays  *)
(* or calls another account hands control to it until the call returns;    *)
(* everything the account does meanwhile happens between two statements of *)
(* the contract.                                                           *)
(*                                                                         *)
(* A call that fails undoes what was done inside it, which leads back to a *)
(* state the model has been in, so only calls that succeed are steps.      *)
(***************************************************************************)
EXTENDS Integers, Sequences, FiniteSets

CONSTANTS
    Account,
    InitialCoins,  \* what each account starts with
    Amounts,       \* bound: the values calls are made with
    MaxDepth,      \* bound: how many calls are open at once
    EndOfTime      \* bound: the last block time

ASSUME CoinParameters ==
    /\ IsFiniteSet(Account)
    /\ InitialCoins \in Nat
    /\ Amounts \subseteq Nat
    /\ MaxDepth \in Nat
    /\ EndOfTime \in Nat \ {0}

VARIABLES
    coins,   \* balance of each account
    now,     \* block.timestamp
    frames   \* the open calls, the innermost first

coinVars == <<coins, now, frames>>

CoinInit ==
    /\ coins = [a \in Account |-> InitialCoins]
    /\ now = 1
    /\ frames = <<>>

CoinTypeOK ==
    /\ coins \in [Account -> Nat]
    /\ now \in 1 .. EndOfTime
    /\ Len(frames) <= MaxDepth

\* The call hands control over; frame says which call of ours is waiting.
Calls(frame) ==
    /\ Len(frames) < MaxDepth
    /\ frames' = <<frame>> \o frames

TransferCoins(from, to, amount) ==
    /\ from /= to
    /\ amount <= coins[from]
    /\ coins' = [coins EXCEPT ![from] = @ - amount, ![to] = @ + amount]
    /\ UNCHANGED <<now, frames>>

\* The next block.  No call outlives its transaction.
NextBlock ==
    /\ frames = <<>>
    /\ now < EndOfTime
    /\ now' = now + 1
    /\ UNCHANGED <<coins, frames>>
=============================================================================
