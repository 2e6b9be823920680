------------------------------ MODULE SwapPair ------------------------------
(***************************************************************************)
(* contracts/PISOSwapPair.sol: a pool of two tokens with a constant        *)
(* product, its reserves, and the LP token that stands for shares of it.   *)
(* The pool takes what it finds on its own account beyond the reserves as  *)
(* paid in, whoever sent it, so each operation is given the holdings of    *)
(* the two tokens (h0, h1) as they are when the pair is called: a caller   *)
(* that is a contract may have moved tokens before in the same             *)
(* transaction.  The tokens themselves are ordinary ERC-20 tokens.         *)
(***************************************************************************)
EXTENDS Integers, FiniteSets

CONSTANTS
    Account,           \* the users
    Pair,              \* the address of the pool
    Dead,              \* address(0xdead)
    MINIMUM_LIQUIDITY, \* 1000 in the code
    InitialBalance     \* bound: what each user owns of each token at first

FEE_DENOMINATOR == 1000
FEE == 3

Holder == Account \cup {Pair}
ShareHolder == Holder \cup {Dead}

ASSUME PairParameters ==
    /\ Pair \notin Account /\ Dead \notin Account /\ Pair # Dead
    /\ IsFiniteSet(Account)
    /\ MINIMUM_LIQUIDITY \in Nat \ {0}
    /\ InitialBalance \in Nat

VARIABLES
    token0, token1,     \* balanceOf of the two tokens
    reserve0, reserve1,
    totalSupply,        \* of the LP token
    balanceOf           \* of the LP token

poolVars == <<reserve0, reserve1, totalSupply, balanceOf>>
pairVars == <<token0, token1, poolVars>>

PairInit ==
    /\ token0 = [a \in Holder |-> IF a = Pair THEN 0 ELSE InitialBalance]
    /\ token1 = token0
    /\ reserve0 = 0 /\ reserve1 = 0
    /\ totalSupply = 0
    /\ balanceOf = [a \in ShareHolder |-> 0]

\* The sender's balance is written first: whoever pays itself ends where it was.
Moved(h, from, to, x) ==
    LET paid == [h EXCEPT ![from] = @ - x]
    IN  [paid EXCEPT ![to] = @ + x]

\* _sqrt, the Babylonian method: z falls until the next estimate x is no smaller.
Sqrt(y) ==
    LET estimate[z \in Nat, x \in Nat] ==
            IF x < z THEN estimate[x, (y \div x + x) \div 2] ELSE z
    IN  CASE y > 3 -> estimate[y, y \div 2 + 1]
          [] y \in 1..3 -> 1
          [] y = 0 -> 0

Smaller(x, y) == IF x < y THEN x ELSE y

\* Mutant: the depositor gets the shares of the token brought in excess.
LargerLiquidity(amount0, amount1) ==
    IF totalSupply = 0
    THEN Sqrt(amount0 * amount1) - MINIMUM_LIQUIDITY
    ELSE LET s0 == (amount0 * totalSupply) \div reserve0
             s1 == (amount1 * totalSupply) \div reserve1
         IN  IF s0 > s1 THEN s0 ELSE s1

\* The shares a deposit is worth.  Division by an empty reserve reverts.
Liquidity(amount0, amount1) ==
    IF totalSupply = 0
    THEN Sqrt(amount0 * amount1) - MINIMUM_LIQUIDITY
    ELSE Smaller((amount0 * totalSupply) \div reserve0, (amount1 * totalSupply) \div reserve1)

\* _mint: no balance to check; of the first shares MINIMUM_LIQUIDITY are locked.
Minted(to, liquidity) ==
    LET locked == IF totalSupply = 0 THEN MINIMUM_LIQUIDITY ELSE 0
    IN  /\ totalSupply' = totalSupply + liquidity + locked
        /\ balanceOf' = [balanceOf EXCEPT ![to] = @ + liquidity, ![Dead] = @ + locked]

\* _update
Synced(h0, h1) ==
    /\ token0' = h0 /\ token1' = h1
    /\ reserve0' = h0[Pair] /\ reserve1' = h1[Pair]

Mint(h0, h1, to) ==
    LET amount0 == h0[Pair] - reserve0
        amount1 == h1[Pair] - reserve1
    IN  /\ amount0 >= 0 /\ amount1 >= 0
        /\ totalSupply = 0 \/ (reserve0 > 0 /\ reserve1 > 0)
        /\ Liquidity(amount0, amount1) \in Nat \ {0}
        /\ Minted(to, Liquidity(amount0, amount1))
        /\ Synced(h0, h1)

\* Burns the shares on the pool's own account, whoever sent them there.  Supply and
\* balances are subtracted from with a check.
Burn(h0, h1, shares, to) ==
    LET liquidity == shares[Pair]
        amount0 == (liquidity * h0[Pair]) \div totalSupply
        amount1 == (liquidity * h1[Pair]) \div totalSupply
    IN  /\ totalSupply > 0 /\ liquidity <= totalSupply
        /\ amount0 \in 1..h0[Pair] /\ amount1 \in 1..h1[Pair]
        /\ balanceOf' = [shares EXCEPT ![Pair] = 0]
        /\ totalSupply' = totalSupply - liquidity
        /\ Synced(Moved(h0, Pair, to, amount0), Moved(h1, Pair, to, amount1))

\* What has come in, given the balance after the payout.
AmountIn(balance, reserve, out) ==
    IF balance > reserve - out THEN balance - (reserve - out) ELSE 0

\* The requirements of swap, for the balances after the payout.
SwapAllowed(balance0, balance1, out0, out1) ==
    LET in0 == AmountIn(balance0, reserve0, out0)
        in1 == AmountIn(balance1, reserve1, out1)
    IN  /\ out0 > 0 \/ out1 > 0
        /\ out0 < reserve0 /\ out1 < reserve1
        /\ in0 > 0 \/ in1 > 0
        /\ (balance0 * FEE_DENOMINATOR - in0 * FEE) * (balance1 * FEE_DENOMINATOR - in1 * FEE)
             >= reserve0 * reserve1 * FEE_DENOMINATOR * FEE_DENOMINATOR

Swap(h0, h1, out0, out1, to) ==
    /\ SwapAllowed(h0[Pair] - out0, h1[Pair] - out1, out0, out1)
    /\ Synced(Moved(h0, Pair, to, out0), Moved(h1, Pair, to, out1))
    /\ UNCHANGED <<totalSupply, balanceOf>>

\* transfer and transferFrom of the LP token
ShareTransfer(from, to, value) ==
    /\ balanceOf[from] >= value
    /\ balanceOf' = Moved(balanceOf, from, to, value)
    /\ UNCHANGED <<token0, token1, reserve0, reserve1, totalSupply>>
=============================================================================
