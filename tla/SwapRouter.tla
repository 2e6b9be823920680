----------------------------- MODULE SwapRouter -----------------------------
(***************************************************************************)
(* contracts/PISOSwapRouter.sol in front of a pair of the two tokens, and  *)
(* users who call the router or, in transactions of their own, the tokens  *)
(* and the pair.  A call of the router is one transaction: quote, transfer *)
(* and the call of the pair cannot be separated, but what was quoted       *)
(* before may be stale by then.  The pair is a PISOSwapPair: the           *)
(* PISOSwapPairLite that the factory deploys has neither mint, burn nor    *)
(* swap, and with it every call of the router would revert.                *)
(***************************************************************************)
EXTENDS SwapPair, Functions

CONSTANTS
    Amounts     \* bound: the token amounts users send

ASSUME RouterParameters == Amounts \subseteq Nat

\* Mutant: the quote is rounded up.
GetAmountOutRoundedUp(amountIn, reserveIn, reserveOut) ==
    1 + (amountIn * (FEE_DENOMINATOR - FEE) * reserveOut)
          \div (reserveIn * FEE_DENOMINATOR + amountIn * (FEE_DENOMINATOR - FEE))

\* getAmountOut
GetAmountOut(amountIn, reserveIn, reserveOut) ==
    (amountIn * (FEE_DENOMINATOR - FEE) * reserveOut)
      \div (reserveIn * FEE_DENOMINATOR + amountIn * (FEE_DENOMINATOR - FEE))

\* Mutant: the quote is not rounded up.
GetAmountInRoundedDown(amountOut, reserveIn, reserveOut) ==
    (reserveIn * amountOut * FEE_DENOMINATOR)
      \div ((reserveOut - amountOut) * (FEE_DENOMINATOR - FEE))

\* getAmountIn, for amountOut < reserveOut (else it reverts)
GetAmountIn(amountOut, reserveIn, reserveOut) ==
    (reserveIn * amountOut * FEE_DENOMINATOR)
      \div ((reserveOut - amountOut) * (FEE_DENOMINATOR - FEE)) + 1

Quote(amountA, reserveA, reserveB) == (amountA * reserveB) \div reserveA

\* swapExactTokensForTokens, token0 in and token1 out.  The caller's minimum is
\* the quote of some earlier moment.
SwapExactToken0(a, amountIn, minimum) ==
    LET amountOut == GetAmountOut(amountIn, reserve0, reserve1)
    IN  /\ amountIn > 0 /\ reserve0 > 0 /\ reserve1 > 0
        /\ amountOut >= minimum
        /\ token0[a] >= amountIn
        /\ Swap(Moved(token0, a, Pair, amountIn), token1, 0, amountOut, a)

SwapExactToken1(a, amountIn, minimum) ==
    LET amountOut == GetAmountOut(amountIn, reserve1, reserve0)
    IN  /\ amountIn > 0 /\ reserve0 > 0 /\ reserve1 > 0
        /\ amountOut >= minimum
        /\ token1[a] >= amountIn
        /\ Swap(token0, Moved(token1, a, Pair, amountIn), amountOut, 0, a)

\* addLiquidity: how much of the desired amounts is taken.
Taken(desired0, desired1) ==
    IF reserve0 = 0 /\ reserve1 = 0
    THEN <<desired0, desired1>>
    ELSE IF Quote(desired0, reserve0, reserve1) <= desired1
         THEN <<desired0, Quote(desired0, reserve0, reserve1)>>
         ELSE <<Quote(desired1, reserve1, reserve0), desired1>>

\* Only the amount that is computed is compared with the caller's minimum.  quote
\* refuses a pool with one token only.
AddLiquidity(a, desired0, desired1, minimum) ==
    LET taken == Taken(desired0, desired1)
    IN  /\ reserve0 = 0 <=> reserve1 = 0
        /\ taken[2] # desired1 => taken[2] >= minimum
        /\ taken[1] # desired0 => taken[1] >= minimum
        /\ token0[a] >= taken[1] /\ token1[a] >= taken[2]
        /\ Mint(Moved(token0, a, Pair, taken[1]), Moved(token1, a, Pair, taken[2]), a)

\* removeLiquidity; the pair burns all shares it holds, these and any others.
RemoveLiquidity(a, liquidity, minimum) ==
    /\ balanceOf[a] >= liquidity
    /\ Burn(token0, token1, Moved(balanceOf, a, Pair, liquidity), a)
    /\ token0'[a] - token0[a] >= minimum /\ token1'[a] - token1[a] >= minimum

\* A transfer of tokens to the pair, by mistake or before a direct call of it.
SendToPair(a, x0, x1) ==
    /\ token0[a] >= x0 /\ token1[a] >= x1
    /\ token0' = Moved(token0, a, Pair, x0)
    /\ token1' = Moved(token1, a, Pair, x1)
    /\ UNCHANGED poolVars

Init == PairInit

RouterCall(a) ==
    \E minimum \in Amounts \cup {0} :
        \/ \E x \in Amounts :
              SwapExactToken0(a, x, minimum) \/ SwapExactToken1(a, x, minimum)
        \/ \E x0, x1 \in Amounts : AddLiquidity(a, x0, x1, minimum)
        \/ \E s \in 1..totalSupply : RemoveLiquidity(a, s, minimum)

DirectCall(a) ==
    \/ \E x \in Amounts : SendToPair(a, x, 0) \/ SendToPair(a, 0, x)
    \/ \E s \in 1..totalSupply, b \in Account \cup {Pair} : ShareTransfer(a, b, s)
    \/ Mint(token0, token1, a)
    \/ Burn(token0, token1, balanceOf, a)
    \/ \E x0, x1 \in Amounts \cup {0} : Swap(token0, token1, x0, x1, a)

Next == \E a \in Account : RouterCall(a) \/ DirectCall(a)

vars == pairVars

Spec == Init /\ [][Next]_vars

-----------------------------------------------------------------------------
\* Types, and the supply of LP tokens is what their holders have together.
TypeOK ==
    /\ token0 \in [Holder -> Nat] /\ token1 \in [Holder -> Nat]
    /\ reserve0 \in Nat /\ reserve1 \in Nat
    /\ totalSupply \in Nat
    /\ balanceOf \in [ShareHolder -> Nat]
    /\ totalSupply = SumFunction(balanceOf)

\* The pair owns at least its reserves, so that what is "paid in" is never
\* negative, and a pool with shares outstanding has both tokens.
ReservesCovered ==
    /\ token0[Pair] >= reserve0 /\ token1[Pair] >= reserve1
    /\ totalSupply > 0 => reserve0 > 0 /\ reserve1 > 0

\* What each share is worth, by the product of the reserves, never falls: no
\* rounding of a deposit, a withdrawal or a trade is at the expense of those who
\* stay in the pool.
ShareNeverFalls ==
    [][totalSupply > 0 =>
          reserve0' * reserve1' * totalSupply * totalSupply
            >= reserve0 * reserve1 * totalSupply' * totalSupply']_vars

\* The pair accepts whatever the router quotes, in any state users can bring the
\* pool into: a trade at the current price is never refused for the product.
QuoteHonoured ==
    \A x \in Amounts \ {0} :
        LET out0 == GetAmountOut(x, reserve1, reserve0)
            out1 == GetAmountOut(x, reserve0, reserve1)
        IN  reserve0 > 0 /\ reserve1 > 0 =>
              /\ out1 > 0 => SwapAllowed(token0[Pair] + x, token1[Pair] - out1, 0, out1)
              /\ out0 > 0 => SwapAllowed(token0[Pair] - out0, token1[Pair] + x, out0, 0)

\* Paying what getAmountIn asks for buys at least the amount asked about.
AmountInSuffices ==
    \A y \in Amounts \ {0} :
        y < reserve1 /\ reserve0 > 0 =>
            GetAmountOut(GetAmountIn(y, reserve0, reserve1), reserve0, reserve1) >= y

\* The shares locked by the first deposit stay locked, so that the pool is never
\* emptied and started anew.
LiquidityLocked ==
    [][totalSupply > 0 => totalSupply' >= MINIMUM_LIQUIDITY
          /\ balanceOf'[Dead] = MINIMUM_LIQUIDITY]_vars
=============================================================================
