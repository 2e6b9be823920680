------------------------- MODULE SwapRouter_proofs -------------------------
(***************************************************************************)
(* For pools of any size and any amounts: the supply is what the holders   *)
(* have together, the reserves stay covered, the pair accepts what the     *)
(* router quotes, and a share never loses value.                           *)
(***************************************************************************)
EXTENDS SwapRouter, RecursionTheorems

-----------------------------------------------------------------------------
(***************************************************************************)
(* Arithmetic: \div rounds down, and products compare factor by factor.    *)
(***************************************************************************)
LEMMA DivBounds ==
    ASSUME NEW a \in Nat, NEW b \in Nat \ {0}
    PROVE  /\ a \div b \in Nat
           /\ (a \div b) * b <= a
           /\ a < (a \div b) * b + b
BY Z3

LEMMA DivAtLeast ==
    ASSUME NEW a \in Nat, NEW b \in Nat \ {0}, NEW y \in Nat, y * b <= a
    PROVE  y <= a \div b
<1>1. a \div b \in Nat /\ a < (a \div b) * b + b
  BY DivBounds
<1> DEFINE q == a \div b
<1>2. SUFFICES ASSUME q + 1 <= y PROVE FALSE
  BY <1>1
<1> HIDE DEF q
<1>3. (q + 1) * b <= y * b
  BY <1>1, <1>2, Z3T(30) DEF q
<1> QED
  BY <1>1, <1>3, Z3T(30) DEF q

LEMMA ProductsCompare ==
    ASSUME NEW a \in Nat, NEW b \in Nat, NEW c \in Nat, NEW d \in Nat, a <= b, c <= d
    PROVE  a * c <= b * d
BY Z3T(30)

\* The heart of the quote: with D the reserve and the input after the fee, what is
\* left of the other reserve keeps the product.
LEMMA QuoteKeepsProduct ==
    ASSUME NEW x \in Nat \ {0}, NEW rIn \in Nat \ {0}, NEW rOut \in Nat \ {0}
    PROVE  LET y == GetAmountOut(x, rIn, rOut)
               D == rIn * FEE_DENOMINATOR + x * (FEE_DENOMINATOR - FEE)
           IN  /\ y \in Nat /\ y < rOut
               /\ rIn * rOut * FEE_DENOMINATOR <= D * (rOut - y)
<1> DEFINE n == x * 997 * rOut
           D == rIn * 1000 + x * 997
           y == n \div D
<1>1. n \in Nat /\ D \in Nat \ {0}
  OBVIOUS
<1>2. y \in Nat /\ y * D <= n
  <2> HIDE DEF n, D
  <2> QED
    BY <1>1, DivBounds
<1>3. D * rOut = rIn * rOut * 1000 + n
  BY Z3T(30)
<1>4. D * (rOut - y) = D * rOut - y * D
  BY <1>1, <1>2, Z3T(30)
<1>5. rIn * rOut * 1000 <= D * (rOut - y)
  BY <1>1, <1>2, <1>3, <1>4, Z3T(30)
<1>6. rIn * rOut * 1000 > 0
  BY Z3T(30)
<1>7. y < rOut
  <2> SUFFICES ASSUME rOut - y <= 0 PROVE FALSE
    BY <1>2
  <2>1. D * (rOut - y) <= 0
    BY <1>1, <1>2, Z3T(30)
  <2> QED
    BY <2>1, <1>1, <1>2, <1>5, <1>6, Z3T(30)
<1> QED
  BY <1>2, <1>5, <1>7 DEF GetAmountOut, FEE, FEE_DENOMINATOR

\* The same for what the pair compares, with balances that may exceed the reserves.
LEMMA QuoteAllowed ==
    ASSUME NEW x \in Nat \ {0}, NEW rIn \in Nat \ {0}, NEW rOut \in Nat \ {0},
           NEW bIn \in Nat, NEW bOut \in Nat, rIn <= bIn, rOut <= bOut,
           NEW y, y = GetAmountOut(x, rIn, rOut)
    PROVE  LET in0 == AmountIn(bIn + x, rIn, 0)
               in1 == AmountIn(bOut - y, rOut, y)
           IN  /\ y \in Nat /\ y < rOut
               /\ in0 > 0
               /\ rIn * rOut * FEE_DENOMINATOR * FEE_DENOMINATOR
                    <= ((bIn + x) * FEE_DENOMINATOR - in0 * FEE)
                         * ((bOut - y) * FEE_DENOMINATOR - in1 * FEE)
<1> DEFINE D == rIn * 1000 + x * 997
           left == rOut - y
           adjusted0 == (bIn + x) * 1000 - (bIn + x - rIn) * 3
           adjusted1 == (bOut - y) * 1000 - (bOut - rOut) * 3
<1>1. y \in Nat /\ y < rOut /\ rIn * rOut * 1000 <= D * left
  BY QuoteKeepsProduct DEF FEE, FEE_DENOMINATOR
<1>2. D \in Nat /\ left \in Nat
  BY <1>1
<1>3. adjusted0 \in Nat /\ D <= adjusted0
  OBVIOUS
<1>4. adjusted1 \in Nat /\ left * 1000 <= adjusted1
  BY <1>1
<1>5. rIn * rOut * 1000 * 1000 <= D * (left * 1000)
  <2> DEFINE p == rIn * rOut * 1000
             q == D * left
  <2>1. p \in Nat /\ q \in Nat /\ p <= q
    BY <1>1, <1>2
  <2>2. D * (left * 1000) = q * 1000
    <3> HIDE DEF D, left
    <3> QED
      BY <1>2, Z3T(30)
  <2> HIDE DEF q
  <2> QED
    BY <2>1, <2>2
<1>6. D * (left * 1000) <= adjusted0 * adjusted1
  <2> HIDE DEF D, left, adjusted0, adjusted1
  <2>1. left * 1000 \in Nat
    BY <1>2
  <2> QED
    BY <1>2, <1>3, <1>4, <2>1, ProductsCompare
<1>7. AmountIn(bIn + x, rIn, 0) = bIn + x - rIn /\ AmountIn(bOut - y, rOut, y) = bOut - rOut
  BY <1>1 DEF AmountIn
<1>8. rIn * rOut * 1000 * 1000 <= adjusted0 * adjusted1
  <2>1. D * (left * 1000) \in Nat /\ adjusted0 * adjusted1 \in Nat /\ rIn * rOut * 1000 * 1000 \in Nat
    BY <1>2, <1>3, <1>4
  <2> HIDE DEF D, left, adjusted0, adjusted1
  <2> QED
    BY <1>5, <1>6, <2>1
<1> QED
  BY <1>1, <1>7, <1>8 DEF FEE, FEE_DENOMINATOR

\* getAmountIn rounds up far enough for getAmountOut to give the amount back.
LEMMA AmountInBuys ==
    ASSUME NEW y \in Nat \ {0}, NEW rIn \in Nat \ {0}, NEW rOut \in Nat, y < rOut
    PROVE  GetAmountOut(GetAmountIn(y, rIn, rOut), rIn, rOut) >= y
<1> DEFINE n == rIn * y * 1000
           d == (rOut - y) * 997
           x == n \div d + 1
           D == rIn * 1000 + x * 997
<1>1. n \in Nat /\ d \in Nat \ {0}
  OBVIOUS
<1>2. x \in Nat \ {0} /\ n <= x * d
  <2> HIDE DEF n, d
  <2>1. n \div d \in Nat /\ n < (n \div d) * d + d
    BY <1>1, DivBounds
  <2>2. (n \div d + 1) * d = (n \div d) * d + d
    BY <1>1, <2>1, Z3T(30)
  <2> QED
    BY <1>1, <2>1, <2>2
<1> HIDE DEF x
<1>3. x * d = x * 997 * rOut - y * (x * 997)
  BY <1>2, Z3T(30)
<1>4. y * D = n + y * (x * 997)
  BY <1>2, Z3T(30)
<1>5. y * D <= x * 997 * rOut
  BY <1>1, <1>2, <1>3, <1>4, Z3T(30)
<1>6. x * 997 * rOut \in Nat /\ D \in Nat \ {0}
  BY <1>2
<1>7. y <= (x * 997 * rOut) \div D
  <2> HIDE DEF D
  <2> QED
    BY <1>5, <1>6, DivAtLeast
<1> QED
  BY <1>7 DEF x, GetAmountOut, GetAmountIn, FEE, FEE_DENOMINATOR

-----------------------------------------------------------------------------
(***************************************************************************)
(* The invariant, kept by each operation of the pair for any holdings that *)
(* an earlier part of the transaction may have left.                       *)
(***************************************************************************)
CoveredInv ==
    /\ token0 \in [Holder -> Nat] /\ token1 \in [Holder -> Nat]
    /\ reserve0 \in Nat /\ reserve1 \in Nat
    /\ totalSupply \in Nat
    /\ balanceOf \in [ShareHolder -> Nat]
    /\ reserve0 <= token0[Pair] /\ reserve1 <= token1[Pair]

Incoming(h0, h1) ==
    /\ h0 \in [Holder -> Nat] /\ h1 \in [Holder -> Nat]
    /\ reserve0 <= h0[Pair] /\ reserve1 <= h1[Pair]

\* A step that touches neither reserves nor supply.
Quiet ==
    /\ token0' \in [Holder -> Nat] /\ token1' \in [Holder -> Nat]
    /\ token0[Pair] <= token0'[Pair] /\ token1[Pair] <= token1'[Pair]
    /\ balanceOf' \in [ShareHolder -> Nat]
    /\ SumFunction(balanceOf') = SumFunction(balanceOf)
    /\ UNCHANGED <<reserve0, reserve1, totalSupply>>

LEMMA PairIsHolder == Pair \in Holder /\ Account \subseteq Holder /\ Holder \subseteq ShareHolder /\ Dead \in ShareHolder
BY DEF Holder, ShareHolder

LEMMA TokensMove ==
    ASSUME NEW h \in [Holder -> Nat], NEW a \in Holder, NEW b \in Holder,
           NEW x \in Nat, x <= h[a]
    PROVE  /\ Moved(h, a, b, x) \in [Holder -> Nat]
           /\ a # b => Moved(h, a, b, x)[a] = h[a] - x /\ Moved(h, a, b, x)[b] = h[b] + x
BY DEF Moved

LEMMA SharesMove ==
    ASSUME NEW h \in [ShareHolder -> Nat], NEW a \in ShareHolder, NEW b \in ShareHolder,
           NEW x \in Nat, x <= h[a]
    PROVE  Moved(h, a, b, x) \in [ShareHolder -> Nat]
BY DEF Moved

LEMMA ShareHoldersFinite == IsFiniteSet(ShareHolder)
<1>1. IsFiniteSet(Account \cup {Pair})
  BY PairParameters, FS_AddElement
<1> QED
  BY <1>1, FS_AddElement DEF ShareHolder, Holder

\* One balance changed changes the sum by as much.
LEMMA BalanceChanged ==
    ASSUME NEW h \in [ShareHolder -> Nat], NEW g \in [ShareHolder -> Nat],
           NEW a \in ShareHolder, NEW x \in Int, g[a] = h[a] + x,
           \A b \in ShareHolder \ {a} : g[b] = h[b]
    PROVE  SumFunction(g) = SumFunction(h) + x /\ SumFunction(h) \in Nat
<1>1. g \in [ShareHolder -> Int] /\ h \in [ShareHolder -> Int]
  OBVIOUS
<1>2. SumFunction(h) \in Nat
  BY ShareHoldersFinite, SumNat
<1>3. SumFunction(g) = SumFunction(h) + g[a] - h[a]
  BY <1>1, ShareHoldersFinite, SumUpdate
<1> QED
  BY <1>2, <1>3

LEMMA MovedKeepsSum ==
    ASSUME NEW h \in [ShareHolder -> Nat], NEW a \in ShareHolder, NEW b \in ShareHolder,
           NEW x \in Nat, x <= h[a]
    PROVE  SumFunction(Moved(h, a, b, x)) = SumFunction(h)
<1>1. CASE a = b
  <2>1. Moved(h, a, b, x) \in [ShareHolder -> Nat]
    BY SharesMove
  <2>2. (h[a] - x) + x = h[a]
    OBVIOUS
  <2> DEFINE g == [h EXCEPT ![a] = h[a] - x]
  <2>3. \A c \in ShareHolder : Moved(h, a, b, x)[c] = h[c]
    <3>1. Moved(h, a, b, x) = [g EXCEPT ![a] = g[a] + x]
      BY <1>1 DEF Moved
    <3>2. /\ DOMAIN g = ShareHolder /\ g[a] = h[a] - x
          /\ \A c \in ShareHolder \ {a} : g[c] = h[c]
      OBVIOUS
    <3> HIDE DEF g
    <3> QED
      BY <2>2, <3>1, <3>2
  <2>4. Moved(h, a, b, x) = h
    BY <2>1, <2>3
  <2> QED
    BY <2>4
<1>2. CASE a # b
  <2> DEFINE minus == -x
             g == [h EXCEPT ![a] = h[a] - x]
             f == Moved(h, a, b, x)
  <2>1. minus \in Int /\ h[a] - x = h[a] + minus /\ h[a] - x \in Nat
    OBVIOUS
  <2>2. /\ g \in [ShareHolder -> Nat] /\ g[a] = h[a] - x
        /\ \A c \in ShareHolder \ {a} : g[c] = h[c]
    BY <2>1
  <2>3. /\ f \in [ShareHolder -> Nat] /\ f[b] = g[b] + x
        /\ \A c \in ShareHolder \ {b} : f[c] = g[c]
    BY <1>2, SharesMove DEF Moved
  <2> HIDE DEF minus, g, f
  <2>4. SumFunction(g) = SumFunction(h) + minus /\ SumFunction(h) \in Nat
    BY <2>1, <2>2, BalanceChanged
  <2>5. SumFunction(f) = SumFunction(g) + x
    BY <2>2, <2>3, BalanceChanged
  <2>6. SumFunction(f) = SumFunction(h)
    BY <2>4, <2>5 DEF minus
  <2> QED
    BY <2>6 DEF f
<1> QED
  BY <1>1, <1>2

\* Every step is a call of the pair or touches neither reserves nor supply; shares move,
\* and the sum of them all stays the same until the pair mints or burns.
LEMMA StepShape ==
    ASSUME CoveredInv, [Next]_vars
    PROVE  \/ Quiet
           \/ \E a \in Account, h0 \in [Holder -> Nat], h1 \in [Holder -> Nat] :
                 /\ Incoming(h0, h1)
                 /\ \/ Mint(h0, h1, a)
                    \/ \E shares \in [ShareHolder -> Nat] :
                          Burn(h0, h1, shares, a) /\ SumFunction(shares) = SumFunction(balanceOf)
                    \/ \E out0, out1 \in Nat : Swap(h0, h1, out0, out1, a)
<1> USE PairIsHolder, PairParameters, RouterParameters
<1> DEFINE PairCall == \E a \in Account, h0 \in [Holder -> Nat], h1 \in [Holder -> Nat] :
                 /\ Incoming(h0, h1)
                 /\ \/ Mint(h0, h1, a)
                    \/ \E shares \in [ShareHolder -> Nat] :
                          Burn(h0, h1, shares, a) /\ SumFunction(shares) = SumFunction(balanceOf)
                    \/ \E out0, out1 \in Nat : Swap(h0, h1, out0, out1, a)
<1>1. ASSUME UNCHANGED vars PROVE Quiet
  BY <1>1 DEF vars, pairVars, poolVars, CoveredInv, Quiet
<1>2. ASSUME NEW a \in Account, NEW x \in Amounts, NEW minimum \in Amounts \cup {0},
             SwapExactToken0(a, x, minimum)
      PROVE  PairCall
  <2> DEFINE out == GetAmountOut(x, reserve0, reserve1)
  <2>1. x \in Nat /\ x <= token0[a] /\ a # Pair
    BY <1>2 DEF SwapExactToken0
  <2>2. Moved(token0, a, Pair, x) \in [Holder -> Nat] /\ Moved(token0, a, Pair, x)[Pair] = token0[Pair] + x
    BY <2>1, TokensMove DEF CoveredInv
  <2>3. out \in Nat
    BY <1>2, <2>1, QuoteKeepsProduct DEF SwapExactToken0, CoveredInv
  <2>4. Incoming(Moved(token0, a, Pair, x), token1)
    BY <2>1, <2>2 DEF Incoming, CoveredInv
  <2>5. Swap(Moved(token0, a, Pair, x), token1, 0, out, a)
    BY <1>2 DEF SwapExactToken0
  <2> HIDE DEF out
  <2> QED
    BY <2>2, <2>3, <2>4, <2>5 DEF CoveredInv
<1>3. ASSUME NEW a \in Account, NEW x \in Amounts, NEW minimum \in Amounts \cup {0},
             SwapExactToken1(a, x, minimum)
      PROVE  PairCall
  <2> DEFINE out == GetAmountOut(x, reserve1, reserve0)
  <2>1. x \in Nat /\ x <= token1[a] /\ a # Pair
    BY <1>3 DEF SwapExactToken1
  <2>2. Moved(token1, a, Pair, x) \in [Holder -> Nat] /\ Moved(token1, a, Pair, x)[Pair] = token1[Pair] + x
    BY <2>1, TokensMove DEF CoveredInv
  <2>3. out \in Nat
    BY <1>3, <2>1, QuoteKeepsProduct DEF SwapExactToken1, CoveredInv
  <2>4. Incoming(token0, Moved(token1, a, Pair, x))
    BY <2>1, <2>2 DEF Incoming, CoveredInv
  <2>5. Swap(token0, Moved(token1, a, Pair, x), out, 0, a)
    BY <1>3 DEF SwapExactToken1
  <2> HIDE DEF out
  <2> QED
    BY <2>2, <2>3, <2>4, <2>5 DEF CoveredInv
<1>4. ASSUME NEW a \in Account, NEW x0 \in Amounts, NEW x1 \in Amounts,
             NEW minimum \in Amounts \cup {0}, AddLiquidity(a, x0, x1, minimum)
      PROVE  PairCall
  <2> DEFINE t0 == Taken(x0, x1)[1]
             t1 == Taken(x0, x1)[2]
  <2>0. (reserve0 = 0 /\ reserve1 = 0) \/ (reserve0 > 0 /\ reserve1 > 0)
    <3>1. reserve0 = 0 <=> reserve1 = 0
      BY <1>4 DEF AddLiquidity
    <3> QED
      BY <3>1 DEF CoveredInv
  <2>1. t0 \in Nat /\ t1 \in Nat /\ a # Pair
    <3>1. ASSUME NEW b \in Nat, NEW q \in Nat \ {0}, NEW p \in Nat PROVE Quote(b, q, p) \in Nat
      <4>1. b * p \in Nat
        OBVIOUS
      <4> QED
        BY <4>1, DivBounds DEF Quote
    <3>2. x0 \in Nat /\ x1 \in Nat
      OBVIOUS
    <3>3. CASE reserve0 = 0 /\ reserve1 = 0
      BY <3>2, <3>3 DEF Taken
    <3>4. CASE reserve0 > 0 /\ reserve1 > 0
      <4>1. Quote(x0, reserve0, reserve1) \in Nat /\ Quote(x1, reserve1, reserve0) \in Nat
        BY <3>1, <3>2, <3>4 DEF CoveredInv
      <4> QED
        BY <3>2, <3>4, <4>1 DEF Taken
    <3> QED
      BY <2>0, <3>3, <3>4
  <2>2. t0 <= token0[a] /\ t1 <= token1[a]
    BY <1>4 DEF AddLiquidity
  <2>3. Mint(Moved(token0, a, Pair, t0), Moved(token1, a, Pair, t1), a)
    BY <1>4 DEF AddLiquidity
  <2> HIDE DEF t0, t1
  <2>4. /\ Moved(token0, a, Pair, t0) \in [Holder -> Nat]
        /\ Moved(token0, a, Pair, t0)[Pair] = token0[Pair] + t0
        /\ Moved(token1, a, Pair, t1) \in [Holder -> Nat]
        /\ Moved(token1, a, Pair, t1)[Pair] = token1[Pair] + t1
    BY <2>1, <2>2, TokensMove DEF CoveredInv
  <2>5. Incoming(Moved(token0, a, Pair, t0), Moved(token1, a, Pair, t1))
    BY <2>1, <2>4 DEF Incoming, CoveredInv
  <2> QED
    BY <2>3, <2>4, <2>5
<1>5. Incoming(token0, token1) /\ token0 \in [Holder -> Nat] /\ token1 \in [Holder -> Nat]
  BY DEF Incoming, CoveredInv
<1>6. ASSUME NEW a \in Account, NEW s \in 1..totalSupply, NEW minimum \in Amounts \cup {0},
             RemoveLiquidity(a, s, minimum)
      PROVE  PairCall
  <2>1. Moved(balanceOf, a, Pair, s) \in [ShareHolder -> Nat]
    BY <1>6, SharesMove DEF RemoveLiquidity, CoveredInv
  <2>2. SumFunction(Moved(balanceOf, a, Pair, s)) = SumFunction(balanceOf)
    BY <1>6, MovedKeepsSum DEF RemoveLiquidity, CoveredInv
  <2> QED
    BY <1>5, <1>6, <2>1, <2>2 DEF RemoveLiquidity
<1>7. ASSUME NEW a \in Account, NEW x \in Amounts, SendToPair(a, x, 0) \/ SendToPair(a, 0, x)
      PROVE  Quiet
  <2>1. ASSUME NEW x0 \in Nat, NEW x1 \in Nat, SendToPair(a, x0, x1) PROVE Quiet
    <3>1. a # Pair /\ x0 <= token0[a] /\ x1 <= token1[a]
      BY <2>1 DEF SendToPair
    <3> QED
      BY <2>1, <3>1, TokensMove DEF SendToPair, Quiet, CoveredInv, poolVars
  <2> QED
    BY <1>7, <2>1
<1>8. ASSUME NEW a \in Account, NEW s \in 1..totalSupply, NEW b \in Account \cup {Pair},
             ShareTransfer(a, b, s)
      PROVE  Quiet
  <2>1. Moved(balanceOf, a, b, s) \in [ShareHolder -> Nat]
    BY <1>8, SharesMove DEF ShareTransfer, CoveredInv
  <2>2. SumFunction(Moved(balanceOf, a, b, s)) = SumFunction(balanceOf)
    BY <1>8, MovedKeepsSum DEF ShareTransfer, CoveredInv
  <2> QED
    BY <1>8, <2>1, <2>2 DEF ShareTransfer, Quiet, CoveredInv
<1>9. ASSUME NEW a \in Account, Mint(token0, token1, a) PROVE PairCall
  BY <1>5, <1>9
<1>10. ASSUME NEW a \in Account, Burn(token0, token1, balanceOf, a) PROVE PairCall
  BY <1>5, <1>10 DEF CoveredInv
<1>11. ASSUME NEW a \in Account, NEW x0 \in Amounts \cup {0}, NEW x1 \in Amounts \cup {0},
              Swap(token0, token1, x0, x1, a)
       PROVE  PairCall
  BY <1>5, <1>11
<1> QED
  <2> HIDE DEF PairCall
  <2>1. ASSUME NEW a \in Account, RouterCall(a) PROVE PairCall
    BY <2>1, <1>2, <1>3, <1>4, <1>6 DEF RouterCall
  <2>2. ASSUME NEW a \in Account, DirectCall(a) PROVE Quiet \/ PairCall
    BY <2>2, <1>7, <1>8, <1>9, <1>10, <1>11 DEF DirectCall
  <2>3. Quiet \/ PairCall
    BY <1>1, <2>1, <2>2 DEF Next
  <2> QED
    BY <2>3 DEF PairCall

LEMMA QuietKeeps ==
    ASSUME CoveredInv, Quiet
    PROVE  CoveredInv'
BY PairIsHolder DEF CoveredInv, Quiet

LEMMA MintKeeps ==
    ASSUME CoveredInv, NEW a \in Account, NEW h0, NEW h1, Incoming(h0, h1), Mint(h0, h1, a)
    PROVE  CoveredInv'
<1> DEFINE amount0 == h0[Pair] - reserve0
           amount1 == h1[Pair] - reserve1
           l == Liquidity(amount0, amount1)
<1>1. l \in Nat /\ Minted(a, l) /\ Synced(h0, h1)
  BY DEF Mint
<1> HIDE DEF l
<1>2. totalSupply' \in Nat /\ balanceOf' \in [ShareHolder -> Nat]
  BY <1>1, PairIsHolder, PairParameters DEF CoveredInv, Minted
<1>3. /\ token0' \in [Holder -> Nat] /\ token1' \in [Holder -> Nat]
      /\ reserve0' = token0'[Pair] /\ reserve1' = token1'[Pair]
  BY <1>1 DEF Synced, Incoming
<1> QED
  BY <1>2, <1>3, PairIsHolder DEF CoveredInv

\* After a payout that the pool can afford.
LEMMA SyncedKeeps ==
    ASSUME NEW a \in Account, NEW h0 \in [Holder -> Nat], NEW h1 \in [Holder -> Nat],
           NEW x0 \in Nat, NEW x1 \in Nat, x0 <= h0[Pair], x1 <= h1[Pair],
           Synced(Moved(h0, Pair, a, x0), Moved(h1, Pair, a, x1))
    PROVE  /\ token0' \in [Holder -> Nat] /\ token1' \in [Holder -> Nat]
           /\ reserve0' = token0'[Pair] /\ reserve1' = token1'[Pair]
           /\ reserve0' = h0[Pair] - x0 /\ reserve1' = h1[Pair] - x1
           /\ reserve0' \in Nat /\ reserve1' \in Nat
<1> USE PairIsHolder, PairParameters
<1>1. a # Pair
  OBVIOUS
<1>2. /\ Moved(h0, Pair, a, x0) \in [Holder -> Nat] /\ Moved(h0, Pair, a, x0)[Pair] = h0[Pair] - x0
      /\ Moved(h1, Pair, a, x1) \in [Holder -> Nat] /\ Moved(h1, Pair, a, x1)[Pair] = h1[Pair] - x1
  BY <1>1, TokensMove
<1> QED
  BY <1>2 DEF Synced

LEMMA BurnKeeps ==
    ASSUME CoveredInv, NEW a \in Account, NEW h0, NEW h1, Incoming(h0, h1),
           NEW shares \in [ShareHolder -> Nat], Burn(h0, h1, shares, a)
    PROVE  CoveredInv'
<1> DEFINE x0 == (shares[Pair] * h0[Pair]) \div totalSupply
           x1 == (shares[Pair] * h1[Pair]) \div totalSupply
<1>1. /\ x0 \in 1..h0[Pair] /\ x1 \in 1..h1[Pair]
      /\ Synced(Moved(h0, Pair, a, x0), Moved(h1, Pair, a, x1))
      /\ balanceOf' = [shares EXCEPT ![Pair] = 0]
      /\ totalSupply' = totalSupply - shares[Pair]
      /\ shares[Pair] <= totalSupply
  BY DEF Burn
<1> HIDE DEF x0, x1
<1>2. /\ token0' \in [Holder -> Nat] /\ token1' \in [Holder -> Nat]
      /\ reserve0' = token0'[Pair] /\ reserve1' = token1'[Pair]
  BY <1>1, SyncedKeeps DEF Incoming
<1>3. balanceOf' \in [ShareHolder -> Nat] /\ totalSupply' \in Nat
  BY <1>1, PairIsHolder DEF CoveredInv
<1> QED
  BY <1>2, <1>3, PairIsHolder DEF CoveredInv

LEMMA SwapKeeps ==
    ASSUME CoveredInv, NEW a \in Account, NEW h0, NEW h1, Incoming(h0, h1),
           NEW out0 \in Nat, NEW out1 \in Nat, Swap(h0, h1, out0, out1, a)
    PROVE  CoveredInv'
<1>1. /\ out0 < reserve0 /\ out1 < reserve1
      /\ Synced(Moved(h0, Pair, a, out0), Moved(h1, Pair, a, out1))
      /\ UNCHANGED <<totalSupply, balanceOf>>
  BY DEF Swap, SwapAllowed
<1>2. out0 <= h0[Pair] /\ out1 <= h1[Pair]
  BY <1>1, PairIsHolder DEF Incoming, CoveredInv
<1>3. /\ token0' \in [Holder -> Nat] /\ token1' \in [Holder -> Nat]
      /\ reserve0' = token0'[Pair] /\ reserve1' = token1'[Pair]
  BY <1>1, <1>2, SyncedKeeps DEF Incoming
<1> QED
  BY <1>1, <1>3, PairIsHolder DEF CoveredInv

LEMMA InitCovered == Init => CoveredInv
BY PairParameters, PairIsHolder DEF Init, PairInit, CoveredInv

LEMMA CoveredAlways == Spec => []CoveredInv
<1>1. CoveredInv /\ [Next]_vars => CoveredInv'
  BY StepShape, QuietKeeps, MintKeeps, BurnKeeps, SwapKeeps
<1> QED
  BY <1>1, InitCovered, PTL DEF Spec

\* Whatever users do, a trade at the price the router quotes is accepted by the
\* pair, for any amounts and any size of the pool.
THEOREM QuotesAccepted == Spec => []QuoteHonoured
<1>1. ASSUME CoveredInv PROVE QuoteHonoured
  <2> SUFFICES ASSUME NEW x \in Amounts \ {0}, reserve0 > 0, reserve1 > 0
               PROVE  LET out0 == GetAmountOut(x, reserve1, reserve0)
                          out1 == GetAmountOut(x, reserve0, reserve1)
                      IN  /\ out1 > 0 => SwapAllowed(token0[Pair] + x, token1[Pair] - out1, 0, out1)
                          /\ out0 > 0 => SwapAllowed(token0[Pair] - out0, token1[Pair] + x, out0, 0)
    BY DEF QuoteHonoured
  <2> DEFINE out0 == GetAmountOut(x, reserve1, reserve0)
             out1 == GetAmountOut(x, reserve0, reserve1)
  <2>1. /\ x \in Nat \ {0} /\ reserve0 \in Nat \ {0} /\ reserve1 \in Nat \ {0}
        /\ token0[Pair] \in Nat /\ token1[Pair] \in Nat
        /\ reserve0 <= token0[Pair] /\ reserve1 <= token1[Pair]
    BY <1>1, RouterParameters, PairIsHolder DEF CoveredInv
  <2>2. out1 > 0 => SwapAllowed(token0[Pair] + x, token1[Pair] - out1, 0, out1)
    <3> HIDE DEF out1
    <3>1. LET in0 == AmountIn(token0[Pair] + x, reserve0, 0)
              in1 == AmountIn(token1[Pair] - out1, reserve1, out1)
          IN  /\ out1 \in Nat /\ out1 < reserve1
              /\ in0 > 0
              /\ reserve0 * reserve1 * FEE_DENOMINATOR * FEE_DENOMINATOR
                   <= ((token0[Pair] + x) * FEE_DENOMINATOR - in0 * FEE)
                        * ((token1[Pair] - out1) * FEE_DENOMINATOR - in1 * FEE)
      BY <2>1, QuoteAllowed DEF out1
    <3> QED
      BY <2>1, <3>1, Z3 DEF SwapAllowed
  <2>3. out0 > 0 => SwapAllowed(token0[Pair] - out0, token1[Pair] + x, out0, 0)
    <3> HIDE DEF out0
    <3>1. LET in1 == AmountIn(token1[Pair] + x, reserve1, 0)
              in0 == AmountIn(token0[Pair] - out0, reserve0, out0)
          IN  /\ out0 \in Nat /\ out0 < reserve0
              /\ in1 > 0
              /\ reserve1 * reserve0 * FEE_DENOMINATOR * FEE_DENOMINATOR
                   <= ((token1[Pair] + x) * FEE_DENOMINATOR - in1 * FEE)
                        * ((token0[Pair] - out0) * FEE_DENOMINATOR - in0 * FEE)
      BY <2>1, QuoteAllowed DEF out0
    <3> DEFINE A == (token1[Pair] + x) * FEE_DENOMINATOR - AmountIn(token1[Pair] + x, reserve1, 0) * FEE
               B == (token0[Pair] - out0) * FEE_DENOMINATOR
                      - AmountIn(token0[Pair] - out0, reserve0, out0) * FEE
    <3>2. A \in Int /\ B \in Int
      BY <2>1, <3>1 DEF AmountIn, FEE, FEE_DENOMINATOR
    <3>3. A * B = B * A
      <4> HIDE DEF A, B
      <4> QED
        BY <3>2, Z3
    <3>4. reserve1 * reserve0 = reserve0 * reserve1
      BY <2>1, Z3
    <3>5. B * A >= reserve0 * reserve1 * FEE_DENOMINATOR * FEE_DENOMINATOR
      <4>1. reserve0 * reserve1 * FEE_DENOMINATOR * FEE_DENOMINATOR <= A * B
        BY <3>1, <3>4
      <4> HIDE DEF A, B
      <4>2. A * B \in Int /\ reserve0 * reserve1 * FEE_DENOMINATOR * FEE_DENOMINATOR \in Int
        BY <2>1, <3>2 DEF FEE_DENOMINATOR
      <4> QED
        BY <3>3, <4>1, <4>2
    <3> QED
      BY <3>1, <3>5 DEF SwapAllowed
  <2> QED
    BY <2>2, <2>3
<1> QED
  BY <1>1, CoveredAlways, PTL

\* The amount getAmountIn asks for is enough, for any amounts and reserves.
THEOREM AmountInEnough == Spec => []AmountInSuffices
<1>1. CoveredInv => AmountInSuffices
  BY AmountInBuys, RouterParameters DEF CoveredInv, AmountInSuffices
<1> QED
  BY <1>1, CoveredAlways, PTL

-----------------------------------------------------------------------------
(***************************************************************************)
(* The value of a share.  Per token, each operation keeps reserve per      *)
(* share; a swap keeps the product of the reserves.                        *)
(***************************************************************************)
LEMMA SharesCompare ==
    ASSUME NEW a \in Nat, NEW b \in Nat, NEW c \in Nat, NEW d \in Nat,
           NEW s \in Nat, NEW t \in Nat, c * t <= a * s, d * t <= b * s
    PROVE  c * d * t * t <= a * b * s * s
<1>1. (c * t) * (d * t) <= (a * s) * (b * s)
  <2>1. c * t \in Nat /\ d * t \in Nat /\ a * s \in Nat /\ b * s \in Nat
    OBVIOUS
  <2> QED
    BY <2>1, ProductsCompare
<1>2. (c * t) * (d * t) = c * d * t * t
  BY Z3T(30)
<1>3. (a * s) * (b * s) = a * b * s * s
  BY Z3T(30)
<1> QED
  BY <1>1, <1>2, <1>3

\* One token of a deposit.
LEMMA DepositShare ==
    ASSUME NEW r \in Nat \ {0}, NEW amount \in Nat, NEW S \in Nat, NEW l \in Nat,
           l <= (amount * S) \div r
    PROVE  r * (S + l) <= (r + amount) * S
<1> DEFINE n == amount * S
           q == n \div r
<1>1. n \in Nat
  OBVIOUS
<1>2. q \in Nat /\ q * r <= n
  <2> HIDE DEF n
  <2> QED
    BY <1>1, DivBounds
<1> HIDE DEF q
<1>3. l * r <= q * r
  BY <1>2, ProductsCompare DEF q
<1>4. r * (S + l) = r * S + l * r /\ (r + amount) * S = r * S + n
  BY Z3T(30)
<1>5. r * S \in Nat /\ l * r \in Nat /\ q * r \in Nat
  BY <1>2
<1> HIDE DEF n
<1> QED
  BY <1>1, <1>2, <1>3, <1>4, <1>5

\* One token of a withdrawal, from a balance b of at least the reserve.
LEMMA WithdrawalShare ==
    ASSUME NEW r \in Nat, NEW b \in Nat, r <= b, NEW S \in Nat \ {0}, NEW l \in Nat, l <= S
    PROVE  r * (S - l) <= (b - (l * b) \div S) * S
<1> DEFINE n == l * b
           q == n \div S
<1>1. n \in Nat
  OBVIOUS
<1>2. q \in Nat /\ q * S <= n
  <2> HIDE DEF n
  <2> QED
    BY <1>1, DivBounds
<1> HIDE DEF q
<1>3. (b - q) * S = b * S - q * S /\ b * (S - l) = b * S - n
  BY <1>2, Z3T(30)
<1>4. r * (S - l) <= b * (S - l)
  BY ProductsCompare
<1>5. b * S \in Nat /\ q * S \in Nat /\ r * (S - l) \in Int /\ b * (S - l) \in Int
  BY <1>2
<1>6. r * (S - l) <= (b - q) * S
  <2> HIDE DEF n
  <2> QED
    BY <1>1, <1>2, <1>3, <1>4, <1>5
<1> QED
  BY <1>6 DEF q

\* The product with the fee taken out is at most the product.
LEMMA FeeTaken ==
    ASSUME NEW b0 \in Nat, NEW b1 \in Nat, NEW in0 \in 0..b0, NEW in1 \in 0..b1, NEW k \in Nat,
           k * 1000 * 1000 <= (b0 * 1000 - in0 * 3) * (b1 * 1000 - in1 * 3)
    PROVE  k <= b0 * b1
<1> DEFINE A == b0 * 1000 - in0 * 3
           B == b1 * 1000 - in1 * 3
<1>1. A \in Nat /\ A <= b0 * 1000 /\ B \in Nat /\ B <= b1 * 1000
  OBVIOUS
<1>2. A * B <= (b0 * 1000) * (b1 * 1000)
  <2> HIDE DEF A, B
  <2>1. b0 * 1000 \in Nat /\ b1 * 1000 \in Nat
    OBVIOUS
  <2> QED
    BY <1>1, <2>1, ProductsCompare
<1>3. (b0 * 1000) * (b1 * 1000) = (b0 * b1) * 1000 * 1000
  BY Z3T(30)
<1>4. A * B \in Nat /\ b0 * b1 \in Nat
  BY <1>1
<1>5. k * 1000 * 1000 <= A * B
  OBVIOUS
<1> HIDE DEF A, B
<1> QED
  BY <1>2, <1>3, <1>4, <1>5

ShareKept ==
    totalSupply > 0 =>
        reserve0' * reserve1' * totalSupply * totalSupply
          >= reserve0 * reserve1 * totalSupply' * totalSupply'

LEMMA MintShare ==
    ASSUME CoveredInv, NEW a \in Account, NEW h0 \in [Holder -> Nat], NEW h1 \in [Holder -> Nat],
           Incoming(h0, h1), Mint(h0, h1, a), totalSupply > 0
    PROVE  /\ reserve0 * totalSupply' <= reserve0' * totalSupply
           /\ reserve1 * totalSupply' <= reserve1' * totalSupply
<1> DEFINE amount0 == h0[Pair] - reserve0
           amount1 == h1[Pair] - reserve1
           l == Liquidity(amount0, amount1)
<1>1. amount0 \in Nat /\ amount1 \in Nat
  BY PairIsHolder DEF Incoming, CoveredInv
<1>2. /\ l \in Nat
      /\ reserve0 > 0 /\ reserve1 > 0
      /\ totalSupply' = totalSupply + l + 0
      /\ reserve0' = h0[Pair] /\ reserve1' = h1[Pair]
  BY DEF Mint, Minted, Synced
<1> DEFINE s0 == (amount0 * totalSupply) \div reserve0
           s1 == (amount1 * totalSupply) \div reserve1
<1>3. l = Smaller(s0, s1)
  BY DEF Liquidity
<1>4. s0 \in Nat /\ s1 \in Nat
  <2>1. amount0 * totalSupply \in Nat /\ amount1 * totalSupply \in Nat
    BY <1>1 DEF CoveredInv
  <2> HIDE DEF amount0, amount1
  <2> QED
    BY <1>2, <2>1, DivBounds DEF CoveredInv
<1>5. l <= s0 /\ l <= s1
  <2> HIDE DEF s0, s1, l
  <2> QED
    BY <1>3, <1>4 DEF Smaller
<1>6. reserve0' = reserve0 + amount0 /\ reserve1' = reserve1 + amount1 /\ totalSupply' = totalSupply + l
  <2> HIDE DEF l
  <2> QED
    BY <1>2, PairIsHolder DEF CoveredInv
<1>7. /\ reserve0 * (totalSupply + l) <= (reserve0 + amount0) * totalSupply
      /\ reserve1 * (totalSupply + l) <= (reserve1 + amount1) * totalSupply
  <2> HIDE DEF amount0, amount1, l
  <2> QED
    BY <1>1, <1>2, <1>5, DepositShare DEF CoveredInv
<1> QED
  BY <1>6, <1>7

LEMMA BurnShare ==
    ASSUME CoveredInv, NEW a \in Account, NEW h0 \in [Holder -> Nat], NEW h1 \in [Holder -> Nat],
           Incoming(h0, h1), NEW shares \in [ShareHolder -> Nat], Burn(h0, h1, shares, a)
    PROVE  /\ reserve0 * totalSupply' <= reserve0' * totalSupply
           /\ reserve1 * totalSupply' <= reserve1' * totalSupply
<1> DEFINE l == shares[Pair]
           x0 == (l * h0[Pair]) \div totalSupply
           x1 == (l * h1[Pair]) \div totalSupply
<1>1. /\ x0 \in 1..h0[Pair] /\ x1 \in 1..h1[Pair]
      /\ Synced(Moved(h0, Pair, a, x0), Moved(h1, Pair, a, x1))
      /\ totalSupply' = totalSupply - l
      /\ l <= totalSupply /\ totalSupply > 0
  BY DEF Burn
<1>2. /\ l \in Nat /\ h0[Pair] \in Nat /\ h1[Pair] \in Nat
      /\ reserve0 \in Nat /\ reserve1 \in Nat /\ totalSupply \in Nat \ {0}
      /\ reserve0 <= h0[Pair] /\ reserve1 <= h1[Pair]
  BY <1>1, PairIsHolder DEF CoveredInv, Incoming
<1>3. reserve0' = h0[Pair] - x0 /\ reserve1' = h1[Pair] - x1
  <2> HIDE DEF x0, x1
  <2> QED
    BY <1>1, SyncedKeeps
<1>4. /\ reserve0 * (totalSupply - l) <= (h0[Pair] - x0) * totalSupply
      /\ reserve1 * (totalSupply - l) <= (h1[Pair] - x1) * totalSupply
  <2> HIDE DEF l
  <2> QED
    BY <1>1, <1>2, WithdrawalShare
<1> QED
  BY <1>1, <1>3, <1>4

LEMMA SwapProduct ==
    ASSUME CoveredInv, NEW a \in Account, NEW h0 \in [Holder -> Nat], NEW h1 \in [Holder -> Nat],
           Incoming(h0, h1), NEW out0 \in Nat, NEW out1 \in Nat, Swap(h0, h1, out0, out1, a)
    PROVE  reserve0 * reserve1 <= reserve0' * reserve1' /\ totalSupply' = totalSupply
<1> DEFINE b0 == h0[Pair] - out0
           b1 == h1[Pair] - out1
           in0 == AmountIn(b0, reserve0, out0)
           in1 == AmountIn(b1, reserve1, out1)
<1>1. /\ out0 < reserve0 /\ out1 < reserve1
      /\ Synced(Moved(h0, Pair, a, out0), Moved(h1, Pair, a, out1))
      /\ totalSupply' = totalSupply
      /\ (b0 * 1000 - in0 * 3) * (b1 * 1000 - in1 * 3) >= reserve0 * reserve1 * 1000 * 1000
  BY DEF Swap, SwapAllowed, FEE, FEE_DENOMINATOR
<1>2. /\ reserve0 \in Nat /\ reserve1 \in Nat /\ h0[Pair] \in Nat /\ h1[Pair] \in Nat
      /\ out0 <= h0[Pair] /\ out1 <= h1[Pair]
  BY <1>1, PairIsHolder DEF CoveredInv, Incoming
<1>3. b0 \in Nat /\ b1 \in Nat /\ in0 \in 0..b0 /\ in1 \in 0..b1
  BY <1>1, <1>2 DEF AmountIn
<1>4. reserve0' = b0 /\ reserve1' = b1
  BY <1>1, <1>2, SyncedKeeps
<1>5. reserve0 * reserve1 <= b0 * b1
  <2>1. reserve0 * reserve1 \in Nat
    BY <1>2
  <2> HIDE DEF b0, b1, in0, in1
  <2>2. reserve0 * reserve1 * 1000 * 1000 <= (b0 * 1000 - in0 * 3) * (b1 * 1000 - in1 * 3)
    <3>1. (b0 * 1000 - in0 * 3) * (b1 * 1000 - in1 * 3) \in Int /\ reserve0 * reserve1 * 1000 * 1000 \in Int
      BY <1>2, <1>3
    <3> QED
      BY <1>1, <3>1
  <2> QED
    BY <1>3, <2>1, <2>2, FeeTaken
<1> QED
  BY <1>1, <1>4, <1>5

LEMMA StepKeepsShare ==
    ASSUME CoveredInv, CoveredInv', [Next]_vars
    PROVE  ShareKept
<1>1. /\ reserve0 \in Nat /\ reserve1 \in Nat /\ totalSupply \in Nat
      /\ reserve0' \in Nat /\ reserve1' \in Nat /\ totalSupply' \in Nat
  BY DEF CoveredInv
<1>2. ASSUME /\ reserve0 * totalSupply' <= reserve0' * totalSupply
             /\ reserve1 * totalSupply' <= reserve1' * totalSupply
      PROVE  ShareKept
  <2>1. reserve0 * reserve1 * totalSupply' * totalSupply' <= reserve0' * reserve1' * totalSupply * totalSupply
    BY <1>1, <1>2, SharesCompare
  <2>2. /\ reserve0 * reserve1 * totalSupply' * totalSupply' \in Int
        /\ reserve0' * reserve1' * totalSupply * totalSupply \in Int
    BY <1>1
  <2> QED
    BY <2>1, <2>2 DEF ShareKept
<1>3. ASSUME reserve0 * reserve1 <= reserve0' * reserve1', totalSupply' = totalSupply
      PROVE  ShareKept
  <2>0. ASSUME NEW m \in Nat, NEW n \in Nat PROVE m * n \in Nat
    OBVIOUS
  <2>1. reserve0 * reserve1 \in Nat /\ reserve0' * reserve1' \in Nat /\ totalSupply * totalSupply \in Nat
    BY <1>1, <2>0
  <2>2. (reserve0 * reserve1) * (totalSupply * totalSupply)
          <= (reserve0' * reserve1') * (totalSupply * totalSupply)
    BY <1>3, <2>1, ProductsCompare
  <2>3. /\ (reserve0 * reserve1) * (totalSupply * totalSupply) = reserve0 * reserve1 * totalSupply * totalSupply
        /\ (reserve0' * reserve1') * (totalSupply * totalSupply) = reserve0' * reserve1' * totalSupply * totalSupply
    BY <1>1, Z3T(30)
  <2>4. /\ reserve0 * reserve1 * totalSupply * totalSupply \in Int
        /\ reserve0' * reserve1' * totalSupply * totalSupply \in Int
    BY <1>1, <2>1, <2>3, Z3T(30)
  <2> QED
    BY <1>3, <2>2, <2>3, <2>4 DEF ShareKept
<1>4. ASSUME Quiet PROVE ShareKept
  BY <1>1, <1>3, <1>4 DEF Quiet
<1>5. ASSUME NEW a \in Account, NEW h0 \in [Holder -> Nat], NEW h1 \in [Holder -> Nat],
             Incoming(h0, h1), Mint(h0, h1, a)
      PROVE  ShareKept
  BY <1>2, <1>5, MintShare DEF ShareKept
<1>6. ASSUME NEW a \in Account, NEW h0 \in [Holder -> Nat], NEW h1 \in [Holder -> Nat],
             Incoming(h0, h1), NEW shares \in [ShareHolder -> Nat], Burn(h0, h1, shares, a)
      PROVE  ShareKept
  BY <1>2, <1>6, BurnShare
<1>7. ASSUME NEW a \in Account, NEW h0 \in [Holder -> Nat], NEW h1 \in [Holder -> Nat],
             Incoming(h0, h1), NEW out0 \in Nat, NEW out1 \in Nat, Swap(h0, h1, out0, out1, a)
      PROVE  ShareKept
  BY <1>3, <1>7, SwapProduct
<1> QED
  BY <1>4, <1>5, <1>6, <1>7, StepShape

\* No call, in no order, makes a share of the pool worth less.
THEOREM SharesHoldValue == Spec => ShareNeverFalls
<1>1. CoveredInv /\ CoveredInv' /\ [Next]_vars => [ShareKept]_vars
  BY StepKeepsShare
<1> QED
  BY <1>1, CoveredAlways, PTL DEF Spec, ShareNeverFalls, ShareKept

-----------------------------------------------------------------------------
(***************************************************************************)
(* The supply is what the holders have together, and a pool with shares    *)
(* outstanding has both tokens.                                            *)
(***************************************************************************)
SupplyInv ==
    /\ CoveredInv
    /\ totalSupply = SumFunction(balanceOf)
    /\ totalSupply > 0 => reserve0 > 0 /\ reserve1 > 0

\* A first deposit of one token only is worth nothing, and none.
LEMMA FirstDepositHasBoth ==
    ASSUME NEW x \in Nat, NEW y \in Nat, totalSupply = 0, Liquidity(x, y) \in Nat
    PROVE  x > 0 /\ y > 0
<1> SUFFICES ASSUME x * y = 0 PROVE FALSE
  OBVIOUS
<1>1. Sqrt(x * y) = 0
  BY DEF Sqrt
<1>2. Liquidity(x, y) = 0 - MINIMUM_LIQUIDITY
  BY <1>1 DEF Liquidity
<1> QED
  BY <1>2, PairParameters

LEMMA MintKeepsSupply ==
    ASSUME SupplyInv, NEW a \in Account, NEW h0, NEW h1, Incoming(h0, h1), Mint(h0, h1, a)
    PROVE  SupplyInv'
<1> DEFINE amount0 == h0[Pair] - reserve0
           amount1 == h1[Pair] - reserve1
           l == Liquidity(amount0, amount1)
           lock == IF totalSupply = 0 THEN MINIMUM_LIQUIDITY ELSE 0
<1>1. /\ l \in Nat /\ Minted(a, l) /\ Synced(h0, h1)
      /\ amount0 \in Nat /\ amount1 \in Nat
      /\ reserve0 \in Nat /\ reserve1 \in Nat
      /\ reserve0' = reserve0 + amount0 /\ reserve1' = reserve1 + amount1
  BY PairIsHolder DEF Mint, Synced, Incoming, SupplyInv, CoveredInv
<1>2. reserve0' > 0 /\ reserve1' > 0
  <2>1. CASE totalSupply = 0
    <3> HIDE DEF amount0, amount1
    <3>1. amount0 > 0 /\ amount1 > 0
      BY <1>1, <2>1, FirstDepositHasBoth DEF l
    <3> QED
      BY <1>1, <3>1
  <2>2. CASE totalSupply > 0
    <3>1. reserve0 > 0 /\ reserve1 > 0
      BY <2>2 DEF SupplyInv
    <3> HIDE DEF amount0, amount1
    <3> QED
      BY <1>1, <3>1
  <2> QED
    BY <2>1, <2>2 DEF SupplyInv, CoveredInv
<1>3. totalSupply' = SumFunction(balanceOf')
  <2> HIDE DEF l
  <2>1. /\ totalSupply' = totalSupply + l + lock
        /\ balanceOf' = [balanceOf EXCEPT ![a] = @ + l, ![Dead] = @ + lock]
    BY <1>1 DEF Minted
  <2>2. /\ lock \in Nat /\ balanceOf \in [ShareHolder -> Nat]
        /\ a \in ShareHolder /\ Dead \in ShareHolder /\ a # Dead
    BY PairParameters, PairIsHolder DEF SupplyInv, CoveredInv
  <2> DEFINE g == [balanceOf EXCEPT ![a] = balanceOf[a] + l]
             f == balanceOf'
  <2> HIDE DEF lock
  <2>3. /\ g \in [ShareHolder -> Nat] /\ g[a] = balanceOf[a] + l
        /\ \A c \in ShareHolder \ {a} : g[c] = balanceOf[c]
    BY <1>1, <2>2
  <2>4. /\ f \in [ShareHolder -> Nat] /\ f[Dead] = g[Dead] + lock
        /\ \A c \in ShareHolder \ {Dead} : f[c] = g[c]
    BY <1>1, <2>1, <2>2
  <2>5. l \in Int /\ lock \in Int
    BY <1>1, <2>2
  <2> HIDE DEF g, f
  <2>6. SumFunction(g) = SumFunction(balanceOf) + l /\ SumFunction(balanceOf) \in Nat
    BY <2>2, <2>3, <2>5, BalanceChanged
  <2>7. SumFunction(f) = SumFunction(g) + lock
    BY <2>2, <2>3, <2>4, <2>5, BalanceChanged
  <2>8. totalSupply = SumFunction(balanceOf)
    BY DEF SupplyInv
  <2>9. totalSupply' = SumFunction(f)
    BY <1>1, <2>1, <2>2, <2>6, <2>7, <2>8
  <2> QED
    BY <2>9 DEF f
<1>4. CoveredInv'
  BY MintKeeps DEF SupplyInv
<1> QED
  BY <1>2, <1>3, <1>4 DEF SupplyInv

\* Less than all the shares take out less than all the tokens.
LEMMA PartPayout ==
    ASSUME NEW l \in Nat, NEW s \in Nat, NEW h \in Nat, l < s, (l * h) \div s \in 1 .. h
    PROVE  (l * h) \div s < h
<1> DEFINE n == l * h
           q == n \div s
<1>1. n \in Nat /\ s \in Nat \ {0}
  OBVIOUS
<1>2. q \in Nat /\ q * s <= n
  <2> HIDE DEF n
  <2> QED
    BY <1>1, DivBounds
<1>3. q \in 1 .. h
  OBVIOUS
<1> HIDE DEF q
<1>4. SUFFICES ASSUME q = h PROVE FALSE
  BY <1>3 DEF q
<1>5. h * s <= l * h
  BY <1>2, <1>4
<1>6. h \in Nat \ {0} /\ h * s > l * h
  BY <1>3, Z3T(30)
<1> QED
  BY <1>5, <1>6

LEMMA BurnKeepsSupply ==
    ASSUME SupplyInv, NEW a \in Account, NEW h0, NEW h1, Incoming(h0, h1),
           NEW shares \in [ShareHolder -> Nat], Burn(h0, h1, shares, a),
           SumFunction(shares) = totalSupply
    PROVE  SupplyInv'
<1> DEFINE x0 == (shares[Pair] * h0[Pair]) \div totalSupply
           x1 == (shares[Pair] * h1[Pair]) \div totalSupply
<1>1. /\ x0 \in 1..h0[Pair] /\ x1 \in 1..h1[Pair]
      /\ Synced(Moved(h0, Pair, a, x0), Moved(h1, Pair, a, x1))
      /\ balanceOf' = [shares EXCEPT ![Pair] = 0]
      /\ totalSupply' = totalSupply - shares[Pair]
      /\ shares[Pair] <= totalSupply /\ totalSupply > 0
  BY DEF Burn
<1>2. /\ shares[Pair] \in Nat /\ totalSupply \in Nat
      /\ h0[Pair] \in Nat /\ h1[Pair] \in Nat
  BY PairIsHolder DEF SupplyInv, CoveredInv, Incoming
<1>3. totalSupply' > 0 => reserve0' > 0 /\ reserve1' > 0
  <2> SUFFICES ASSUME totalSupply' > 0 PROVE reserve0' > 0 /\ reserve1' > 0
    OBVIOUS
  <2>1. shares[Pair] < totalSupply
    BY <1>1, <1>2
  <2>2. x0 < h0[Pair] /\ x1 < h1[Pair]
    BY <1>1, <1>2, <2>1, PartPayout
  <2> HIDE DEF x0, x1
  <2>3. reserve0' = h0[Pair] - x0 /\ reserve1' = h1[Pair] - x1
    BY <1>1, SyncedKeeps DEF Incoming
  <2> QED
    BY <1>1, <1>2, <2>2, <2>3
<1>4. totalSupply' = SumFunction(balanceOf')
  <2> DEFINE minus == -shares[Pair]
             f == balanceOf'
  <2>1. minus \in Int /\ totalSupply + minus = totalSupply - shares[Pair]
    BY <1>2
  <2>2. /\ f \in [ShareHolder -> Nat] /\ f[Pair] = shares[Pair] + minus
        /\ \A c \in ShareHolder \ {Pair} : f[c] = shares[c]
    BY <1>1, <1>2, PairIsHolder
  <2> HIDE DEF minus, f
  <2>3. SumFunction(f) = SumFunction(shares) + minus
    BY <2>1, <2>2, PairIsHolder, BalanceChanged
  <2>4. totalSupply' = SumFunction(f)
    BY <1>1, <2>1, <2>3
  <2> QED
    BY <2>4 DEF f
<1>5. CoveredInv'
  BY BurnKeeps DEF SupplyInv
<1> QED
  BY <1>3, <1>4, <1>5 DEF SupplyInv

LEMMA SwapKeepsSupply ==
    ASSUME SupplyInv, NEW a \in Account, NEW h0, NEW h1, Incoming(h0, h1),
           NEW out0 \in Nat, NEW out1 \in Nat, Swap(h0, h1, out0, out1, a)
    PROVE  SupplyInv'
<1>1. /\ out0 < reserve0 /\ out1 < reserve1
      /\ Synced(Moved(h0, Pair, a, out0), Moved(h1, Pair, a, out1))
      /\ UNCHANGED <<totalSupply, balanceOf>>
  BY DEF Swap, SwapAllowed
<1>2. /\ out0 < h0[Pair] /\ out1 < h1[Pair]
      /\ h0[Pair] \in Nat /\ h1[Pair] \in Nat
  BY <1>1, PairIsHolder DEF Incoming, SupplyInv, CoveredInv
<1>3. reserve0' = h0[Pair] - out0 /\ reserve1' = h1[Pair] - out1
  BY <1>1, <1>2, SyncedKeeps DEF Incoming
<1>4. CoveredInv'
  BY SwapKeeps DEF SupplyInv
<1> QED
  BY <1>1, <1>2, <1>3, <1>4 DEF SupplyInv

LEMMA SupplyAlways == Spec => []SupplyInv
<1>1. Init => SupplyInv
  <2> SUFFICES ASSUME Init PROVE SupplyInv
    OBVIOUS
  <2>1. balanceOf = [a \in ShareHolder |-> 0] /\ totalSupply = 0
    BY DEF Init, PairInit
  <2>2. balanceOf \in [ShareHolder -> Int] /\ \A a \in ShareHolder : balanceOf[a] = 0
    BY <2>1
  <2>3. SumFunction(balanceOf) = 0
    BY <2>2, ShareHoldersFinite, SumZero
  <2> QED
    BY <2>1, <2>3, InitCovered DEF SupplyInv
<1>2. SupplyInv /\ Quiet => SupplyInv'
  BY QuietKeeps DEF SupplyInv, Quiet
<1>3. SupplyInv /\ [Next]_vars => SupplyInv'
  <2> SUFFICES ASSUME SupplyInv, [Next]_vars PROVE SupplyInv'
    OBVIOUS
  <2>1. CoveredInv /\ totalSupply = SumFunction(balanceOf)
    BY DEF SupplyInv
  <2> QED
    BY <1>2, <2>1, StepShape, MintKeepsSupply, BurnKeepsSupply, SwapKeepsSupply
<1> QED
  BY <1>1, <1>3, PTL DEF Spec

(***************************************************************************)
(* Types, and the supply of LP tokens is what its holders have together,   *)
(* the shares locked at the dead address and those sent to the pair        *)
(* included: mint, burn and transfer write the two apart.                  *)
(***************************************************************************)
THEOREM TypeCorrect == Spec => []TypeOK
<1>1. SupplyInv => TypeOK
  BY DEF SupplyInv, CoveredInv, TypeOK
<1> QED
  BY <1>1, SupplyAlways, PTL

(***************************************************************************)
(* The pair owns its reserves, and a share is a share of both tokens: no   *)
(* rounding, however thin the pool, leaves shares behind that nothing is   *)
(* left for.                                                               *)
(***************************************************************************)
THEOREM ReservesStay == Spec => []ReservesCovered
<1>1. SupplyInv => ReservesCovered
  BY PairIsHolder DEF SupplyInv, CoveredInv, ReservesCovered
<1> QED
  BY <1>1, SupplyAlways, PTL
=============================================================================
