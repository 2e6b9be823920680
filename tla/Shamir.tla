------------------------------- MODULE Shamir -------------------------------
(***************************************************************************)
(* wallet/slip39/shamir.py: secrets shared byte by byte with polynomials   *)
(* over GF(256).  A secret is shared out, and someone collects shares in   *)
(* any order, the same one twice perhaps, and combines them.  A share is   *)
(* [index, data, threshold]; its text of hex digits reads back as itself.  *)
(***************************************************************************)
EXTENDS Integers, Sequences, Functions

CONSTANTS
    Secret,         \* bound: the secrets, sequences of bytes
    Drawn,          \* bound: the bytes os.urandom returns here
    Thresholds, Totals, \* bounds: what a caller asks for
    MaxCollected    \* bound

ASSUME ShamirBounds ==
    /\ Secret \subseteq Seq(0 .. 255) /\ Drawn \subseteq 0 .. 255
    /\ Thresholds \subseteq Int /\ Totals \subseteq Int /\ MaxCollected \in Nat

VARIABLES
    secret,         \* the secret shared out
    shares,         \* the shares made of it
    collected,      \* the indices of those brought together
    combined        \* what combining them gave, or why nothing

shamirVars == <<secret, shares, collected, combined>>

Failed(why) == [error |-> why, bytes |-> << >>]
Gives(bytes) == [error |-> "none", bytes |-> bytes]
NotYet == Failed("not yet")
ValueError == Failed("ValueError")
ZeroDivision == Failed("ZeroDivisionError")

-----------------------------------------------------------------------------
(* GF256 *)

Byte == 0 .. 255

Bit(x, value) == (x \div value) % 2

\* Exclusive or, of bytes.
add(a, b) ==
    LET differing(value) == IF Bit(a, value) # Bit(b, value) THEN value ELSE 0
    IN  differing(1) + differing(2) + differing(4) + differing(8)
          + differing(16) + differing(32) + differing(64) + differing(128)

\* 285 is 256 and 29: the bit shifted out is cleared and 29 put in.
Doubled(x) == IF 2 * x > 255 THEN add(2 * x - 256, 29) ELSE 2 * x

\* A byte and what four doublings make of it.
Doublings(x) ==
    LET a == Doubled(x)  b == Doubled(a)  c == Doubled(b)  d == Doubled(c)
    IN  <<x, a, b, c, d>>

\* The powers of 2, which are all the bytes but 0, filled in one after the other,
\* five in a round.  (The first entry is that of 0.)
EXP ==
    LET filled[i \in 0 .. 50] ==
            IF i = 0 THEN Doublings(1)
            ELSE LET before == filled[i - 1]
                 IN  before \o Doublings(Doubled(before[5 * i]))
    IN  filled[50]
LOG == [x \in 1 .. 255 |-> CHOOSE i \in 0 .. 254 : EXP[i + 1] = x]

mul(a, b) == IF a = 0 \/ b = 0 THEN 0 ELSE EXP[((LOG[a] + LOG[b]) % 255) + 1]

\* The divisor is not 0.
div(a, b) == IF a = 0 THEN 0 ELSE EXP[((LOG[a] - LOG[b]) % 255) + 1]

-----------------------------------------------------------------------------
(* split *)

\* Mutant: the constant term is evaluated at the power of the next one.
value_shifted(poly, x) ==
    LET x_pow[k \in 0 .. Len(poly)] == IF k = 0 THEN 1 ELSE mul(x_pow[k - 1], x)
        y[k \in 0 .. Len(poly)] ==
            IF k = 0 THEN 0 ELSE add(y[k - 1], mul(poly[k], x_pow[k]))
    IN  y[Len(poly)]

value_at(poly, x) ==
    LET x_pow[k \in 0 .. Len(poly)] == IF k = 0 THEN 1 ELSE mul(x_pow[k - 1], x)
        y[k \in 0 .. Len(poly)] ==
            IF k = 0 THEN 0 ELSE add(y[k - 1], mul(poly[k], x_pow[k - 1]))
    IN  y[Len(poly)]

ShareOut(s, threshold, total, polys) ==
    [i \in 1 .. total |->
        [index |-> i, threshold |-> threshold,
         data |-> [b \in 1 .. Len(s) |-> value_at(<<s[b]>> \o polys[b], i)]]]

split(s, threshold, total) ==
    /\ shares = << >> /\ combined = NotYet
    /\ IF threshold < 1 \/ threshold > total \/ total > 254
       THEN combined' = ValueError /\ UNCHANGED <<secret, shares>>
       ELSE /\ \E polys \in [1 .. Len(s) -> [1 .. threshold - 1 -> Drawn]] :
                  shares' = ShareOut(s, threshold, total, polys)
            /\ secret' = s
            /\ UNCHANGED combined
    /\ UNCHANGED collected

-----------------------------------------------------------------------------
(* combine *)

Collect(i) ==
    /\ shares # << >> /\ combined = NotYet
    /\ Len(collected) < MaxCollected
    /\ collected' = Append(collected, i)
    /\ UNCHANGED <<secret, shares, combined>>

\* The weight of the i-th of the shares used, at 0.
lagrange_weight(used, i) ==
    LET num[j \in 0 .. Len(used)] ==
            IF j = 0 THEN 1
            ELSE IF j = i THEN num[j - 1] ELSE mul(num[j - 1], used[j].index)
        den[j \in 0 .. Len(used)] ==
            IF j = 0 THEN 1
            ELSE IF j = i THEN den[j - 1]
            ELSE mul(den[j - 1], add(used[i].index, used[j].index))
    IN  div(num[Len(used)], den[Len(used)])

interpolated(used, b) ==
    LET value[i \in 0 .. Len(used)] ==
            IF i = 0 THEN 0
            ELSE add(value[i - 1], mul(used[i].data[b], lagrange_weight(used, i)))
    IN  value[Len(used)]

\* The first shares are used, as many as the first of them says are needed.
\* Two of one index divide by 0, where there is a byte to weigh.
Combination(given) ==
    LET threshold == given[1].threshold
        used == SubSeq(given, 1, threshold)
    IN  IF given = << >> \/ Len(given) < threshold THEN ValueError
        ELSE IF /\ used[1].data # << >>
                /\ \E i, j \in 1 .. threshold : i # j /\ used[i].index = used[j].index
        THEN ZeroDivision
        ELSE Gives([b \in 1 .. Len(used[1].data) |-> interpolated(used, b)])

combine ==
    /\ combined = NotYet /\ shares # << >>
    /\ combined' = IF collected = << >> THEN ValueError
                   ELSE Combination([k \in 1 .. Len(collected) |-> shares[collected[k]]])
    /\ UNCHANGED <<secret, shares, collected>>

ShamirInit ==
    /\ secret = << >> /\ shares = << >> /\ collected = << >> /\ combined = NotYet

ShamirNext ==
    \/ \E s \in Secret, threshold \in Thresholds, total \in Totals : split(s, threshold, total)
    \/ \E i \in 1 .. Len(shares) : Collect(i)
    \/ combine

ShamirSpec == ShamirInit /\ [][ShamirNext]_shamirVars

\* Any shares of one secret, in any order, that are enough and do not begin with
\* the same one twice, give back that secret; fewer, or such a repetition, give
\* an error and never another secret.  (An empty secret comes back all the same.)
SharesGiveTheSecret ==
    combined # NotYet /\ shares # << >> =>
        LET needed == shares[1].threshold
            first == SubSeq(collected, 1, needed)
        IN  combined = IF Len(collected) < needed THEN ValueError
                       ELSE IF secret # << >> /\ ~IsInjective(first) THEN ZeroDivision
                       ELSE Gives(secret)
=============================================================================
