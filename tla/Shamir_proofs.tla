--------------------------- MODULE Shamir_proofs ----------------------------
(***************************************************************************)
(* Proofs about secret sharing, for every secret, threshold and number of  *)
(* shares that split admits, every choice of random bytes, and shares      *)
(* brought together in any order:                                          *)
(*   - the bytes with add and mul are a field: add is exclusive or,        *)
(*     doubling respects it, the powers of 2 that EXP tabulates are all    *)
(*     the bytes but 0, and so mul, defined by the tables, is distributive *)
(*     and every byte but 0 has an inverse;                                *)
(*   - interpolation at 0 gives back the first coefficient of a polynomial *)
(*     with as many coefficients as there are points;                      *)
(*   - CombinationIsExact: what combine gives is the secret or an error.   *)
(*   - TooFewTellNothing: fewer shares than the threshold are those of any *)
(*     other secret too, by as many draws.                                 *)
(*                                                                         *)
(* Interpolation rests on the moments of the points: the sums over them of *)
(* weight times a power of the point.  The one of power 0 is 1 and those   *)
(* of the powers below the number of points are 0, by induction on the     *)
(* number: a point taken out at either end of a range multiplies the       *)
(* weights of the others by one factor each.                               *)
(***************************************************************************)
EXTENDS Shamir, RecursionTheorems

-----------------------------------------------------------------------------
(* Bytes as eight bits.                                                    *)

\* A byte is the sum of its bits.
LEMMA ByteFromBits ==
  ASSUME NEW x \in Byte
  PROVE  x = Bit(x, 1) + 2 * Bit(x, 2) + 4 * Bit(x, 4) + 8 * Bit(x, 8)
               + 16 * Bit(x, 16) + 32 * Bit(x, 32) + 64 * Bit(x, 64) + 128 * Bit(x, 128)
<1>1. x \div 1 = x /\ x \div 256 = 0 /\ x \in Int
  BY DEF Byte
<1>3. /\ x \div 1 = 2 * (x \div 2) + Bit(x, 1)
      /\ x \div 2 = 2 * (x \div 4) + Bit(x, 2)
      /\ x \div 4 = 2 * (x \div 8) + Bit(x, 4)
      /\ x \div 8 = 2 * (x \div 16) + Bit(x, 8)
      /\ x \div 16 = 2 * (x \div 32) + Bit(x, 16)
      /\ x \div 32 = 2 * (x \div 64) + Bit(x, 32)
      /\ x \div 64 = 2 * (x \div 128) + Bit(x, 64)
      /\ x \div 128 = 2 * (x \div 256) + Bit(x, 128)
  BY DEF Byte, Bit
<1> QED
  BY <1>1, <1>3 DEF Byte, Bit

\* The bits of a sum of distinct powers of 2 are those of its summands.
LEMMA BitsOfSum ==
  ASSUME NEW b0 \in 0 .. 1, NEW b1 \in 0 .. 1, NEW b2 \in 0 .. 1, NEW b3 \in 0 .. 1,
         NEW b4 \in 0 .. 1, NEW b5 \in 0 .. 1, NEW b6 \in 0 .. 1, NEW b7 \in 0 .. 1,
         NEW x, x = b0 + 2 * b1 + 4 * b2 + 8 * b3 + 16 * b4 + 32 * b5 + 64 * b6 + 128 * b7
  PROVE  /\ x \in Byte
         /\ Bit(x, 1) = b0 /\ Bit(x, 2) = b1 /\ Bit(x, 4) = b2 /\ Bit(x, 8) = b3
         /\ Bit(x, 16) = b4 /\ Bit(x, 32) = b5 /\ Bit(x, 64) = b6 /\ Bit(x, 128) = b7
<1>1. x \in Byte
  BY DEF Byte
<1>2. Bit(x, 1) = b0 /\ Bit(x, 2) = b1
  BY DEF Bit
<1>3. Bit(x, 4) = b2 /\ Bit(x, 8) = b3
  BY DEF Bit
<1>4. Bit(x, 16) = b4 /\ Bit(x, 32) = b5
  BY DEF Bit
<1>5. Bit(x, 64) = b6 /\ Bit(x, 128) = b7
  BY DEF Bit
<1> QED
  BY <1>1, <1>2, <1>3, <1>4, <1>5

\* Bytes of the same bits are the same.
LEMMA SameBits ==
  ASSUME NEW x \in Byte, NEW y \in Byte,
         \A v \in {1, 2, 4, 8, 16, 32, 64, 128} : Bit(x, v) = Bit(y, v)
  PROVE  x = y
BY ByteFromBits

\* A bit is 0 or 1.
LEMMA BitType == \A x \in Byte, v \in {1, 2, 4, 8, 16, 32, 64, 128} : Bit(x, v) \in 0 .. 1
BY DEF Bit, Byte

\* The bits of an exclusive or.
LEMMA BitsOfAdd ==
  ASSUME NEW a \in Byte, NEW b \in Byte
  PROVE  /\ add(a, b) \in Byte
         /\ \A v \in {1, 2, 4, 8, 16, 32, 64, 128} :
               Bit(add(a, b), v) = IF Bit(a, v) # Bit(b, v) THEN 1 ELSE 0
<1> DEFINE d(v) == IF Bit(a, v) # Bit(b, v) THEN 1 ELSE 0
<1> DEFINE e(v) == IF Bit(a, v) # Bit(b, v) THEN v ELSE 0
<1>1. /\ d(1) \in 0 .. 1 /\ d(2) \in 0 .. 1 /\ d(4) \in 0 .. 1 /\ d(8) \in 0 .. 1
      /\ d(16) \in 0 .. 1 /\ d(32) \in 0 .. 1 /\ d(64) \in 0 .. 1 /\ d(128) \in 0 .. 1
  OBVIOUS
<1>2. /\ e(1) = d(1) /\ e(2) = 2 * d(2) /\ e(4) = 4 * d(4) /\ e(8) = 8 * d(8)
      /\ e(16) = 16 * d(16) /\ e(32) = 32 * d(32) /\ e(64) = 64 * d(64)
      /\ e(128) = 128 * d(128)
  OBVIOUS
<1>3. add(a, b) = e(1) + e(2) + e(4) + e(8) + e(16) + e(32) + e(64) + e(128)
  BY DEF add
<1>5. \A v \in {1, 2, 4, 8, 16, 32, 64, 128} : d(v) = IF Bit(a, v) # Bit(b, v) THEN 1 ELSE 0
  OBVIOUS
<1> HIDE DEF d, e
<1>4. add(a, b) = d(1) + 2 * d(2) + 4 * d(4) + 8 * d(8) + 16 * d(16) + 32 * d(32)
                    + 64 * d(64) + 128 * d(128)
  BY <1>2, <1>3
<1>6. /\ add(a, b) \in Byte
      /\ Bit(add(a, b), 1) = d(1) /\ Bit(add(a, b), 2) = d(2)
      /\ Bit(add(a, b), 4) = d(4) /\ Bit(add(a, b), 8) = d(8)
      /\ Bit(add(a, b), 16) = d(16) /\ Bit(add(a, b), 32) = d(32)
      /\ Bit(add(a, b), 64) = d(64) /\ Bit(add(a, b), 128) = d(128)
  BY ONLY <1>1, <1>4, BitsOfSum
<1> QED
  BY <1>5, <1>6

\* Bytes are closed under exclusive or, which commutes and associates.
LEMMA AddType == \A a, b \in Byte : add(a, b) \in Byte
BY BitsOfAdd

LEMMA AddCommutes == \A a, b \in Byte : add(a, b) = add(b, a)
<1> SUFFICES ASSUME NEW a \in Byte, NEW b \in Byte PROVE add(a, b) = add(b, a)
  OBVIOUS
<1> DEFINE x == add(a, b)
<1> DEFINE y == add(b, a)
<1>1. /\ x \in Byte /\ y \in Byte
      /\ \A v \in {1, 2, 4, 8, 16, 32, 64, 128} : Bit(x, v) = Bit(y, v)
  BY BitsOfAdd
<1> HIDE DEF x, y
<1>2. x = y
  BY <1>1, SameBits
<1> QED
  BY <1>2 DEF x, y

LEMMA AddAssociates == \A a, b, c \in Byte : add(add(a, b), c) = add(a, add(b, c))
<1> SUFFICES ASSUME NEW a \in Byte, NEW b \in Byte, NEW c \in Byte
             PROVE  add(add(a, b), c) = add(a, add(b, c))
  OBVIOUS
<1> DEFINE ab == add(a, b)
<1> DEFINE bc == add(b, c)
<1> DEFINE x == add(ab, c)
<1> DEFINE y == add(a, bc)
<1>1. ab \in Byte /\ bc \in Byte /\ x \in Byte /\ y \in Byte
  BY AddType
<1>2. ASSUME NEW v \in {1, 2, 4, 8, 16, 32, 64, 128} PROVE Bit(x, v) = Bit(y, v)
  <2>1. /\ Bit(ab, v) = IF Bit(a, v) # Bit(b, v) THEN 1 ELSE 0
        /\ Bit(bc, v) = IF Bit(b, v) # Bit(c, v) THEN 1 ELSE 0
    BY BitsOfAdd
  <2> HIDE DEF ab, bc
  <2>2. /\ Bit(x, v) = IF Bit(ab, v) # Bit(c, v) THEN 1 ELSE 0
        /\ Bit(y, v) = IF Bit(a, v) # Bit(bc, v) THEN 1 ELSE 0
    BY <1>1, BitsOfAdd
  <2>3. Bit(a, v) \in 0 .. 1 /\ Bit(b, v) \in 0 .. 1 /\ Bit(c, v) \in 0 .. 1
    BY BitType
  <2> HIDE DEF x, y
  <2> QED
    BY <2>1, <2>2, <2>3
<1> HIDE DEF x, y
<1>3. x = y
  BY <1>1, <1>2, SameBits
<1> QED
  BY <1>3 DEF x, y, ab, bc

\* 0 changes nothing, and a byte takes itself away.
LEMMA AddZero == \A a \in Byte : add(a, 0) = a /\ add(0, a) = a /\ add(a, a) = 0
<1> SUFFICES ASSUME NEW a \in Byte PROVE add(a, 0) = a /\ add(0, a) = a /\ add(a, a) = 0
  OBVIOUS
<1> DEFINE x == add(a, 0)
<1> DEFINE y == add(a, a)
<1>1. 0 \in Byte /\ \A v \in {1, 2, 4, 8, 16, 32, 64, 128} : Bit(0, v) = 0
  BY DEF Byte, Bit
<1>2. \A v \in {1, 2, 4, 8, 16, 32, 64, 128} : Bit(a, v) \in 0 .. 1
  BY BitType
<1>3. /\ x \in Byte /\ y \in Byte
      /\ \A v \in {1, 2, 4, 8, 16, 32, 64, 128} :
            /\ Bit(x, v) = IF Bit(a, v) # Bit(0, v) THEN 1 ELSE 0
            /\ Bit(y, v) = IF Bit(a, v) # Bit(a, v) THEN 1 ELSE 0
  BY <1>1, BitsOfAdd
<1>4. add(0, a) = x
  BY <1>1, AddCommutes
<1> HIDE DEF x, y
<1>5. x = a
  BY <1>1, <1>2, <1>3, SameBits
<1>6. y = 0
  BY <1>1, <1>3, SameBits
<1> QED
  BY <1>4, <1>5, <1>6 DEF x, y

\* What is added twice is gone.
LEMMA AddCancels == \A a, b \in Byte : add(add(a, b), b) = a /\ add(b, add(a, b)) = a
<1> SUFFICES ASSUME NEW a \in Byte, NEW b \in Byte
             PROVE  add(add(a, b), b) = a /\ add(b, add(a, b)) = a
  OBVIOUS
<1>1. add(add(a, b), b) = add(a, add(b, b))
  BY AddAssociates
<1>2. add(add(a, b), b) = a
  BY <1>1, AddZero
<1> QED
  BY <1>2, AddType, AddCommutes

\* The summands of two sums change partners.
LEMMA AddInterchange ==
  \A a, b, c, d \in Byte : add(add(a, c), add(b, d)) = add(add(a, b), add(c, d))
<1> SUFFICES ASSUME NEW a \in Byte, NEW b \in Byte, NEW c \in Byte, NEW d \in Byte
             PROVE  add(add(a, c), add(b, d)) = add(add(a, b), add(c, d))
  OBVIOUS
<1>1. add(a, c) \in Byte /\ add(a, b) \in Byte /\ add(c, d) \in Byte /\ add(c, b) \in Byte
  BY AddType
<1>2. add(add(a, c), add(b, d)) = add(add(add(a, c), b), d)
  BY <1>1, AddAssociates
<1>3. add(add(a, c), b) = add(a, add(c, b)) /\ add(c, b) = add(b, c)
  BY AddAssociates, AddCommutes
<1>4. add(a, add(b, c)) = add(add(a, b), c)
  BY AddAssociates
<1>5. add(add(add(a, b), c), d) = add(add(a, b), add(c, d))
  BY <1>1, AddAssociates
<1> QED
  BY <1>2, <1>3, <1>4, <1>5

-----------------------------------------------------------------------------
(* Doubling, and its powers.                                               *)

\* What doubling does to the bits.
LEMMA BitsOfDoubled ==
  ASSUME NEW x \in Byte
  PROVE  /\ Doubled(x) \in Byte
         /\ Bit(Doubled(x), 1) = Bit(x, 128)
         /\ Bit(Doubled(x), 2) = Bit(x, 1)
         /\ Bit(Doubled(x), 4) = IF Bit(x, 2) # Bit(x, 128) THEN 1 ELSE 0
         /\ Bit(Doubled(x), 8) = IF Bit(x, 4) # Bit(x, 128) THEN 1 ELSE 0
         /\ Bit(Doubled(x), 16) = IF Bit(x, 8) # Bit(x, 128) THEN 1 ELSE 0
         /\ Bit(Doubled(x), 32) = Bit(x, 16)
         /\ Bit(Doubled(x), 64) = Bit(x, 32)
         /\ Bit(Doubled(x), 128) = Bit(x, 64)
<1> DEFINE b(v) == Bit(x, v)
<1>1. /\ b(1) \in 0 .. 1 /\ b(2) \in 0 .. 1 /\ b(4) \in 0 .. 1 /\ b(8) \in 0 .. 1
      /\ b(16) \in 0 .. 1 /\ b(32) \in 0 .. 1 /\ b(64) \in 0 .. 1 /\ b(128) \in 0 .. 1
  BY BitType
<1>2. x = b(1) + 2 * b(2) + 4 * b(4) + 8 * b(8) + 16 * b(16) + 32 * b(32) + 64 * b(64)
            + 128 * b(128)
  BY ByteFromBits
<1> DEFINE low == b(1) + 2 * b(2) + 4 * b(4) + 8 * b(8) + 16 * b(16) + 32 * b(32)
                    + 64 * b(64)
<1>3. 2 * low = 0 + 2 * b(1) + 4 * b(2) + 8 * b(4) + 16 * b(8) + 32 * b(16) + 64 * b(32)
                  + 128 * b(64)
  BY <1>1
<1> DEFINE y == 2 * low
<1>4. /\ y \in Byte /\ Bit(y, 1) = 0 /\ Bit(y, 2) = b(1) /\ Bit(y, 4) = b(2)
      /\ Bit(y, 8) = b(4) /\ Bit(y, 16) = b(8) /\ Bit(y, 32) = b(16)
      /\ Bit(y, 64) = b(32) /\ Bit(y, 128) = b(64)
  <2>1. 0 \in 0 .. 1
    OBVIOUS
  <2> HIDE DEF b, low
  <2> QED
    BY ONLY <1>1, <1>3, <2>1, BitsOfSum DEF y
<1>5. CASE b(128) = 0
  <2>1. x = low /\ 2 * x <= 255
    <3> HIDE DEF b
    <3> QED
      BY <1>1, <1>2, <1>5
  <2>2. Doubled(x) = y
    <3> HIDE DEF b
    <3> QED
      BY <2>1 DEF Doubled
  <2> QED
    BY <1>1, <1>4, <1>5, <2>2
<1>6. CASE b(128) = 1
  <2>1. 2 * x > 255 /\ 2 * x - 256 = y
    <3> HIDE DEF b
    <3> QED
      BY <1>1, <1>2, <1>6
  <2>2. Doubled(x) = add(y, 29)
    <3> HIDE DEF b
    <3> QED
      BY <2>1 DEF Doubled
  <2>3. /\ 29 \in Byte /\ Bit(29, 1) = 1 /\ Bit(29, 2) = 0 /\ Bit(29, 4) = 1
        /\ Bit(29, 8) = 1 /\ Bit(29, 16) = 1 /\ Bit(29, 32) = 0 /\ Bit(29, 64) = 0
        /\ Bit(29, 128) = 0
    BY DEF Byte, Bit
  <2> HIDE DEF b, y
  <2>4. /\ add(y, 29) \in Byte
        /\ \A v \in {1, 2, 4, 8, 16, 32, 64, 128} :
               Bit(add(y, 29), v) = IF Bit(y, v) # Bit(29, v) THEN 1 ELSE 0
    BY <1>4, <2>3, BitsOfAdd
  <2> DEFINE z == add(y, 29)
  <2>5. /\ z \in Byte /\ Bit(z, 1) = 1 /\ Bit(z, 2) = b(1)
        /\ Bit(z, 4) = (IF b(2) # 1 THEN 1 ELSE 0)
        /\ Bit(z, 8) = (IF b(4) # 1 THEN 1 ELSE 0)
        /\ Bit(z, 16) = (IF b(8) # 1 THEN 1 ELSE 0)
        /\ Bit(z, 32) = b(16) /\ Bit(z, 64) = b(32) /\ Bit(z, 128) = b(64)
    BY <1>1, <1>4, <2>3, <2>4
  <2> HIDE DEF z
  <2>6. Doubled(x) = z
    BY <2>2 DEF z
  <2> QED
    BY <1>6, <2>5, <2>6 DEF b
<1> QED
  BY <1>1, <1>5, <1>6

\* Doubling stays in the bytes.
LEMMA DoubledType == \A x \in Byte : Doubled(x) \in Byte
BY BitsOfDoubled

\* Doubling distributes over exclusive or.
LEMMA DoubledAdds ==
  ASSUME NEW a \in Byte, NEW b \in Byte
  PROVE  Doubled(add(a, b)) = add(Doubled(a), Doubled(b))
<1> DEFINE c == add(a, b)
<1> DEFINE da == Doubled(a)
<1> DEFINE db == Doubled(b)
<1> DEFINE x == Doubled(c)
<1> DEFINE y == add(da, db)
<1>1. \A v \in {1, 2, 4, 8, 16, 32, 64, 128} : Bit(a, v) \in 0 .. 1 /\ Bit(b, v) \in 0 .. 1
  BY BitType
<1>2. /\ c \in Byte
      /\ \A v \in {1, 2, 4, 8, 16, 32, 64, 128} :
            Bit(c, v) = IF Bit(a, v) # Bit(b, v) THEN 1 ELSE 0
  BY BitsOfAdd
<1>3. /\ da \in Byte
      /\ Bit(da, 1) = Bit(a, 128) /\ Bit(da, 2) = Bit(a, 1)
      /\ Bit(da, 4) = (IF Bit(a, 2) # Bit(a, 128) THEN 1 ELSE 0)
      /\ Bit(da, 8) = (IF Bit(a, 4) # Bit(a, 128) THEN 1 ELSE 0)
      /\ Bit(da, 16) = (IF Bit(a, 8) # Bit(a, 128) THEN 1 ELSE 0)
      /\ Bit(da, 32) = Bit(a, 16) /\ Bit(da, 64) = Bit(a, 32) /\ Bit(da, 128) = Bit(a, 64)
  BY BitsOfDoubled
<1>4. /\ db \in Byte
      /\ Bit(db, 1) = Bit(b, 128) /\ Bit(db, 2) = Bit(b, 1)
      /\ Bit(db, 4) = (IF Bit(b, 2) # Bit(b, 128) THEN 1 ELSE 0)
      /\ Bit(db, 8) = (IF Bit(b, 4) # Bit(b, 128) THEN 1 ELSE 0)
      /\ Bit(db, 16) = (IF Bit(b, 8) # Bit(b, 128) THEN 1 ELSE 0)
      /\ Bit(db, 32) = Bit(b, 16) /\ Bit(db, 64) = Bit(b, 32) /\ Bit(db, 128) = Bit(b, 64)
  BY BitsOfDoubled
<1> HIDE DEF c, da, db
<1>5. /\ x \in Byte
      /\ Bit(x, 1) = Bit(c, 128) /\ Bit(x, 2) = Bit(c, 1)
      /\ Bit(x, 4) = (IF Bit(c, 2) # Bit(c, 128) THEN 1 ELSE 0)
      /\ Bit(x, 8) = (IF Bit(c, 4) # Bit(c, 128) THEN 1 ELSE 0)
      /\ Bit(x, 16) = (IF Bit(c, 8) # Bit(c, 128) THEN 1 ELSE 0)
      /\ Bit(x, 32) = Bit(c, 16) /\ Bit(x, 64) = Bit(c, 32) /\ Bit(x, 128) = Bit(c, 64)
  BY <1>2, BitsOfDoubled
<1>6. /\ y \in Byte
      /\ \A v \in {1, 2, 4, 8, 16, 32, 64, 128} :
            Bit(y, v) = IF Bit(da, v) # Bit(db, v) THEN 1 ELSE 0
  BY <1>3, <1>4, BitsOfAdd
<1> HIDE DEF x, y
<1>7. \A v \in {1, 2, 4, 8, 16, 32, 64, 128} : Bit(x, v) = Bit(y, v)
  BY <1>1, <1>2, <1>3, <1>4, <1>5, <1>6
<1>8. x = y
  BY <1>5, <1>6, <1>7, SameBits
<1> QED
  BY <1>8 DEF x, y, c, da, db

-----------------------------------------------------------------------------
(* Functions filled in from the first number on, each value made of the    *)
(* one before it: what a loop that keeps one variable computes.            *)

IsLoop(f, n, D, a, step) ==
    /\ f \in [0 .. n -> D] /\ f[0] = a
    /\ \A k \in 1 .. n : f[k] = step[k][f[k - 1]]

\* Such a function exists.
LEMMA LoopExists ==
  ASSUME NEW n \in Nat, NEW D, NEW a \in D, NEW step \in [1 .. n -> [D -> D]]
  PROVE  \E f : IsLoop(f, n, D, a, step)
<1> DEFINE Runs(f, m) == /\ f \in [0 .. m -> D] /\ f[0] = a
                         /\ \A k \in 1 .. m : f[k] = step[k][f[k - 1]]
<1> DEFINE G == {m \in Nat : m <= n => \E f : Runs(f, m)}
<1>1. 0 \in G
  <2>1. Runs([k \in 0 .. 0 |-> a], 0)
    OBVIOUS
  <2> QED
    BY <2>1
<1>2. ASSUME NEW m \in Nat, m \in G PROVE m + 1 \in G
  <2> SUFFICES ASSUME m + 1 <= n PROVE \E f : Runs(f, m + 1)
    OBVIOUS
  <2>1. PICK f : Runs(f, m)
    BY <1>2
  <2> DEFINE v == step[m + 1][f[m]]
  <2>2. f[m] \in D /\ m + 1 \in 1 .. n /\ v \in D
    <3>1. m \in 0 .. m /\ m + 1 \in 1 .. n
      OBVIOUS
    <3> QED
      BY <2>1, <3>1
  <2> DEFINE g == [k \in 0 .. m + 1 |-> IF k = m + 1 THEN v ELSE f[k]]
  <2>3. g \in [0 .. m + 1 -> D] /\ g[0] = a
    BY <2>1, <2>2
  <2>4. ASSUME NEW k \in 1 .. m + 1 PROVE g[k] = step[k][g[k - 1]]
    <3>1. k \in 0 .. m + 1 /\ k - 1 \in 0 .. m + 1 /\ k - 1 # m + 1
      OBVIOUS
    <3>2. g[k - 1] = f[k - 1]
      BY <3>1
    <3>3. CASE k = m + 1
      <4>1. k - 1 = m
        BY <3>3
      <4> QED
        BY <3>1, <3>2, <3>3, <4>1
    <3>4. CASE k # m + 1
      <4>1. k \in 1 .. m
        BY <3>4
      <4>2. f[k] = step[k][f[k - 1]]
        BY <2>1, <4>1
      <4> QED
        BY <3>1, <3>2, <3>4, <4>2
    <3> QED
      BY <3>3, <3>4
  <2> HIDE DEF g
  <2> QED
    BY <2>3, <2>4
<1> HIDE DEF G
<1>3. n \in G
  BY <1>1, <1>2, NumberInduction
<1>4. PICK f : Runs(f, n)
  BY <1>3 DEF G
<1> QED
  BY <1>4 DEF IsLoop

\* The running sums, and products, of the values of v.
RunSums(f, v, n) ==
    f[0] = 0 /\ \A k \in 1 .. n : f[k] = add(f[k - 1], v[k])

RunProducts(f, v, n) ==
    f[0] = 1 /\ \A k \in 1 .. n : f[k] = mul(f[k - 1], v[k])

\* There are running sums of any bytes.
LEMMA SumsExist ==
  ASSUME NEW n \in Nat, NEW v \in [1 .. n -> Byte]
  PROVE  \E f \in [0 .. n -> Byte] : RunSums(f, v, n)
<1> DEFINE step == [k \in 1 .. n |-> [x \in Byte |-> add(x, v[k])]]
<1>1. 0 \in Byte
  BY DEF Byte
<1>2. step \in [1 .. n -> [Byte -> Byte]]
  BY AddType
<1>3. PICK f : IsLoop(f, n, Byte, 0, step)
  <2> HIDE DEF step
  <2> QED
    BY ONLY <1>1, <1>2, n \in Nat, LoopExists
<1>4. ASSUME NEW k \in 1 .. n PROVE f[k] = add(f[k - 1], v[k])
  <2>1. k - 1 \in 0 .. n
    OBVIOUS
  <2> QED
    BY <1>3, <2>1 DEF IsLoop
<1> QED
  BY <1>3, <1>4 DEF IsLoop, RunSums

-----------------------------------------------------------------------------
(* The tables EXP and LOG.                                                 *)

\* The n values of a function from that at m on.
Stretch(f, m, n) == [j \in 1 .. n |-> f[m + j - 1]]

\* Two stretches of a function, one after the other, are one stretch of it.
Joins(f, m, n) == Stretch(f, 0, m) \o Stretch(f, m, n) = Stretch(f, 0, m + n)

LEMMA StretchesJoin ==
  ASSUME NEW S, NEW l \in Nat, NEW f \in [0 .. l -> S],
         NEW m \in Nat, NEW n \in Nat, m + n <= l + 1
  PROVE  Joins(f, m, n)
<1> DEFINE b == Stretch(f, 0, m)
<1> DEFINE d == Stretch(f, m, n)
<1> DEFINE both == b \o d
<1>1. b \in Seq(S) /\ Len(b) = m
  <2>1. ASSUME NEW j \in 1 .. m PROVE f[0 + j - 1] \in S
    <3>1. 0 + j - 1 \in 0 .. l
      OBVIOUS
    <3> QED
      BY <3>1
  <2>2. b \in [1 .. m -> S]
    BY <2>1 DEF Stretch
  <2> HIDE DEF b
  <2> QED
    BY ONLY <2>2, m \in Nat
<1>2. d \in Seq(S) /\ Len(d) = n
  <2>1. ASSUME NEW j \in 1 .. n PROVE f[m + j - 1] \in S
    <3>1. m + j - 1 \in 0 .. l
      OBVIOUS
    <3> QED
      BY <3>1
  <2>2. d \in [1 .. n -> S]
    BY <2>1 DEF Stretch
  <2> HIDE DEF d
  <2> QED
    BY ONLY <2>2, n \in Nat
<1>3. ASSUME NEW j \in 1 .. m PROVE b[j] = f[0 + j - 1]
  BY DEF Stretch
<1>4. ASSUME NEW j \in 1 .. n PROVE d[j] = f[m + j - 1]
  BY DEF Stretch
<1> HIDE DEF b, d
<1>5. both \in Seq(S) /\ Len(both) = m + n
  BY ONLY <1>1, <1>2, m \in Nat, n \in Nat DEF both
<1>6. ASSUME NEW j \in 1 .. m + n PROVE both[j] = f[0 + j - 1]
  <2>1. CASE j <= m
    <3>1. j \in 1 .. m
      BY <2>1
    <3>2. both[j] = b[j]
      BY ONLY <1>1, <1>2, <3>1, m \in Nat, n \in Nat DEF both
    <3> QED
      BY <1>3, <3>1, <3>2
  <2>2. CASE j > m
    <3>1. j - m \in 1 .. n /\ m + (j - m) - 1 = 0 + j - 1
      BY <2>2
    <3>2. both[j] = d[j - m]
      BY ONLY <1>1, <1>2, <2>2, m \in Nat, n \in Nat, j \in 1 .. m + n DEF both
    <3>3. d[j - m] = f[m + (j - m) - 1]
      BY <1>4, <3>1
    <3> QED
      BY <3>1, <3>2, <3>3
  <2>3. j <= m \/ j > m
    OBVIOUS
  <2> QED
    BY ONLY <2>1, <2>2, <2>3
<1> HIDE DEF both
<1>7. both = [j \in 1 .. Len(both) |-> both[j]]
  BY <1>5
<1>8. both = Stretch(f, 0, m + n)
  BY <1>5, <1>6, <1>7 DEF Stretch
<1> QED
  BY <1>8 DEF both, b, d, Joins

\* Each entry of EXP is the double of the one before it.
LEMMA ExpDoubles ==
  /\ EXP[1] = 1
  /\ \A i \in 1 .. 254 : EXP[i + 1] = Doubled(EXP[i])
<1> DEFINE step == [k \in 1 .. 254 |-> [x \in Byte |-> Doubled(x)]]
<1>1. 1 \in Byte
  BY DEF Byte
<1>2. step \in [1 .. 254 -> [Byte -> Byte]]
  BY DoubledType
<1>3. PICK p : IsLoop(p, 254, Byte, 1, step)
  <2> HIDE DEF step
  <2> QED
    <3> DEFINE n == 254
    <3>1. n \in Nat /\ n = 254
      OBVIOUS
    <3> HIDE DEF n
    <3>2. step \in [1 .. n -> [Byte -> Byte]]
      BY <1>2, <3>1
    <3>3. \E f : IsLoop(f, n, Byte, 1, step)
      BY ONLY <1>1, <3>1, <3>2, LoopExists
    <3> QED
      BY <3>3 DEF n
<1>4. /\ p[0] = 1 /\ (\A k \in 0 .. 254 : p[k] \in Byte)
      /\ \A k \in 1 .. 254 : p[k] = Doubled(p[k - 1])
  <2>1. ASSUME NEW k \in 1 .. 254 PROVE p[k] = Doubled(p[k - 1])
    <3>1. k - 1 \in 0 .. 254
      OBVIOUS
    <3> QED
      BY <1>3, <3>1 DEF IsLoop
  <2> QED
    BY <1>3, <2>1 DEF IsLoop
<1> HIDE DEF step
<1> DEFINE first(i) == Stretch(p, 0, 5 * i + 5)
<1> DEFINE next(before, i) == before \o Doublings(Doubled(before[5 * i]))
<1> DEFINE Fills(f) == f = [i \in 0 .. 50 |-> IF i = 0 THEN Doublings(1) ELSE next(f[i - 1], i)]
<1>4a. ASSUME NEW k \in 0 .. 250 PROVE Doublings(p[k]) = Stretch(p, k, 5)
  <2>1. /\ p[k + 1] = Doubled(p[k]) /\ p[k + 2] = Doubled(p[k + 1])
        /\ p[k + 3] = Doubled(p[k + 2]) /\ p[k + 4] = Doubled(p[k + 3])
    <3>1. \A i \in 0 .. 253 : p[i + 1] = Doubled(p[i])
      <4> SUFFICES ASSUME NEW i \in 0 .. 253 PROVE p[i + 1] = Doubled(p[i])
        OBVIOUS
      <4>1. i + 1 \in 1 .. 254 /\ (i + 1) - 1 = i
        OBVIOUS
      <4> QED
        BY <1>4, <4>1
    <3>2. /\ k \in 0 .. 253 /\ k + 1 \in 0 .. 253 /\ k + 2 \in 0 .. 253 /\ k + 3 \in 0 .. 253
          /\ (k + 1) + 1 = k + 2 /\ (k + 2) + 1 = k + 3 /\ (k + 3) + 1 = k + 4
      OBVIOUS
    <3> QED
      BY <3>1, <3>2
  <2>2. Doublings(p[k]) = <<p[k], p[k + 1], p[k + 2], p[k + 3], p[k + 4]>>
    BY <2>1 DEF Doublings
  <2>3. /\ k + 1 - 1 = k /\ k + 2 - 1 = k + 1 /\ k + 3 - 1 = k + 2 /\ k + 4 - 1 = k + 3
        /\ k + 5 - 1 = k + 4
    OBVIOUS
  <2> DEFINE five == <<p[k], p[k + 1], p[k + 2], p[k + 3], p[k + 4]>>
  <2>4. /\ five[1] = p[k] /\ five[2] = p[k + 1] /\ five[3] = p[k + 2] /\ five[4] = p[k + 3]
        /\ five[5] = p[k + 4] /\ five = [j \in 1 .. 5 |-> five[j]]
    OBVIOUS
  <2> HIDE DEF five
  <2>5. \A j \in 1 .. 5 : j = 1 \/ j = 2 \/ j = 3 \/ j = 4 \/ j = 5
    OBVIOUS
  <2>6. \A j \in 1 .. 5 : five[j] = p[k + j - 1]
    BY <2>3, <2>4, <2>5
  <2>7. five = [j \in 1 .. 5 |-> p[k + j - 1]]
    BY <2>4, <2>6
  <2> QED
    BY <2>2, <2>7 DEF five, Stretch
<1>5. first(0) = Doublings(1)
  <2>1. Doublings(p[0]) = Stretch(p, 0, 5)
    BY <1>4a
  <2> QED
    BY <1>4, <2>1
<1>6. ASSUME NEW i \in 1 .. 50
      PROVE  first(i) = next(first(i - 1), i)
  <2> DEFINE m == 5 * i
  <2>1. m \in Nat /\ m \in 1 .. 250 /\ 5 * (i - 1) + 5 = m /\ 5 * i + 5 = m + 5
    OBVIOUS
  <2>2. first(i - 1) = Stretch(p, 0, m) /\ first(i) = Stretch(p, 0, m + 5)
    BY <2>1
  <2>3. Doubled(Stretch(p, 0, m)[m]) = p[m]
    <3> HIDE DEF m, first
    <3>1. Stretch(p, 0, m)[m] = p[0 + m - 1]
      BY <2>1 DEF Stretch
    <3>2. 0 + m - 1 = m - 1 /\ m \in 1 .. 254
      BY <2>1
    <3> QED
      BY <1>4, <3>1, <3>2
  <2>4. Doublings(p[m]) = Stretch(p, m, 5)
    <3> HIDE DEF m, first
    <3> QED
      BY <1>4a, <2>1
  <2>5. Stretch(p, 0, m) \o Stretch(p, m, 5) = Stretch(p, 0, m + 5)
    <3> DEFINE l == 254
    <3> DEFINE n == 5
    <3> HIDE DEF m
    <3>1. l \in Nat /\ n \in Nat /\ m + n <= l + 1
      BY <2>1
    <3>2. p \in [0 .. l -> Byte]
      BY <1>3 DEF IsLoop
    <3> HIDE DEF l, n
    <3>3. Joins(p, m, n)
      <4>1. m \in Nat
        BY <2>1
      <4> QED
        BY ONLY <3>1, <3>2, <4>1, StretchesJoin
    <3> QED
      BY <3>3 DEF n, Joins
  <2> HIDE DEF first
  <2>6. next(Stretch(p, 0, m), i) = Stretch(p, 0, m + 5)
    BY <2>3, <2>4, <2>5
  <2> QED
    BY <2>2, <2>6
<1> DEFINE h == [i \in 0 .. 50 |-> first(i)]
<1>7. Fills(h)
  <2> HIDE DEF first, next
  <2>1. ASSUME NEW i \in 0 .. 50
        PROVE  h[i] = IF i = 0 THEN Doublings(1) ELSE next(h[i - 1], i)
    <3>1. CASE i = 0
      BY <1>5, <3>1
    <3>2. CASE i # 0
      <4>1. i \in 1 .. 50 /\ i - 1 \in 0 .. 50
        BY <3>2
      <4>2. h[i] = first(i) /\ h[i - 1] = first(i - 1)
        BY <4>1
      <4>3. first(i) = next(first(i - 1), i)
        BY ONLY <1>6, <4>1
      <4> HIDE DEF h
      <4> QED
        BY ONLY <3>2, <4>2, <4>3
    <3> QED
      BY <3>1, <3>2
  <2>2. h = [i \in 0 .. 50 |-> h[i]]
    OBVIOUS
  <2> HIDE DEF h
  <2> QED
    BY <2>1, <2>2
<1> DEFINE filled == CHOOSE f : Fills(f)
<1>8. Fills(filled)
  <2> HIDE DEF Fills, h
  <2> QED
    BY <1>7
<1>9. EXP = filled[50]
  BY DEF EXP
<1> HIDE DEF filled
<1> DEFINE G == {i \in Nat : i <= 50 => filled[i] = first(i)}
<1>10. 0 \in G
  <2> HIDE DEF first, next
  <2> QED
    BY <1>5, <1>8
<1>11. ASSUME NEW i \in Nat, i \in G PROVE i + 1 \in G
  <2> SUFFICES ASSUME i + 1 <= 50 PROVE filled[i + 1] = first(i + 1)
    OBVIOUS
  <2>1. i + 1 \in 1 .. 50 /\ i + 1 \in 0 .. 50 /\ i + 1 # 0 /\ (i + 1) - 1 = i
    OBVIOUS
  <2> HIDE DEF first, next
  <2>2. filled[i] = first(i)
    BY <1>11, <2>1
  <2>4. first(i + 1) = next(first(i), i + 1)
    BY <1>6, <2>1
  <2>3. filled[i + 1] = next(filled[i], i + 1)
    BY <1>8, <2>1
  <2> QED
    BY <2>2, <2>3, <2>4
<1>12. 50 \in G
  <2> HIDE DEF G
  <2> QED
    BY <1>10, <1>11, NumberInduction
<1>13. EXP = [j \in 1 .. 255 |-> p[j - 1]]
  <2>1. EXP = Stretch(p, 0, 255)
    BY <1>9, <1>12
  <2> QED
    BY <2>1 DEF Stretch
<1>14. ASSUME NEW i \in 1 .. 254 PROVE EXP[i + 1] = Doubled(EXP[i])
  <2>1. EXP[i] = p[i - 1] /\ EXP[i + 1] = p[i]
    BY <1>13
  <2> QED
    BY <1>4, <2>1
<1>15. EXP[1] = 1
  <2>1. EXP[1] = p[1 - 1]
    BY <1>13
  <2> QED
    BY <1>4, <2>1
<1> QED
  BY <1>14, <1>15

\* Every byte but 0 is a power of 2, the last of which is 142: the entries of EXP
\* are evaluated sixteen at a time.
LEMMA ExpOnto ==
  /\ EXP[255] = 142
  /\ \A x \in 1 .. 255 : \E i \in 1 .. 255 : EXP[i] = x
<1>1. /\ EXP[1] = 1 /\ EXP[2] = 2 /\ EXP[3] = 4 /\ EXP[4] = 8 /\ EXP[5] = 16
      /\ EXP[6] = 32 /\ EXP[7] = 64 /\ EXP[8] = 128 /\ EXP[9] = 29 /\ EXP[10] = 58
      /\ EXP[11] = 116 /\ EXP[12] = 232 /\ EXP[13] = 205 /\ EXP[14] = 135 /\ EXP[15] = 19
      /\ EXP[16] = 38
  <2>1. /\ Doubled(1) = 2 /\ Doubled(2) = 4 /\ Doubled(4) = 8 /\ Doubled(8) = 16
        /\ Doubled(16) = 32 /\ Doubled(32) = 64 /\ Doubled(64) = 128 /\ Doubled(128) = 29
        /\ Doubled(29) = 58 /\ Doubled(58) = 116 /\ Doubled(116) = 232 /\ Doubled(232) = 205
        /\ Doubled(205) = 135 /\ Doubled(135) = 19 /\ Doubled(19) = 38
    BY DEF Doubled, add, Bit
  <2> QED
    BY <2>1, ExpDoubles
<1>2. /\ EXP[17] = 76 /\ EXP[18] = 152 /\ EXP[19] = 45 /\ EXP[20] = 90 /\ EXP[21] = 180
      /\ EXP[22] = 117 /\ EXP[23] = 234 /\ EXP[24] = 201 /\ EXP[25] = 143 /\ EXP[26] = 3
      /\ EXP[27] = 6 /\ EXP[28] = 12 /\ EXP[29] = 24 /\ EXP[30] = 48 /\ EXP[31] = 96
      /\ EXP[32] = 192
  <2>1. /\ Doubled(38) = 76 /\ Doubled(76) = 152 /\ Doubled(152) = 45 /\ Doubled(45) = 90
        /\ Doubled(90) = 180 /\ Doubled(180) = 117 /\ Doubled(117) = 234 /\ Doubled(234) = 201
        /\ Doubled(201) = 143 /\ Doubled(143) = 3 /\ Doubled(3) = 6 /\ Doubled(6) = 12
        /\ Doubled(12) = 24 /\ Doubled(24) = 48 /\ Doubled(48) = 96 /\ Doubled(96) = 192
    BY DEF Doubled, add, Bit
  <2> QED
    BY <1>1, <2>1, ExpDoubles
<1>3. /\ EXP[33] = 157 /\ EXP[34] = 39 /\ EXP[35] = 78 /\ EXP[36] = 156 /\ EXP[37] = 37
      /\ EXP[38] = 74 /\ EXP[39] = 148 /\ EXP[40] = 53 /\ EXP[41] = 106 /\ EXP[42] = 212
      /\ EXP[43] = 181 /\ EXP[44] = 119 /\ EXP[45] = 238 /\ EXP[46] = 193 /\ EXP[47] = 159
      /\ EXP[48] = 35
  <2>1. /\ Doubled(192) = 157 /\ Doubled(157) = 39 /\ Doubled(39) = 78 /\ Doubled(78) = 156
        /\ Doubled(156) = 37 /\ Doubled(37) = 74 /\ Doubled(74) = 148 /\ Doubled(148) = 53
        /\ Doubled(53) = 106 /\ Doubled(106) = 212 /\ Doubled(212) = 181 /\ Doubled(181) = 119
        /\ Doubled(119) = 238 /\ Doubled(238) = 193 /\ Doubled(193) = 159 /\ Doubled(159) = 35
    BY DEF Doubled, add, Bit
  <2> QED
    BY <1>2, <2>1, ExpDoubles
<1>4. /\ EXP[49] = 70 /\ EXP[50] = 140 /\ EXP[51] = 5 /\ EXP[52] = 10 /\ EXP[53] = 20
      /\ EXP[54] = 40 /\ EXP[55] = 80 /\ EXP[56] = 160 /\ EXP[57] = 93 /\ EXP[58] = 186
      /\ EXP[59] = 105 /\ EXP[60] = 210 /\ EXP[61] = 185 /\ EXP[62] = 111 /\ EXP[63] = 222
      /\ EXP[64] = 161
  <2>1. /\ Doubled(35) = 70 /\ Doubled(70) = 140 /\ Doubled(140) = 5 /\ Doubled(5) = 10
        /\ Doubled(10) = 20 /\ Doubled(20) = 40 /\ Doubled(40) = 80 /\ Doubled(80) = 160
        /\ Doubled(160) = 93 /\ Doubled(93) = 186 /\ Doubled(186) = 105 /\ Doubled(105) = 210
        /\ Doubled(210) = 185 /\ Doubled(185) = 111 /\ Doubled(111) = 222 /\ Doubled(222) = 161
    BY DEF Doubled, add, Bit
  <2> QED
    BY <1>3, <2>1, ExpDoubles
<1>5. /\ EXP[65] = 95 /\ EXP[66] = 190 /\ EXP[67] = 97 /\ EXP[68] = 194 /\ EXP[69] = 153
      /\ EXP[70] = 47 /\ EXP[71] = 94 /\ EXP[72] = 188 /\ EXP[73] = 101 /\ EXP[74] = 202
      /\ EXP[75] = 137 /\ EXP[76] = 15 /\ EXP[77] = 30 /\ EXP[78] = 60 /\ EXP[79] = 120
      /\ EXP[80] = 240
  <2>1. /\ Doubled(161) = 95 /\ Doubled(95) = 190 /\ Doubled(190) = 97 /\ Doubled(97) = 194
        /\ Doubled(194) = 153 /\ Doubled(153) = 47 /\ Doubled(47) = 94 /\ Doubled(94) = 188
        /\ Doubled(188) = 101 /\ Doubled(101) = 202 /\ Doubled(202) = 137 /\ Doubled(137) = 15
        /\ Doubled(15) = 30 /\ Doubled(30) = 60 /\ Doubled(60) = 120 /\ Doubled(120) = 240
    BY DEF Doubled, add, Bit
  <2> QED
    BY <1>4, <2>1, ExpDoubles
<1>6. /\ EXP[81] = 253 /\ EXP[82] = 231 /\ EXP[83] = 211 /\ EXP[84] = 187 /\ EXP[85] = 107
      /\ EXP[86] = 214 /\ EXP[87] = 177 /\ EXP[88] = 127 /\ EXP[89] = 254 /\ EXP[90] = 225
      /\ EXP[91] = 223 /\ EXP[92] = 163 /\ EXP[93] = 91 /\ EXP[94] = 182 /\ EXP[95] = 113
      /\ EXP[96] = 226
  <2>1. /\ Doubled(240) = 253 /\ Doubled(253) = 231 /\ Doubled(231) = 211 /\ Doubled(211) = 187
        /\ Doubled(187) = 107 /\ Doubled(107) = 214 /\ Doubled(214) = 177 /\ Doubled(177) = 127
        /\ Doubled(127) = 254 /\ Doubled(254) = 225 /\ Doubled(225) = 223 /\ Doubled(223) = 163
        /\ Doubled(163) = 91 /\ Doubled(91) = 182 /\ Doubled(182) = 113 /\ Doubled(113) = 226
    BY DEF Doubled, add, Bit
  <2> QED
    BY <1>5, <2>1, ExpDoubles
<1>7. /\ EXP[97] = 217 /\ EXP[98] = 175 /\ EXP[99] = 67 /\ EXP[100] = 134 /\ EXP[101] = 17
      /\ EXP[102] = 34 /\ EXP[103] = 68 /\ EXP[104] = 136 /\ EXP[105] = 13 /\ EXP[106] = 26
      /\ EXP[107] = 52 /\ EXP[108] = 104 /\ EXP[109] = 208 /\ EXP[110] = 189 /\ EXP[111] = 103
      /\ EXP[112] = 206
  <2>1. /\ Doubled(226) = 217 /\ Doubled(217) = 175 /\ Doubled(175) = 67 /\ Doubled(67) = 134
        /\ Doubled(134) = 17 /\ Doubled(17) = 34 /\ Doubled(34) = 68 /\ Doubled(68) = 136
        /\ Doubled(136) = 13 /\ Doubled(13) = 26 /\ Doubled(26) = 52 /\ Doubled(52) = 104
        /\ Doubled(104) = 208 /\ Doubled(208) = 189 /\ Doubled(189) = 103 /\ Doubled(103) = 206
    BY DEF Doubled, add, Bit
  <2> QED
    BY <1>6, <2>1, ExpDoubles
<1>8. /\ EXP[113] = 129 /\ EXP[114] = 31 /\ EXP[115] = 62 /\ EXP[116] = 124 /\ EXP[117] = 248
      /\ EXP[118] = 237 /\ EXP[119] = 199 /\ EXP[120] = 147 /\ EXP[121] = 59 /\ EXP[122] = 118
      /\ EXP[123] = 236 /\ EXP[124] = 197 /\ EXP[125] = 151 /\ EXP[126] = 51 /\ EXP[127] = 102
      /\ EXP[128] = 204
  <2>1. /\ Doubled(206) = 129 /\ Doubled(129) = 31 /\ Doubled(31) = 62 /\ Doubled(62) = 124
        /\ Doubled(124) = 248 /\ Doubled(248) = 237 /\ Doubled(237) = 199 /\ Doubled(199) = 147
        /\ Doubled(147) = 59 /\ Doubled(59) = 118 /\ Doubled(118) = 236 /\ Doubled(236) = 197
        /\ Doubled(197) = 151 /\ Doubled(151) = 51 /\ Doubled(51) = 102 /\ Doubled(102) = 204
    BY DEF Doubled, add, Bit
  <2> QED
    BY <1>7, <2>1, ExpDoubles
<1>9. /\ EXP[129] = 133 /\ EXP[130] = 23 /\ EXP[131] = 46 /\ EXP[132] = 92 /\ EXP[133] = 184
      /\ EXP[134] = 109 /\ EXP[135] = 218 /\ EXP[136] = 169 /\ EXP[137] = 79 /\ EXP[138] = 158
      /\ EXP[139] = 33 /\ EXP[140] = 66 /\ EXP[141] = 132 /\ EXP[142] = 21 /\ EXP[143] = 42
      /\ EXP[144] = 84
  <2>1. /\ Doubled(204) = 133 /\ Doubled(133) = 23 /\ Doubled(23) = 46 /\ Doubled(46) = 92
        /\ Doubled(92) = 184 /\ Doubled(184) = 109 /\ Doubled(109) = 218 /\ Doubled(218) = 169
        /\ Doubled(169) = 79 /\ Doubled(79) = 158 /\ Doubled(158) = 33 /\ Doubled(33) = 66
        /\ Doubled(66) = 132 /\ Doubled(132) = 21 /\ Doubled(21) = 42 /\ Doubled(42) = 84
    BY DEF Doubled, add, Bit
  <2> QED
    BY <1>8, <2>1, ExpDoubles
<1>10. /\ EXP[145] = 168 /\ EXP[146] = 77 /\ EXP[147] = 154 /\ EXP[148] = 41 /\ EXP[149] = 82
       /\ EXP[150] = 164 /\ EXP[151] = 85 /\ EXP[152] = 170 /\ EXP[153] = 73 /\ EXP[154] = 146
       /\ EXP[155] = 57 /\ EXP[156] = 114 /\ EXP[157] = 228 /\ EXP[158] = 213 /\ EXP[159] = 183
       /\ EXP[160] = 115
  <2>1. /\ Doubled(84) = 168 /\ Doubled(168) = 77 /\ Doubled(77) = 154 /\ Doubled(154) = 41
        /\ Doubled(41) = 82 /\ Doubled(82) = 164 /\ Doubled(164) = 85 /\ Doubled(85) = 170
        /\ Doubled(170) = 73 /\ Doubled(73) = 146 /\ Doubled(146) = 57 /\ Doubled(57) = 114
        /\ Doubled(114) = 228 /\ Doubled(228) = 213 /\ Doubled(213) = 183 /\ Doubled(183) = 115
    BY DEF Doubled, add, Bit
  <2> QED
    BY <1>9, <2>1, ExpDoubles
<1>11. /\ EXP[161] = 230 /\ EXP[162] = 209 /\ EXP[163] = 191 /\ EXP[164] = 99 /\ EXP[165] = 198
       /\ EXP[166] = 145 /\ EXP[167] = 63 /\ EXP[168] = 126 /\ EXP[169] = 252 /\ EXP[170] = 229
       /\ EXP[171] = 215 /\ EXP[172] = 179 /\ EXP[173] = 123 /\ EXP[174] = 246 /\ EXP[175] = 241
       /\ EXP[176] = 255
  <2>1. /\ Doubled(115) = 230 /\ Doubled(230) = 209 /\ Doubled(209) = 191 /\ Doubled(191) = 99
        /\ Doubled(99) = 198 /\ Doubled(198) = 145 /\ Doubled(145) = 63 /\ Doubled(63) = 126
        /\ Doubled(126) = 252 /\ Doubled(252) = 229 /\ Doubled(229) = 215 /\ Doubled(215) = 179
        /\ Doubled(179) = 123 /\ Doubled(123) = 246 /\ Doubled(246) = 241 /\ Doubled(241) = 255
    BY DEF Doubled, add, Bit
  <2> QED
    BY <1>10, <2>1, ExpDoubles
<1>12. /\ EXP[177] = 227 /\ EXP[178] = 219 /\ EXP[179] = 171 /\ EXP[180] = 75 /\ EXP[181] = 150
       /\ EXP[182] = 49 /\ EXP[183] = 98 /\ EXP[184] = 196 /\ EXP[185] = 149 /\ EXP[186] = 55
       /\ EXP[187] = 110 /\ EXP[188] = 220 /\ EXP[189] = 165 /\ EXP[190] = 87 /\ EXP[191] = 174
       /\ EXP[192] = 65
  <2>1. /\ Doubled(255) = 227 /\ Doubled(227) = 219 /\ Doubled(219) = 171 /\ Doubled(171) = 75
        /\ Doubled(75) = 150 /\ Doubled(150) = 49 /\ Doubled(49) = 98 /\ Doubled(98) = 196
        /\ Doubled(196) = 149 /\ Doubled(149) = 55 /\ Doubled(55) = 110 /\ Doubled(110) = 220
        /\ Doubled(220) = 165 /\ Doubled(165) = 87 /\ Doubled(87) = 174 /\ Doubled(174) = 65
    BY DEF Doubled, add, Bit
  <2> QED
    BY <1>11, <2>1, ExpDoubles
<1>13. /\ EXP[193] = 130 /\ EXP[194] = 25 /\ EXP[195] = 50 /\ EXP[196] = 100 /\ EXP[197] = 200
       /\ EXP[198] = 141 /\ EXP[199] = 7 /\ EXP[200] = 14 /\ EXP[201] = 28 /\ EXP[202] = 56
       /\ EXP[203] = 112 /\ EXP[204] = 224 /\ EXP[205] = 221 /\ EXP[206] = 167 /\ EXP[207] = 83
       /\ EXP[208] = 166
  <2>1. /\ Doubled(65) = 130 /\ Doubled(130) = 25 /\ Doubled(25) = 50 /\ Doubled(50) = 100
        /\ Doubled(100) = 200 /\ Doubled(200) = 141 /\ Doubled(141) = 7 /\ Doubled(7) = 14
        /\ Doubled(14) = 28 /\ Doubled(28) = 56 /\ Doubled(56) = 112 /\ Doubled(112) = 224
        /\ Doubled(224) = 221 /\ Doubled(221) = 167 /\ Doubled(167) = 83 /\ Doubled(83) = 166
    BY DEF Doubled, add, Bit
  <2> QED
    BY <1>12, <2>1, ExpDoubles
<1>14. /\ EXP[209] = 81 /\ EXP[210] = 162 /\ EXP[211] = 89 /\ EXP[212] = 178 /\ EXP[213] = 121
       /\ EXP[214] = 242 /\ EXP[215] = 249 /\ EXP[216] = 239 /\ EXP[217] = 195 /\ EXP[218] = 155
       /\ EXP[219] = 43 /\ EXP[220] = 86 /\ EXP[221] = 172 /\ EXP[222] = 69 /\ EXP[223] = 138
       /\ EXP[224] = 9
  <2>1. /\ Doubled(166) = 81 /\ Doubled(81) = 162 /\ Doubled(162) = 89 /\ Doubled(89) = 178
        /\ Doubled(178) = 121 /\ Doubled(121) = 242 /\ Doubled(242) = 249 /\ Doubled(249) = 239
        /\ Doubled(239) = 195 /\ Doubled(195) = 155 /\ Doubled(155) = 43 /\ Doubled(43) = 86
        /\ Doubled(86) = 172 /\ Doubled(172) = 69 /\ Doubled(69) = 138 /\ Doubled(138) = 9
    BY DEF Doubled, add, Bit
  <2> QED
    BY <1>13, <2>1, ExpDoubles
<1>15. /\ EXP[225] = 18 /\ EXP[226] = 36 /\ EXP[227] = 72 /\ EXP[228] = 144 /\ EXP[229] = 61
       /\ EXP[230] = 122 /\ EXP[231] = 244 /\ EXP[232] = 245 /\ EXP[233] = 247 /\ EXP[234] = 243
       /\ EXP[235] = 251 /\ EXP[236] = 235 /\ EXP[237] = 203 /\ EXP[238] = 139 /\ EXP[239] = 11
       /\ EXP[240] = 22
  <2>1. /\ Doubled(9) = 18 /\ Doubled(18) = 36 /\ Doubled(36) = 72 /\ Doubled(72) = 144
        /\ Doubled(144) = 61 /\ Doubled(61) = 122 /\ Doubled(122) = 244 /\ Doubled(244) = 245
        /\ Doubled(245) = 247 /\ Doubled(247) = 243 /\ Doubled(243) = 251 /\ Doubled(251) = 235
        /\ Doubled(235) = 203 /\ Doubled(203) = 139 /\ Doubled(139) = 11 /\ Doubled(11) = 22
    BY DEF Doubled, add, Bit
  <2> QED
    BY <1>14, <2>1, ExpDoubles
<1>16. /\ EXP[241] = 44 /\ EXP[242] = 88 /\ EXP[243] = 176 /\ EXP[244] = 125 /\ EXP[245] = 250
       /\ EXP[246] = 233 /\ EXP[247] = 207 /\ EXP[248] = 131 /\ EXP[249] = 27 /\ EXP[250] = 54
       /\ EXP[251] = 108 /\ EXP[252] = 216 /\ EXP[253] = 173 /\ EXP[254] = 71 /\ EXP[255] = 142
  <2>1. /\ Doubled(22) = 44 /\ Doubled(44) = 88 /\ Doubled(88) = 176 /\ Doubled(176) = 125
        /\ Doubled(125) = 250 /\ Doubled(250) = 233 /\ Doubled(233) = 207 /\ Doubled(207) = 131
        /\ Doubled(131) = 27 /\ Doubled(27) = 54 /\ Doubled(54) = 108 /\ Doubled(108) = 216
        /\ Doubled(216) = 173 /\ Doubled(173) = 71 /\ Doubled(71) = 142
    BY DEF Doubled, add, Bit
  <2> QED
    BY <1>15, <2>1, ExpDoubles
<1>17. \A x \in 1 .. 32 : \E i \in 1 .. 255 : EXP[i] = x
  BY <1>1, <1>2, <1>3, <1>4, <1>5, <1>6, <1>7, <1>8, <1>9, <1>10,
     <1>11, <1>12, <1>13, <1>14, <1>15, <1>16
<1>18. \A x \in 33 .. 64 : \E i \in 1 .. 255 : EXP[i] = x
  BY <1>1, <1>2, <1>3, <1>4, <1>5, <1>6, <1>7, <1>8, <1>9, <1>10,
     <1>11, <1>12, <1>13, <1>14, <1>15, <1>16
<1>19. \A x \in 65 .. 96 : \E i \in 1 .. 255 : EXP[i] = x
  BY <1>1, <1>2, <1>3, <1>4, <1>5, <1>6, <1>7, <1>8, <1>9, <1>10,
     <1>11, <1>12, <1>13, <1>14, <1>15, <1>16
<1>20. \A x \in 97 .. 128 : \E i \in 1 .. 255 : EXP[i] = x
  BY <1>1, <1>2, <1>3, <1>4, <1>5, <1>6, <1>7, <1>8, <1>9, <1>10,
     <1>11, <1>12, <1>13, <1>14, <1>15, <1>16
<1>21. \A x \in 129 .. 160 : \E i \in 1 .. 255 : EXP[i] = x
  BY <1>1, <1>2, <1>3, <1>4, <1>5, <1>6, <1>7, <1>8, <1>9, <1>10,
     <1>11, <1>12, <1>13, <1>14, <1>15, <1>16
<1>22. \A x \in 161 .. 192 : \E i \in 1 .. 255 : EXP[i] = x
  BY <1>1, <1>2, <1>3, <1>4, <1>5, <1>6, <1>7, <1>8, <1>9, <1>10,
     <1>11, <1>12, <1>13, <1>14, <1>15, <1>16
<1>23. \A x \in 193 .. 224 : \E i \in 1 .. 255 : EXP[i] = x
  BY <1>1, <1>2, <1>3, <1>4, <1>5, <1>6, <1>7, <1>8, <1>9, <1>10,
     <1>11, <1>12, <1>13, <1>14, <1>15, <1>16
<1>24. \A x \in 225 .. 255 : \E i \in 1 .. 255 : EXP[i] = x
  BY <1>1, <1>2, <1>3, <1>4, <1>5, <1>6, <1>7, <1>8, <1>9, <1>10,
     <1>11, <1>12, <1>13, <1>14, <1>15, <1>16
<1>25. ASSUME NEW x \in 1 .. 255 PROVE \E i \in 1 .. 255 : EXP[i] = x
  <2>1. CASE x \in 1 .. 32
    BY <1>17, <2>1
  <2>2. CASE x \in 33 .. 64
    BY <1>18, <2>2
  <2>3. CASE x \in 65 .. 96
    BY <1>19, <2>3
  <2>4. CASE x \in 97 .. 128
    BY <1>20, <2>4
  <2>5. CASE x \in 129 .. 160
    BY <1>21, <2>5
  <2>6. CASE x \in 161 .. 192
    BY <1>22, <2>6
  <2>7. CASE x \in 193 .. 224
    BY <1>23, <2>7
  <2>8. CASE x \in 225 .. 255
    BY <1>24, <2>8
  <2> QED
    BY <2>1, <2>2, <2>3, <2>4, <2>5, <2>6, <2>7, <2>8
<1> QED
  BY <1>16, <1>25

\* Every byte but 0 is one power of 2 only.
LEMMA ExpIsBijection ==
  /\ \A i \in 1 .. 255 : EXP[i] \in 1 .. 255
  /\ \A i, j \in 1 .. 255 : EXP[i] = EXP[j] => i = j
<1> DEFINE S == 1 .. 255
<1>1. IsFiniteSet(S) /\ Cardinality(S) = 255
  <2>1. ASSUME NEW n \in Nat, n > 0 PROVE IsFiniteSet(1 .. n) /\ Cardinality(1 .. n) = n
    <3>1. IsFiniteSet(1 .. n) /\ Cardinality(1 .. n) = IF 1 > n THEN 0 ELSE n - 1 + 1
      BY FS_Interval
    <3> QED
      BY <3>1
  <2> DEFINE n == 255
  <2>2. n \in Nat /\ n > 0
    OBVIOUS
  <2> HIDE DEF n
  <2>3. IsFiniteSet(1 .. n) /\ Cardinality(1 .. n) = n
    BY <2>1, <2>2
  <2> QED
    BY <2>3 DEF n
<1> DEFINE f == [x \in S |-> CHOOSE i \in S : EXP[i] = x]
<1>2. \A x \in S : f[x] \in S /\ EXP[f[x]] = x
  BY ExpOnto
<1>3. f \in [S -> S]
  BY <1>2
<1> HIDE DEF f
<1>4. \A x, y \in S : f[x] = f[y] => x = y
  BY <1>2
<1>5. f \in Injection(S, S)
  <2> HIDE DEF S
  <2> QED
    BY <1>3, <1>4 DEF Injection, IsInjective
<1>6. f \in Surjection(S, S)
  <2> HIDE DEF S
  <2> QED
    BY <1>1, <1>5, FS_Injection
<1>7. \A i \in S : \E x \in S : f[x] = i
  <2> HIDE DEF S
  <2> QED
    BY <1>6 DEF Surjection
<1>8. \A i \in S : EXP[i] \in S /\ f[EXP[i]] = i
  <2> HIDE DEF S
  <2> QED
    BY <1>2, <1>7
<1>9. \A i, j \in S : EXP[i] = EXP[j] => i = j
  BY <1>8
<1> QED
  BY <1>8, <1>9

\* The two tables undo each other.
LEMMA LogUndoesExp ==
  /\ \A x \in 1 .. 255 : LOG[x] \in 0 .. 254 /\ EXP[LOG[x] + 1] = x
  /\ \A i \in 0 .. 254 : EXP[i + 1] \in 1 .. 255 /\ LOG[EXP[i + 1]] = i
<1>1. ASSUME NEW x \in 1 .. 255 PROVE LOG[x] \in 0 .. 254 /\ EXP[LOG[x] + 1] = x
  <2>1. PICK j \in 1 .. 255 : EXP[j] = x
    BY ExpOnto
  <2>2. j - 1 \in 0 .. 254 /\ EXP[(j - 1) + 1] = x
    BY <2>1
  <2> DEFINE l == CHOOSE i \in 0 .. 254 : EXP[i + 1] = x
  <2>3. LOG[x] = l
    BY DEF LOG
  <2>4. l \in 0 .. 254 /\ EXP[l + 1] = x
    BY <2>2
  <2> HIDE DEF l
  <2> QED
    BY <2>3, <2>4
<1>2. ASSUME NEW i \in 0 .. 254 PROVE EXP[i + 1] \in 1 .. 255 /\ LOG[EXP[i + 1]] = i
  <2>1. i + 1 \in 1 .. 255
    OBVIOUS
  <2>2. EXP[i + 1] \in 1 .. 255
    BY <2>1, ExpIsBijection
  <2> DEFINE l == LOG[EXP[i + 1]]
  <2>3. l \in 0 .. 254 /\ EXP[l + 1] = EXP[i + 1]
    BY <1>1, <2>2
  <2> HIDE DEF l
  <2>4. l + 1 \in 1 .. 255
    BY <2>3
  <2>6. l + 1 = i + 1
    BY <2>1, <2>3, <2>4, ExpIsBijection
  <2>5. l = i
    BY <2>3, <2>6
  <2> QED
    BY <2>2, <2>5 DEF l
<1> QED
  BY <1>1, <1>2

\* The byte that is a power of 2, the exponents counted modulo 255.
Power(i) == EXP[(i % 255) + 1]

\* The power of 2 whose exponent LOG gives.
LEMMA PowerOfLog ==
  /\ \A x \in 1 .. 255 : LOG[x] \in 0 .. 254 /\ Power(LOG[x]) = x
  /\ \A i \in Int : Power(i) \in 1 .. 255 /\ LOG[Power(i)] = i % 255
<1>1. ASSUME NEW x \in 1 .. 255 PROVE LOG[x] \in 0 .. 254 /\ Power(LOG[x]) = x
  <2>1. LOG[x] \in 0 .. 254 /\ EXP[LOG[x] + 1] = x
    BY LogUndoesExp
  <2>2. LOG[x] % 255 = LOG[x]
    BY <2>1
  <2> QED
    BY <2>1, <2>2 DEF Power
<1>2. ASSUME NEW i \in Int PROVE Power(i) \in 1 .. 255 /\ LOG[Power(i)] = i % 255
  <2>1. i % 255 \in 0 .. 254
    OBVIOUS
  <2> QED
    BY <2>1, LogUndoesExp DEF Power
<1> QED
  BY <1>1, <1>2

\* Exponents are added.
LEMMA MulOfPowers ==
  /\ \A i, j \in Int : mul(Power(i), Power(j)) = Power(i + j)
  /\ \A i, j \in Int : div(Power(i), Power(j)) = Power(i - j)
<1> SUFFICES ASSUME NEW i \in Int, NEW j \in Int
             PROVE  /\ mul(Power(i), Power(j)) = Power(i + j)
                    /\ div(Power(i), Power(j)) = Power(i - j)
  OBVIOUS
<1> DEFINE a == Power(i)
<1> DEFINE b == Power(j)
<1>1. a \in 1 .. 255 /\ b \in 1 .. 255 /\ LOG[a] = i % 255 /\ LOG[b] = j % 255
  BY PowerOfLog
<1>2. /\ ((i % 255) + (j % 255)) % 255 = (i + j) % 255
      /\ ((i % 255) - (j % 255)) % 255 = (i - j) % 255
  OBVIOUS
<1> HIDE DEF a, b
<1>3. mul(a, b) = EXP[(((i % 255) + (j % 255)) % 255) + 1]
  BY <1>1 DEF mul
<1>4. div(a, b) = EXP[(((i % 255) - (j % 255)) % 255) + 1]
  BY <1>1 DEF div
<1> QED
  BY <1>2, <1>3, <1>4 DEF Power, a, b

\* The bytes but 0 are the powers.
LEMMA ByteIsPower == \A x \in Byte : x = 0 \/ \E i \in Int : x = Power(i)
<1> SUFFICES ASSUME NEW x \in Byte, x # 0 PROVE \E i \in Int : x = Power(i)
  OBVIOUS
<1>1. x \in 1 .. 255
  BY DEF Byte
<1>2. LOG[x] \in 0 .. 254 /\ Power(LOG[x]) = x
  BY <1>1, PowerOfLog
<1>3. LOG[x] \in Int
  BY <1>2
<1> QED
  BY <1>2, <1>3

\* A power is such a byte.
LEMMA PowerIsByte == \A i \in Int : Power(i) \in Byte /\ Power(i) # 0
<1> SUFFICES ASSUME NEW i \in Int PROVE Power(i) \in Byte /\ Power(i) # 0
  OBVIOUS
<1>1. Power(i) \in 1 .. 255
  BY PowerOfLog
<1> QED
  BY <1>1 DEF Byte

\* Multiplication: it annihilates, stays in the bytes, commutes, associates, and
\* has 1 for its unit.
LEMMA MulZero == \A x \in Byte : mul(x, 0) = 0 /\ mul(0, x) = 0
BY DEF mul

LEMMA MulType == \A a, b \in Byte : mul(a, b) \in Byte
<1>0. 0 \in Byte
  BY DEF Byte
<1> SUFFICES ASSUME NEW a \in Byte, NEW b \in Byte, a # 0, b # 0 PROVE mul(a, b) \in Byte
  BY <1>0, MulZero
<1>1. PICK i \in Int : a = Power(i)
  BY ByteIsPower
<1>2. PICK j \in Int : b = Power(j)
  BY ByteIsPower
<1>3. i + j \in Int /\ mul(a, b) = Power(i + j)
  BY <1>1, <1>2, MulOfPowers
<1> QED
  BY <1>3, PowerIsByte

LEMMA MulCommutes == \A a, b \in Byte : mul(a, b) = mul(b, a)
<1> SUFFICES ASSUME NEW a \in Byte, NEW b \in Byte, a # 0, b # 0
             PROVE  mul(a, b) = mul(b, a)
  BY MulZero
<1>1. PICK i \in Int : a = Power(i)
  BY ByteIsPower
<1>2. PICK j \in Int : b = Power(j)
  BY ByteIsPower
<1>3. i + j = j + i
  OBVIOUS
<1> QED
  BY <1>1, <1>2, <1>3, MulOfPowers

LEMMA MulAssociates == \A a, b, c \in Byte : mul(mul(a, b), c) = mul(a, mul(b, c))
<1>1. ASSUME NEW a \in Byte, NEW b \in Byte, NEW c \in Byte, a # 0, b # 0, c # 0
      PROVE  mul(mul(a, b), c) = mul(a, mul(b, c))
  <2>1. PICK i \in Int : a = Power(i)
    BY <1>1, ByteIsPower
  <2>2. PICK j \in Int : b = Power(j)
    BY <1>1, ByteIsPower
  <2>3. PICK k \in Int : c = Power(k)
    BY <1>1, ByteIsPower
  <2>4. (i + j) + k = i + (j + k) /\ i + j \in Int /\ j + k \in Int
    OBVIOUS
  <2>5. mul(mul(a, b), c) = Power((i + j) + k)
    BY <2>1, <2>2, <2>3, <2>4, MulOfPowers
  <2>6. mul(a, mul(b, c)) = Power(i + (j + k))
    BY <2>1, <2>2, <2>3, <2>4, MulOfPowers
  <2> QED
    BY <2>4, <2>5, <2>6
<1> SUFFICES ASSUME NEW a \in Byte, NEW b \in Byte, NEW c \in Byte, a = 0 \/ b = 0 \/ c = 0
             PROVE  mul(mul(a, b), c) = mul(a, mul(b, c))
  BY <1>1
<1>2. mul(a, b) \in Byte /\ mul(b, c) \in Byte
  BY MulType
<1> QED
  BY <1>2, MulZero

LEMMA MulOne == \A x \in Byte : mul(x, 1) = x /\ mul(1, x) = x
<1> SUFFICES ASSUME NEW x \in Byte, x # 0 PROVE mul(x, 1) = x /\ mul(1, x) = x
  BY DEF mul
<1>1. PICK i \in Int : x = Power(i)
  BY ByteIsPower
<1>2. 1 = Power(0)
  BY ExpDoubles DEF Power
<1>3. i + 0 = i /\ 0 + i = i
  OBVIOUS
<1> QED
  BY <1>1, <1>2, <1>3, MulOfPowers

\* A product is 0 only if a factor is.
LEMMA MulNonzero == \A a, b \in Byte : a # 0 /\ b # 0 => mul(a, b) # 0
<1> SUFFICES ASSUME NEW a \in Byte, NEW b \in Byte, a # 0, b # 0 PROVE mul(a, b) # 0
  OBVIOUS
<1>1. PICK i \in Int : a = Power(i)
  BY ByteIsPower
<1>2. PICK j \in Int : b = Power(j)
  BY ByteIsPower
<1>3. i + j \in Int
  OBVIOUS
<1> QED
  BY <1>1, <1>2, <1>3, MulOfPowers, PowerIsByte

\* Division undoes multiplication.
LEMMA DivUndoesMul ==
  \A a, b \in Byte : b # 0 => div(a, b) \in Byte /\ div(mul(a, b), b) = a
                               /\ mul(div(a, b), b) = a
<1> SUFFICES ASSUME NEW a \in Byte, NEW b \in Byte, b # 0
             PROVE  div(a, b) \in Byte /\ div(mul(a, b), b) = a /\ mul(div(a, b), b) = a
  OBVIOUS
<1>1. CASE a = 0
  BY <1>1, MulZero DEF div, Byte
<1>2. CASE a # 0
  <2>1. PICK i \in Int : a = Power(i)
    BY <1>2, ByteIsPower
  <2>2. PICK j \in Int : b = Power(j)
    BY ByteIsPower
  <2>3. (i + j) - j = i /\ (i - j) + j = i /\ i + j \in Int /\ i - j \in Int
    OBVIOUS
  <2>4. div(a, b) = Power(i - j) /\ mul(a, b) = Power(i + j)
    BY <2>1, <2>2, MulOfPowers
  <2>5. div(Power(i + j), b) = Power((i + j) - j) /\ mul(Power(i - j), b) = Power((i - j) + j)
    BY <2>2, <2>3, MulOfPowers
  <2>6. Power(i - j) \in Byte
    BY <2>3, PowerIsByte
  <2> QED
    BY <2>1, <2>3, <2>4, <2>5, <2>6
<1> QED
  BY <1>1, <1>2

\* Doubling goes from one power to the next, from the last one to the first.
LEMMA DoubledPower == \A i \in Int : Doubled(Power(i)) = Power(i + 1)
<1> SUFFICES ASSUME NEW i \in Int PROVE Doubled(Power(i)) = Power(i + 1)
  OBVIOUS
<1> DEFINE k == i % 255
<1>1. k \in 0 .. 254 /\ (i + 1) % 255 = IF k = 254 THEN 0 ELSE k + 1
  OBVIOUS
<1>2. Power(i) = EXP[k + 1] /\ Power(i + 1) = EXP[(IF k = 254 THEN 0 ELSE k + 1) + 1]
  BY <1>1 DEF Power
<1> HIDE DEF k
<1>3. CASE k = 254
  <2>0. k + 1 = 255 /\ (IF k = 254 THEN 0 ELSE k + 1) + 1 = 1
    BY <1>3
  <2>1. Power(i) = 142 /\ Power(i + 1) = 1
    <3>1. EXP[255] = 142 /\ EXP[1] = 1
      BY ExpOnto, ExpDoubles
    <3> QED
      BY <1>2, <2>0, <3>1
  <2>2. Doubled(142) = 1
    BY DEF Doubled, add, Bit
  <2> QED
    BY <2>1, <2>2
<1>4. CASE k # 254
  <2>1. k + 1 \in 1 .. 254
    BY <1>1, <1>4
  <2>2. EXP[(k + 1) + 1] = Doubled(EXP[k + 1])
    BY <2>1, ExpDoubles
  <2> QED
    BY <1>2, <1>4, <2>2
<1> QED
  BY <1>3, <1>4

\* Multiplication by one power more is one doubling more.
LEMMA MulByNextPower ==
  \A k \in Int : \A x \in Byte : mul(Power(k + 1), x) = Doubled(mul(Power(k), x))
<1> SUFFICES ASSUME NEW k \in Int, NEW x \in Byte
             PROVE  mul(Power(k + 1), x) = Doubled(mul(Power(k), x))
  OBVIOUS
<1>1. CASE x = 0
  <2>1. Doubled(0) = 0 /\ k + 1 \in Int
    BY DEF Doubled
  <2> QED
    BY <1>1, <2>1, PowerIsByte, MulZero
<1>2. CASE x # 0
  <2>1. PICK i \in Int : x = Power(i)
    BY <1>2, ByteIsPower
  <2>2. k + 1 \in Int /\ k + i \in Int /\ (k + 1) + i = (k + i) + 1
    OBVIOUS
  <2>3. mul(Power(k + 1), x) = Power((k + 1) + i) /\ mul(Power(k), x) = Power(k + i)
    BY <2>1, <2>2, MulOfPowers
  <2> QED
    BY <2>2, <2>3, DoubledPower
<1> QED
  BY <1>1, <1>2

\* Multiplication distributes over exclusive or.
LEMMA MulDistributes ==
  \A c, a, b \in Byte : /\ mul(c, add(a, b)) = add(mul(c, a), mul(c, b))
                        /\ mul(add(a, b), c) = add(mul(a, c), mul(b, c))
<1>1. ASSUME NEW a \in Byte, NEW b \in Byte
      PROVE  \A k \in Nat : mul(Power(k), add(a, b)) = add(mul(Power(k), a), mul(Power(k), b))
  <2> DEFINE c == add(a, b)
  <2> DEFINE G == {k \in Nat : mul(Power(k), c) = add(mul(Power(k), a), mul(Power(k), b))}
  <2>1. c \in Byte
    BY AddType
  <2>2. 0 \in G
    <3>1. Power(0) = 1
      BY ExpDoubles DEF Power
    <3>2. mul(1, c) = c /\ mul(1, a) = a /\ mul(1, b) = b
      BY <2>1, MulOne
    <3> QED
      BY <3>1, <3>2
  <2>3. ASSUME NEW k \in Nat, k \in G PROVE k + 1 \in G
    <3> DEFINE ma == mul(Power(k), a)
    <3> DEFINE mb == mul(Power(k), b)
    <3>1. /\ mul(Power(k + 1), c) = Doubled(mul(Power(k), c))
          /\ mul(Power(k + 1), a) = Doubled(ma) /\ mul(Power(k + 1), b) = Doubled(mb)
      BY <2>1, MulByNextPower
    <3>2. mul(Power(k), c) = add(ma, mb)
      BY <2>3
    <3>3. ma \in Byte /\ mb \in Byte
      BY PowerIsByte, MulType
    <3> HIDE DEF ma, mb
    <3>4. Doubled(add(ma, mb)) = add(Doubled(ma), Doubled(mb))
      BY <3>3, DoubledAdds
    <3> QED
      BY <3>1, <3>2, <3>4
  <2> HIDE DEF G
  <2>4. \A k \in Nat : k \in G
    BY <2>2, <2>3, NumberInduction
  <2> QED
    BY <2>4 DEF G
<1>2. ASSUME NEW c \in Byte, NEW a \in Byte, NEW b \in Byte
      PROVE  mul(c, add(a, b)) = add(mul(c, a), mul(c, b))
  <2>1. CASE c = 0
    <3>1. add(0, 0) = 0 /\ add(a, b) \in Byte
      BY <2>1, AddZero, AddType
    <3> QED
      BY <2>1, <3>1, MulZero
  <2>2. CASE c # 0
    <3>1. c \in 1 .. 255
      BY <2>2 DEF Byte
    <3>2. LOG[c] \in 0 .. 254 /\ c = Power(LOG[c])
      BY <3>1, PowerOfLog
    <3>3. LOG[c] \in Nat
      BY <3>2
    <3> QED
      BY <1>1, <3>2, <3>3
  <2> QED
    BY <2>1, <2>2
<1>3. ASSUME NEW c \in Byte, NEW a \in Byte, NEW b \in Byte
      PROVE  mul(add(a, b), c) = add(mul(a, c), mul(b, c))
  BY <1>2, AddType, MulCommutes
<1> QED
  BY <1>2, <1>3

\* What the class GF256 says of itself: bytes are a field under add and mul, in
\* which div undoes mul.
THEOREM BytesAreAField ==
  /\ \A a, b \in Byte : add(a, b) \in Byte /\ mul(a, b) \in Byte
  /\ \A a, b, c \in Byte : /\ add(add(a, b), c) = add(a, add(b, c)) /\ add(a, b) = add(b, a)
                           /\ mul(mul(a, b), c) = mul(a, mul(b, c)) /\ mul(a, b) = mul(b, a)
                           /\ mul(c, add(a, b)) = add(mul(c, a), mul(c, b))
  /\ \A a \in Byte : add(a, 0) = a /\ mul(a, 1) = a /\ add(a, a) = 0
  /\ \A a, b \in Byte : b # 0 => /\ div(a, b) \in Byte
                                 /\ div(mul(a, b), b) = a /\ mul(div(a, b), b) = a
<1>1. \A a, b \in Byte : add(a, b) \in Byte /\ mul(a, b) \in Byte
  BY AddType, MulType
<1>2. \A a, b, c \in Byte : add(add(a, b), c) = add(a, add(b, c)) /\ add(a, b) = add(b, a)
  BY AddAssociates, AddCommutes
<1>3. \A a, b, c \in Byte : mul(mul(a, b), c) = mul(a, mul(b, c)) /\ mul(a, b) = mul(b, a)
  BY MulAssociates, MulCommutes
<1>4. \A a, b, c \in Byte : mul(c, add(a, b)) = add(mul(c, a), mul(c, b))
  BY MulDistributes
<1>5. \A a \in Byte : add(a, 0) = a /\ mul(a, 1) = a /\ add(a, a) = 0
  BY AddZero, MulOne
<1>6. \A a, b \in Byte : b # 0 => /\ div(a, b) \in Byte
                                  /\ div(mul(a, b), b) = a /\ mul(div(a, b), b) = a
  BY DivUndoesMul
<1> QED
  BY <1>1, <1>2, <1>3, <1>4, <1>5, <1>6

\* The factors of two products change partners.
LEMMA MulInterchange ==
  \A a, b, c, d \in Byte : mul(mul(a, c), mul(b, d)) = mul(mul(a, b), mul(c, d))
<1> SUFFICES ASSUME NEW a \in Byte, NEW b \in Byte, NEW c \in Byte, NEW d \in Byte
             PROVE  mul(mul(a, c), mul(b, d)) = mul(mul(a, b), mul(c, d))
  OBVIOUS
<1>1. mul(a, c) \in Byte /\ mul(a, b) \in Byte /\ mul(c, d) \in Byte /\ mul(c, b) \in Byte
  BY MulType
<1>2. mul(mul(a, c), mul(b, d)) = mul(mul(mul(a, c), b), d)
  BY <1>1, MulAssociates
<1>3. mul(mul(a, c), b) = mul(a, mul(c, b)) /\ mul(c, b) = mul(b, c)
  BY MulAssociates, MulCommutes
<1>4. mul(a, mul(b, c)) = mul(mul(a, b), c)
  BY MulAssociates
<1>5. mul(mul(mul(a, b), c), d) = mul(mul(a, b), mul(c, d))
  BY <1>1, MulAssociates
<1> QED
  BY <1>2, <1>3, <1>4, <1>5

-----------------------------------------------------------------------------
(* Running sums and products.                                              *)

\* Running sums and products of bytes are bytes.
LEMMA RunSumsType ==
  ASSUME NEW n \in Nat, NEW v, \A k \in 1 .. n : v[k] \in Byte, NEW f, RunSums(f, v, n)
  PROVE  \A k \in 0 .. n : f[k] \in Byte
<1> DEFINE G == {k \in Nat : k <= n => f[k] \in Byte}
<1>1. 0 \in G
  BY DEF RunSums, Byte
<1>2. ASSUME NEW k \in Nat, k \in G PROVE k + 1 \in G
  <2> SUFFICES ASSUME k + 1 <= n PROVE f[k + 1] \in Byte
    OBVIOUS
  <2>1. k + 1 \in 1 .. n /\ (k + 1) - 1 = k /\ f[k] \in Byte
    BY <1>2
  <2>2. f[k + 1] = add(f[k], v[k + 1]) /\ v[k + 1] \in Byte
    BY <2>1 DEF RunSums
  <2> QED
    BY <2>1, <2>2, AddType
<1> HIDE DEF G
<1>3. \A k \in Nat : k \in G
  BY <1>1, <1>2, NumberInduction
<1> QED
  BY <1>3 DEF G

\* Running products of bytes are bytes.
LEMMA RunProductsType ==
  ASSUME NEW n \in Nat, NEW v, \A k \in 1 .. n : v[k] \in Byte, NEW f, RunProducts(f, v, n)
  PROVE  \A k \in 0 .. n : f[k] \in Byte
<1> DEFINE G == {k \in Nat : k <= n => f[k] \in Byte}
<1>1. 0 \in G
  BY DEF RunProducts, Byte
<1>2. ASSUME NEW k \in Nat, k \in G PROVE k + 1 \in G
  <2> SUFFICES ASSUME k + 1 <= n PROVE f[k + 1] \in Byte
    OBVIOUS
  <2>1. k + 1 \in 1 .. n /\ (k + 1) - 1 = k /\ f[k] \in Byte
    BY <1>2
  <2>2. f[k + 1] = mul(f[k], v[k + 1]) /\ v[k + 1] \in Byte
    BY <2>1 DEF RunProducts
  <2> QED
    BY <2>1, <2>2, MulType
<1> HIDE DEF G
<1>3. \A k \in Nat : k \in G
  BY <1>1, <1>2, NumberInduction
<1> QED
  BY <1>3 DEF G

\* There is a running product of any bytes.
LEMMA ProductsExist ==
  ASSUME NEW n \in Nat, NEW v \in [1 .. n -> Byte]
  PROVE  \E f \in [0 .. n -> Byte] : RunProducts(f, v, n)
<1> DEFINE step == [k \in 1 .. n |-> [x \in Byte |-> mul(x, v[k])]]
<1>1. 1 \in Byte
  BY DEF Byte
<1>2. step \in [1 .. n -> [Byte -> Byte]]
  BY MulType
<1>3. PICK f : IsLoop(f, n, Byte, 1, step)
  <2> HIDE DEF step
  <2> QED
    BY ONLY <1>1, <1>2, n \in Nat, LoopExists
<1>4. ASSUME NEW k \in 1 .. n PROVE f[k] = mul(f[k - 1], v[k])
  <2>1. k - 1 \in 0 .. n
    OBVIOUS
  <2> QED
    BY <1>3, <2>1 DEF IsLoop
<1> QED
  BY <1>3, <1>4 DEF IsLoop, RunProducts

Values(n) == [1 .. n -> Byte]

\* The sum and the product of n values.
Total(v, n) == (CHOOSE f \in [0 .. n -> Byte] : RunSums(f, v, n))[n]

Product(v, n) == (CHOOSE f \in [0 .. n -> Byte] : RunProducts(f, v, n))[n]

\* The running values behind it.
LEMMA TotalRun ==
  ASSUME NEW n \in Nat, NEW v \in Values(n)
  PROVE  \E f : RunSums(f, v, n) /\ f[n] = Total(v, n) /\ \A k \in 0 .. n : f[k] \in Byte
<1> DEFINE f == CHOOSE g \in [0 .. n -> Byte] : RunSums(g, v, n)
<1>1. f \in [0 .. n -> Byte] /\ RunSums(f, v, n)
  BY SumsExist DEF Values
<1>2. f[n] = Total(v, n)
  BY DEF Total
<1> HIDE DEF f
<1> QED
  BY <1>1, <1>2

\* Whatever runs through the same values ends with the same.
LEMMA TotalUnique ==
  ASSUME NEW n \in Nat, NEW v \in Values(n), NEW w, \A k \in 1 .. n : w[k] = v[k],
         NEW f, RunSums(f, w, n)
  PROVE  f[n] = Total(v, n) /\ Total(v, n) \in Byte
<1>1. PICK g : RunSums(g, v, n) /\ g[n] = Total(v, n) /\ \A k \in 0 .. n : g[k] \in Byte
  BY TotalRun
<1> DEFINE G == {k \in Nat : k <= n => f[k] = g[k]}
<1>2. 0 \in G
  BY <1>1 DEF RunSums
<1>3. ASSUME NEW k \in Nat, k \in G PROVE k + 1 \in G
  <2> SUFFICES ASSUME k + 1 <= n PROVE f[k + 1] = g[k + 1]
    OBVIOUS
  <2>1. k + 1 \in 1 .. n /\ (k + 1) - 1 = k /\ f[k] = g[k] /\ w[k + 1] = v[k + 1]
    BY <1>3
  <2>2. f[k + 1] = add(f[k], w[k + 1]) /\ g[k + 1] = add(g[k], v[k + 1])
    BY <1>1, <2>1 DEF RunSums
  <2> QED
    BY <2>1, <2>2
<1> HIDE DEF G
<1>4. \A k \in Nat : k \in G
  BY <1>2, <1>3, NumberInduction
<1>5. f[n] = g[n]
  BY <1>4 DEF G
<1>6. n \in 0 .. n
  OBVIOUS
<1> QED
  BY <1>1, <1>5, <1>6

\* The running values behind it.
LEMMA ProductRun ==
  ASSUME NEW n \in Nat, NEW v \in Values(n)
  PROVE  \E f : RunProducts(f, v, n) /\ f[n] = Product(v, n) /\ \A k \in 0 .. n : f[k] \in Byte
<1> DEFINE f == CHOOSE g \in [0 .. n -> Byte] : RunProducts(g, v, n)
<1>1. f \in [0 .. n -> Byte] /\ RunProducts(f, v, n)
  BY ProductsExist DEF Values
<1>2. f[n] = Product(v, n)
  BY DEF Product
<1> HIDE DEF f
<1> QED
  BY <1>1, <1>2

\* Whatever runs through the same values ends with the same.
LEMMA ProductUnique ==
  ASSUME NEW n \in Nat, NEW v \in Values(n), NEW w, \A k \in 1 .. n : w[k] = v[k],
         NEW f, RunProducts(f, w, n)
  PROVE  f[n] = Product(v, n) /\ Product(v, n) \in Byte
<1>1. PICK g : RunProducts(g, v, n) /\ g[n] = Product(v, n) /\ \A k \in 0 .. n : g[k] \in Byte
  BY ProductRun
<1> DEFINE G == {k \in Nat : k <= n => f[k] = g[k]}
<1>2. 0 \in G
  BY <1>1 DEF RunProducts
<1>3. ASSUME NEW k \in Nat, k \in G PROVE k + 1 \in G
  <2> SUFFICES ASSUME k + 1 <= n PROVE f[k + 1] = g[k + 1]
    OBVIOUS
  <2>1. k + 1 \in 1 .. n /\ (k + 1) - 1 = k /\ f[k] = g[k] /\ w[k + 1] = v[k + 1]
    BY <1>3
  <2>2. f[k + 1] = mul(f[k], w[k + 1]) /\ g[k + 1] = mul(g[k], v[k + 1])
    BY <1>1, <2>1 DEF RunProducts
  <2> QED
    BY <2>1, <2>2
<1> HIDE DEF G
<1>4. \A k \in Nat : k \in G
  BY <1>2, <1>3, NumberInduction
<1>5. f[n] = g[n]
  BY <1>4 DEF G
<1>6. n \in 0 .. n
  OBVIOUS
<1> QED
  BY <1>1, <1>5, <1>6

\* The sum of sums.
LEMMA TotalAdd ==
  ASSUME NEW n \in Nat, NEW v \in Values(n), NEW w \in Values(n), NEW u \in Values(n),
         \A i \in 1 .. n : u[i] = add(v[i], w[i])
  PROVE  Total(u, n) = add(Total(v, n), Total(w, n))
<1>1. PICK f : RunSums(f, v, n) /\ f[n] = Total(v, n) /\ \A k \in 0 .. n : f[k] \in Byte
  BY TotalRun
<1>2. PICK g : RunSums(g, w, n) /\ g[n] = Total(w, n) /\ \A k \in 0 .. n : g[k] \in Byte
  BY TotalRun
<1> DEFINE h == [k \in 0 .. n |-> add(f[k], g[k])]
<1>3. h[0] = 0
  <2>1. 0 \in 0 .. n /\ 0 \in Byte /\ f[0] = 0 /\ g[0] = 0
    BY <1>1, <1>2 DEF RunSums, Byte
  <2> QED
    BY <2>1, AddZero
<1>4. ASSUME NEW k \in 1 .. n PROVE h[k] = add(h[k - 1], u[k])
  <2>1. k \in 0 .. n /\ k - 1 \in 0 .. n
    OBVIOUS
  <2> DEFINE a == f[k - 1]
  <2> DEFINE b == g[k - 1]
  <2> DEFINE c == v[k]
  <2> DEFINE d == w[k]
  <2>2. a \in Byte /\ b \in Byte /\ c \in Byte /\ d \in Byte
    BY <1>1, <1>2, <2>1 DEF Values
  <2>3. h[k] = add(add(a, c), add(b, d)) /\ h[k - 1] = add(a, b) /\ u[k] = add(c, d)
    BY <1>1, <1>2, <2>1 DEF RunSums
  <2> HIDE DEF a, b, c, d
  <2>4. add(add(a, c), add(b, d)) = add(add(a, b), add(c, d))
    BY <2>2, AddInterchange
  <2> HIDE DEF h
  <2> QED
    BY <2>3, <2>4
<1>5. RunSums(h, u, n) /\ h[n] = add(f[n], g[n])
  <2>1. n \in 0 .. n
    OBVIOUS
  <2> QED
    BY <1>3, <1>4, <2>1 DEF RunSums
<1> HIDE DEF h
<1>6. h[n] = Total(u, n)
  BY <1>5, TotalUnique
<1> QED
  BY <1>1, <1>2, <1>5, <1>6

\* A common factor.
LEMMA TotalScale ==
  ASSUME NEW n \in Nat, NEW v \in Values(n), NEW u \in Values(n), NEW c \in Byte,
         \A i \in 1 .. n : u[i] = mul(c, v[i])
  PROVE  Total(u, n) = mul(c, Total(v, n))
<1>1. PICK f : RunSums(f, v, n) /\ f[n] = Total(v, n) /\ \A k \in 0 .. n : f[k] \in Byte
  BY TotalRun
<1> DEFINE h == [k \in 0 .. n |-> mul(c, f[k])]
<1>2. h[0] = 0
  <2>1. 0 \in 0 .. n /\ f[0] = 0
    BY <1>1 DEF RunSums
  <2> QED
    BY <2>1, MulZero
<1>3. ASSUME NEW k \in 1 .. n PROVE h[k] = add(h[k - 1], u[k])
  <2>1. k \in 0 .. n /\ k - 1 \in 0 .. n
    OBVIOUS
  <2>2. f[k - 1] \in Byte /\ v[k] \in Byte
    BY <1>1, <2>1 DEF Values
  <2>3. h[k] = mul(c, add(f[k - 1], v[k])) /\ h[k - 1] = mul(c, f[k - 1]) /\ u[k] = mul(c, v[k])
    BY <1>1, <2>1 DEF RunSums
  <2> HIDE DEF h
  <2> QED
    BY <2>2, <2>3, MulDistributes
<1>4. RunSums(h, u, n) /\ h[n] = mul(c, f[n])
  <2>1. n \in 0 .. n
    OBVIOUS
  <2> QED
    BY <1>2, <1>3, <2>1 DEF RunSums
<1> HIDE DEF h
<1>5. h[n] = Total(u, n)
  BY <1>4, TotalUnique
<1> QED
  BY <1>1, <1>4, <1>5

\* A single value that is not 0.
LEMMA TotalSingle ==
  ASSUME NEW n \in Nat, NEW u \in Values(n), NEW i \in 1 .. n,
         \A k \in 1 .. n : k # i => u[k] = 0
  PROVE  Total(u, n) = u[i]
<1> DEFINE h == [k \in 0 .. n |-> IF k < i THEN 0 ELSE u[i]]
<1>1. h[0] = 0
  OBVIOUS
<1>2. ASSUME NEW k \in 1 .. n PROVE h[k] = add(h[k - 1], u[k])
  <2>1. k \in 0 .. n /\ k - 1 \in 0 .. n /\ u[k] \in Byte /\ u[i] \in Byte /\ 0 \in Byte
    BY DEF Values, Byte
  <2>2. h[k] = (IF k < i THEN 0 ELSE u[i]) /\ h[k - 1] = IF k - 1 < i THEN 0 ELSE u[i]
    BY <2>1
  <2> HIDE DEF h
  <2>3. CASE k < i
    <3>1. h[k] = 0 /\ h[k - 1] = 0 /\ u[k] = 0
      BY <2>2, <2>3
    <3> QED
      BY <2>1, <3>1, AddZero
  <2>4. CASE k = i
    <3>1. h[k] = u[i] /\ h[k - 1] = 0 /\ u[k] = u[i]
      BY <2>2, <2>4
    <3> QED
      BY <2>1, <3>1, AddZero
  <2>5. CASE k > i
    <3>1. h[k] = u[i] /\ h[k - 1] = u[i] /\ u[k] = 0
      BY <2>2, <2>5
    <3> QED
      BY <2>1, <3>1, AddZero
  <2> QED
    BY <2>3, <2>4, <2>5
<1>3. RunSums(h, u, n) /\ h[n] = u[i]
  <2>1. n \in 0 .. n /\ ~(n < i)
    OBVIOUS
  <2>2. h[n] = u[i]
    BY <2>1
  <2> HIDE DEF h
  <2> QED
    BY <1>1, <1>2, <2>2 DEF RunSums
<1> HIDE DEF h
<1>4. h[n] = Total(u, n)
  BY <1>3, TotalUnique
<1> QED
  BY <1>3, <1>4

\* The product of products.
LEMMA ProductMul ==
  ASSUME NEW n \in Nat, NEW v \in Values(n), NEW w \in Values(n), NEW u \in Values(n),
         \A i \in 1 .. n : u[i] = mul(v[i], w[i])
  PROVE  Product(u, n) = mul(Product(v, n), Product(w, n))
<1>1. PICK f : RunProducts(f, v, n) /\ f[n] = Product(v, n) /\ \A k \in 0 .. n : f[k] \in Byte
  BY ProductRun
<1>2. PICK g : RunProducts(g, w, n) /\ g[n] = Product(w, n) /\ \A k \in 0 .. n : g[k] \in Byte
  BY ProductRun
<1> DEFINE h == [k \in 0 .. n |-> mul(f[k], g[k])]
<1>3. h[0] = 1
  <2>1. 0 \in 0 .. n /\ 1 \in Byte /\ f[0] = 1 /\ g[0] = 1
    BY <1>1, <1>2 DEF RunProducts, Byte
  <2> QED
    BY <2>1, MulOne
<1>4. ASSUME NEW k \in 1 .. n PROVE h[k] = mul(h[k - 1], u[k])
  <2>1. k \in 0 .. n /\ k - 1 \in 0 .. n
    OBVIOUS
  <2> DEFINE a == f[k - 1]
  <2> DEFINE b == g[k - 1]
  <2> DEFINE c == v[k]
  <2> DEFINE d == w[k]
  <2>2. a \in Byte /\ b \in Byte /\ c \in Byte /\ d \in Byte
    BY <1>1, <1>2, <2>1 DEF Values
  <2>3. h[k] = mul(mul(a, c), mul(b, d)) /\ h[k - 1] = mul(a, b) /\ u[k] = mul(c, d)
    BY <1>1, <1>2, <2>1 DEF RunProducts
  <2> HIDE DEF a, b, c, d
  <2>4. mul(mul(a, c), mul(b, d)) = mul(mul(a, b), mul(c, d))
    BY <2>2, MulInterchange
  <2> HIDE DEF h
  <2> QED
    BY <2>3, <2>4
<1>5. RunProducts(h, u, n) /\ h[n] = mul(f[n], g[n])
  <2>1. n \in 0 .. n
    OBVIOUS
  <2> QED
    BY <1>3, <1>4, <2>1 DEF RunProducts
<1> HIDE DEF h
<1>6. h[n] = Product(u, n)
  BY <1>5, ProductUnique
<1> QED
  BY <1>1, <1>2, <1>5, <1>6

\* A single factor that is not 1.
LEMMA ProductSingle ==
  ASSUME NEW n \in Nat, NEW u \in Values(n), NEW i \in 1 .. n,
         \A k \in 1 .. n : k # i => u[k] = 1
  PROVE  Product(u, n) = u[i]
<1> DEFINE h == [k \in 0 .. n |-> IF k < i THEN 1 ELSE u[i]]
<1>1. h[0] = 1
  OBVIOUS
<1>2. ASSUME NEW k \in 1 .. n PROVE h[k] = mul(h[k - 1], u[k])
  <2>1. k \in 0 .. n /\ k - 1 \in 0 .. n /\ u[k] \in Byte /\ u[i] \in Byte /\ 1 \in Byte
    BY DEF Values, Byte
  <2>2. h[k] = (IF k < i THEN 1 ELSE u[i]) /\ h[k - 1] = IF k - 1 < i THEN 1 ELSE u[i]
    BY <2>1
  <2> HIDE DEF h
  <2>3. CASE k < i
    <3>1. h[k] = 1 /\ h[k - 1] = 1 /\ u[k] = 1
      BY <2>2, <2>3
    <3> QED
      BY <2>1, <3>1, MulOne
  <2>4. CASE k = i
    <3>1. h[k] = u[i] /\ h[k - 1] = 1 /\ u[k] = u[i]
      BY <2>2, <2>4
    <3> QED
      BY <2>1, <3>1, MulOne
  <2>5. CASE k > i
    <3>1. h[k] = u[i] /\ h[k - 1] = u[i] /\ u[k] = 1
      BY <2>2, <2>5
    <3> QED
      BY <2>1, <3>1, MulOne
  <2> QED
    BY <2>3, <2>4, <2>5
<1>3. RunProducts(h, u, n) /\ h[n] = u[i]
  <2>1. n \in 0 .. n /\ ~(n < i)
    OBVIOUS
  <2>2. h[n] = u[i]
    BY <2>1
  <2> HIDE DEF h
  <2> QED
    BY <1>1, <1>2, <2>2 DEF RunProducts
<1> HIDE DEF h
<1>4. h[n] = Product(u, n)
  BY <1>3, ProductUnique
<1> QED
  BY <1>3, <1>4

\* A factor put where there was none.
LEMMA ProductOneMore ==
  ASSUME NEW n \in Nat, NEW v \in Values(n), NEW u \in Values(n), NEW i \in 1 .. n,
         v[i] = 1, \A k \in 1 .. n : k # i => u[k] = v[k]
  PROVE  Product(u, n) = mul(Product(v, n), u[i])
<1> DEFINE w == [k \in 1 .. n |-> IF k = i THEN u[i] ELSE 1]
<1>1. w \in Values(n) /\ w[i] = u[i] /\ \A k \in 1 .. n : k # i => w[k] = 1
  BY DEF Values, Byte
<1>2. ASSUME NEW k \in 1 .. n PROVE u[k] = mul(v[k], w[k])
  <2>1. u[k] \in Byte /\ u[i] \in Byte /\ v[k] \in Byte
    BY DEF Values
  <2> HIDE DEF w
  <2>2. CASE k = i
    BY <1>1, <2>1, <2>2, MulOne
  <2>3. CASE k # i
    BY <1>1, <2>1, <2>3, MulOne
  <2> QED
    BY <2>2, <2>3
<1> HIDE DEF w
<1>3. Product(u, n) = mul(Product(v, n), Product(w, n))
  BY <1>1, <1>2, ProductMul
<1>4. Product(w, n) = u[i]
  BY <1>1, ProductSingle
<1> QED
  BY <1>3, <1>4

\* A product of bytes that are not 0.
LEMMA ProductNonzero ==
  ASSUME NEW n \in Nat, NEW v \in Values(n), \A i \in 1 .. n : v[i] # 0
  PROVE  Product(v, n) # 0
<1>1. PICK f : RunProducts(f, v, n) /\ f[n] = Product(v, n) /\ \A k \in 0 .. n : f[k] \in Byte
  BY ProductRun
<1> DEFINE G == {k \in Nat : k <= n => f[k] # 0}
<1>2. 0 \in G
  BY <1>1 DEF RunProducts
<1>3. ASSUME NEW k \in Nat, k \in G PROVE k + 1 \in G
  <2> SUFFICES ASSUME k + 1 <= n PROVE f[k + 1] # 0
    OBVIOUS
  <2>1. k + 1 \in 1 .. n /\ (k + 1) - 1 = k /\ k \in 0 .. n /\ f[k] # 0
    BY <1>3
  <2>2. f[k + 1] = mul(f[k], v[k + 1]) /\ f[k] \in Byte /\ v[k + 1] \in Byte /\ v[k + 1] # 0
    BY <1>1, <2>1 DEF RunProducts, Values
  <2> QED
    BY <2>1, <2>2, MulNonzero
<1> HIDE DEF G
<1>4. \A k \in Nat : k \in G
  BY <1>2, <1>3, NumberInduction
<1> QED
  BY <1>1, <1>4 DEF G

-----------------------------------------------------------------------------
(* Interpolation at 0.  Points are distinct bytes, none of them 0; what is *)
(* shown of the weights of all n points follows from the same of fewer of  *)
(* them, those from p to q, one of the two ends taken away.                *)

Points(n) == {x \in [1 .. n -> 1 .. 255] : \A i, j \in 1 .. n : i # j => x[i] # x[j]}

\* What the j-th point puts into the weight of the i-th.
Factor(x, i, j) == div(x[j], add(x[i], x[j]))

Factors(x, n, p, q, i) ==
    [j \in 1 .. n |-> IF j \in p .. q /\ j # i THEN Factor(x, i, j) ELSE 1]

Weight(x, n, p, q, i) == Product(Factors(x, n, p, q, i), n)

\* The m-th power of a byte.
PowerOf(b, m) == Product([j \in 1 .. m |-> b], m)

Moments(x, n, p, q, m) ==
    [i \in 1 .. n |-> IF i \in p .. q THEN mul(Weight(x, n, p, q, i), PowerOf(x[i], m)) ELSE 0]

\* The weights applied to the m-th powers of the points.
Moment(x, n, p, q, m) == Total(Moments(x, n, p, q, m), n)

\* Distinct bytes differ by more than 0.
LEMMA AddDistinct == \A a, b \in Byte : a # b => add(a, b) # 0
<1> SUFFICES ASSUME NEW a \in Byte, NEW b \in Byte, add(a, b) = 0 PROVE a = b
  OBVIOUS
<1>1. add(add(a, b), b) = a
  BY AddCancels
<1> QED
  BY <1>1, AddZero

\* A factor of a weight is a byte, and not 0.
LEMMA FactorFacts ==
  ASSUME NEW n \in Nat, NEW x \in Points(n), NEW i \in 1 .. n, NEW j \in 1 .. n, i # j
  PROVE  /\ x[i] \in Byte /\ x[j] \in Byte /\ x[j] # 0
         /\ add(x[i], x[j]) \in Byte /\ add(x[i], x[j]) # 0
         /\ Factor(x, i, j) \in Byte
         /\ mul(Factor(x, i, j), add(x[i], x[j])) = x[j]
<1>1. x[i] \in Byte /\ x[j] \in Byte /\ x[j] # 0 /\ x[i] # x[j]
  <2>1. x[i] \in 1 .. 255 /\ x[j] \in 1 .. 255 /\ x[i] # x[j]
    BY DEF Points
  <2> QED
    BY <2>1 DEF Byte
<1>2. add(x[i], x[j]) \in Byte /\ add(x[i], x[j]) # 0
  BY <1>1, AddType, AddDistinct
<1> QED
  BY <1>1, <1>2, DivUndoesMul DEF Factor

\* Powers: the first, and each from the one before.
LEMMA PowerOfFacts ==
  \A b \in Byte, m \in Nat :
     /\ PowerOf(b, m) \in Byte
     /\ PowerOf(b, 0) = 1
     /\ PowerOf(b, m + 1) = mul(PowerOf(b, m), b)
<1> SUFFICES ASSUME NEW b \in Byte, NEW m \in Nat
             PROVE  /\ PowerOf(b, m) \in Byte /\ PowerOf(b, 0) = 1
                    /\ PowerOf(b, m + 1) = mul(PowerOf(b, m), b)
  OBVIOUS
<1> DEFINE v(k) == [j \in 1 .. k |-> b]
<1>1. \A k \in Nat : v(k) \in Values(k)
  BY DEF Values
<1>2. PICK f : RunProducts(f, v(m + 1), m + 1) /\ f[m + 1] = Product(v(m + 1), m + 1)
  BY <1>1, ProductRun
<1>3. f[m + 1] = mul(f[m], b)
  <2>1. m + 1 \in 1 .. m + 1 /\ (m + 1) - 1 = m
    OBVIOUS
  <2> QED
    BY <1>2, <2>1 DEF RunProducts
<1>4. RunProducts(f, v(m + 1), m) /\ \A k \in 1 .. m : v(m + 1)[k] = v(m)[k]
  <2>1. \A k \in 1 .. m : k \in 1 .. m + 1
    OBVIOUS
  <2> QED
    BY <1>2, <2>1 DEF RunProducts
<1>5. f[m] = Product(v(m), m) /\ Product(v(m), m) \in Byte
  <2> DEFINE w == v(m + 1)
  <2> DEFINE u == v(m)
  <2>1. u \in Values(m) /\ (\A k \in 1 .. m : w[k] = u[k]) /\ RunProducts(f, w, m)
    BY <1>1, <1>4
  <2> HIDE DEF w, u
  <2>2. f[m] = Product(u, m) /\ Product(u, m) \in Byte
    BY <2>1, ProductUnique
  <2> QED
    BY <2>2 DEF u
<1>6. Product(v(0), 0) = 1
  <2> DEFINE u == v(0)
  <2>1. u \in Values(0) /\ 0 \in Nat
    BY <1>1
  <2> HIDE DEF u
  <2>2. PICK g : RunProducts(g, u, 0) /\ g[0] = Product(u, 0)
    BY <2>1, ProductRun
  <2> QED
    BY <2>2 DEF RunProducts, u
<1> QED
  BY <1>2, <1>3, <1>5, <1>6 DEF PowerOf

\* Weights are bytes.
LEMMA WeightType ==
  ASSUME NEW n \in Nat, NEW x \in Points(n), NEW p \in Nat, NEW q \in Nat, NEW i \in 1 .. n
  PROVE  Factors(x, n, p, q, i) \in Values(n) /\ Weight(x, n, p, q, i) \in Byte
<1>1. \A j \in 1 .. n : j # i => Factor(x, i, j) \in Byte
  BY FactorFacts
<1>2. 1 \in Byte
  BY DEF Byte
<1>3. Factors(x, n, p, q, i) \in Values(n)
  BY <1>1, <1>2 DEF Factors, Values
<1> DEFINE v == Factors(x, n, p, q, i)
<1> HIDE DEF v
<1>4. PICK f : RunProducts(f, v, n) /\ f[n] = Product(v, n) /\ \A k \in 0 .. n : f[k] \in Byte
  BY <1>3, ProductRun DEF v
<1>5. n \in 0 .. n
  OBVIOUS
<1> QED
  BY <1>3, <1>4, <1>5 DEF Weight, v

\* The summands of a moment are bytes, and so is it.
LEMMA MomentsType ==
  ASSUME NEW n \in Nat, NEW x \in Points(n), NEW p \in Nat, NEW q \in Nat, NEW m \in Nat
  PROVE  Moments(x, n, p, q, m) \in Values(n) /\ Moment(x, n, p, q, m) \in Byte
<1>1. ASSUME NEW i \in 1 .. n
      PROVE  mul(Weight(x, n, p, q, i), PowerOf(x[i], m)) \in Byte
  <2>1. x[i] \in Byte
    BY DEF Points, Byte
  <2> QED
    BY <2>1, WeightType, PowerOfFacts, MulType
<1>2. 0 \in Byte
  BY DEF Byte
<1>3. Moments(x, n, p, q, m) \in Values(n)
  BY <1>1, <1>2 DEF Moments, Values
<1> DEFINE v == Moments(x, n, p, q, m)
<1> HIDE DEF v
<1>4. PICK f : RunSums(f, v, n) /\ f[n] = Total(v, n) /\ \A k \in 0 .. n : f[k] \in Byte
  BY <1>3, TotalRun DEF v
<1>5. n \in 0 .. n
  OBVIOUS
<1> QED
  BY <1>3, <1>4, <1>5 DEF Moment, v

\* What happens to one term when a point is taken away.
LEMMA TermIdentity ==
  ASSUME NEW V \in Byte, NEW W \in Byte, NEW P \in Byte, NEW X \in Byte, NEW Y \in Byte,
         mul(Y, W) = mul(V, add(X, Y))
  PROVE  mul(Y, add(mul(V, P), mul(W, P))) = mul(V, mul(P, X))
<1> DEFINE YV == mul(V, Y)
<1> DEFINE XV == mul(V, X)
<1>1. /\ mul(V, P) \in Byte /\ mul(W, P) \in Byte /\ YV \in Byte /\ XV \in Byte
      /\ mul(YV, P) \in Byte /\ mul(XV, P) \in Byte
  BY MulType
<1>2. mul(Y, add(mul(V, P), mul(W, P))) = add(mul(Y, mul(V, P)), mul(Y, mul(W, P)))
  BY <1>1, MulDistributes
<1>3. mul(Y, mul(V, P)) = mul(YV, P) /\ mul(Y, mul(W, P)) = mul(mul(Y, W), P)
  BY MulAssociates, MulCommutes
<1>4. mul(Y, W) = add(XV, YV)
  BY MulDistributes
<1>5. mul(mul(V, X), P) = mul(V, mul(P, X))
  BY MulAssociates, MulCommutes
<1> HIDE DEF YV
<1>6. mul(add(XV, YV), P) = add(mul(XV, P), mul(YV, P))
  BY <1>1, MulDistributes
<1>7. add(mul(YV, P), add(mul(XV, P), mul(YV, P))) = mul(XV, P)
  BY <1>1, AddCancels
<1> QED
  BY <1>2, <1>3, <1>4, <1>5, <1>6, <1>7

\* From pp to qq are the points from p to q but the k-th.
Omits(n, p, q, k, pp, qq) == \A j \in 1 .. n : j \in pp .. qq <=> j \in p .. q /\ j # k

\* Taking the k-th point away: what a point's weight loses.
LEMMA WeightWithout ==
  ASSUME NEW n \in Nat, NEW x \in Points(n), NEW p \in Nat, NEW q \in Nat,
         NEW pp \in Nat, NEW qq \in Nat, NEW k \in 1 .. n, k \in p .. q,
         Omits(n, p, q, k, pp, qq),
         NEW i \in 1 .. n, i # k
  PROVE  mul(x[k], Weight(x, n, pp, qq, i)) = mul(Weight(x, n, p, q, i), add(x[i], x[k]))
<1> DEFINE v == Factors(x, n, pp, qq, i)
<1> DEFINE u == Factors(x, n, p, q, i)
<1> DEFINE F == Factor(x, i, k)
<1>1. v \in Values(n) /\ u \in Values(n)
  BY WeightType
<1>2. v[k] = 1 /\ u[k] = F
  BY DEF Factors, Omits
<1>3. \A j \in 1 .. n : j # k => u[j] = v[j]
  BY DEF Factors, Omits
<1> HIDE DEF u, v
<1>4. Product(u, n) = mul(Product(v, n), u[k])
  BY <1>1, <1>2, <1>3, ProductOneMore
<1> DEFINE W == Weight(x, n, pp, qq, i)
<1> DEFINE V == Weight(x, n, p, q, i)
<1>5. V = mul(W, F)
  BY <1>2, <1>4 DEF Weight, u, v
<1> DEFINE s == add(x[i], x[k])
<1>6. W \in Byte /\ F \in Byte /\ s \in Byte /\ x[k] \in Byte /\ mul(F, s) = x[k]
  BY WeightType, FactorFacts
<1> HIDE DEF W, V, F, s
<1>7. mul(mul(W, F), s) = mul(W, mul(F, s)) /\ mul(W, x[k]) = mul(x[k], W)
  BY <1>6, MulAssociates, MulCommutes
<1>8. mul(x[k], W) = mul(V, s)
  BY <1>5, <1>6, <1>7
<1> QED
  BY <1>8 DEF W, V, s

\* The moments of all the points and of those that remain make up the next one.
LEMMA MomentWithout ==
  ASSUME NEW n \in Nat, NEW x \in Points(n), NEW p \in Nat, NEW q \in Nat,
         NEW pp \in Nat, NEW qq \in Nat, NEW k \in 1 .. n, k \in p .. q,
         Omits(n, p, q, k, pp, qq),
         NEW m \in Nat
  PROVE  mul(x[k], add(Moment(x, n, p, q, m), Moment(x, n, pp, qq, m)))
            = Moment(x, n, p, q, m + 1)
<1> DEFINE a == Moments(x, n, p, q, m)
<1> DEFINE b == Moments(x, n, pp, qq, m)
<1> DEFINE c == Moments(x, n, p, q, m + 1)
<1> DEFINE s == [i \in 1 .. n |-> add(a[i], b[i])]
<1>0. m + 1 \in Nat
  OBVIOUS
<1>1. a \in Values(n) /\ b \in Values(n) /\ c \in Values(n)
  BY <1>0, MomentsType
<1>2. x[k] \in Byte
  BY DEF Points, Byte
<1>3. ASSUME NEW i \in 1 .. n PROVE c[i] = mul(x[k], s[i])
  <2> DEFINE V == Weight(x, n, p, q, i)
  <2> DEFINE W == Weight(x, n, pp, qq, i)
  <2> DEFINE P == PowerOf(x[i], m)
  <2>1. x[i] \in Byte
    BY DEF Points, Byte
  <2>2. V \in Byte /\ W \in Byte
    BY WeightType
  <2>3. P \in Byte /\ PowerOf(x[i], m + 1) = mul(P, x[i])
    BY <2>1, PowerOfFacts
  <2>4. /\ a[i] = (IF i \in p .. q THEN mul(V, P) ELSE 0)
        /\ b[i] = (IF i \in pp .. qq THEN mul(W, P) ELSE 0)
        /\ c[i] = (IF i \in p .. q THEN mul(V, mul(P, x[i])) ELSE 0)
        /\ s[i] = add(a[i], b[i])
    BY <2>3 DEF Moments
  <2>5. i # k => mul(x[k], W) = mul(V, add(x[i], x[k]))
    BY WeightWithout
  <2> HIDE DEF a, b, c, s, V, W, P
  <2>6. CASE i \notin p .. q
    <3>1. a[i] = 0 /\ b[i] = 0 /\ c[i] = 0
      BY <2>4, <2>6 DEF Omits
    <3>2. add(0, 0) = 0
      BY AddZero DEF Byte
    <3> QED
      BY <1>2, <2>4, <3>1, <3>2, MulZero
  <2>7. CASE i = k
    <3>1. mul(V, P) \in Byte
      BY <2>2, <2>3, MulType
    <3>2. b[i] = 0 /\ s[i] = mul(V, P) /\ c[i] = mul(V, mul(P, x[k]))
      BY <2>4, <2>7, <3>1, AddZero DEF Omits
    <3>3. mul(V, mul(P, x[k])) = mul(mul(V, P), x[k])
      BY <1>2, <2>2, <2>3, MulAssociates
    <3> QED
      BY <1>2, <3>1, <3>2, <3>3, MulCommutes
  <2>8. CASE i \in p .. q /\ i # k
    <3> DEFINE X == x[i]
    <3> DEFINE Y == x[k]
    <3>1. X \in Byte /\ Y \in Byte
      BY <1>2, <2>1
    <3>2. /\ a[i] = mul(V, P) /\ b[i] = mul(W, P) /\ c[i] = mul(V, mul(P, X))
          /\ s[i] = add(mul(V, P), mul(W, P))
      BY <2>4, <2>8 DEF Omits
    <3>3. mul(Y, W) = mul(V, add(X, Y))
      BY <2>5, <2>8
    <3> HIDE DEF X, Y
    <3>4. mul(Y, add(mul(V, P), mul(W, P))) = mul(V, mul(P, X))
      BY <2>2, <2>3, <3>1, <3>3, TermIdentity
    <3> QED
      BY <3>2, <3>4 DEF X, Y
  <2> QED
    BY <2>6, <2>7, <2>8
<1>4. s \in Values(n) /\ \A i \in 1 .. n : s[i] = add(a[i], b[i])
  <2>1. \A i \in 1 .. n : add(a[i], b[i]) \in Byte
    BY <1>1, AddType DEF Values
  <2> HIDE DEF a, b
  <2> QED
    BY <2>1 DEF Values
<1> HIDE DEF a, b, c, s
<1>5. Total(s, n) = add(Total(a, n), Total(b, n))
  BY <1>1, <1>4, TotalAdd
<1>6. Total(c, n) = mul(x[k], Total(s, n))
  BY <1>1, <1>2, <1>3, <1>4, TotalScale
<1> QED
  BY <1>5, <1>6 DEF Moment, a, b, c

\* The weights of interpolation at 0 give 1 for a constant and 0 for every
\* higher power, as long as there are more points than the power.
LEMMA MomentsOfPoints ==
  ASSUME NEW n \in Nat, NEW x \in Points(n)
  PROVE  \A d \in Nat : \A p, q \in 1 .. n : q - p = d =>
            \A m \in 0 .. d : Moment(x, n, p, q, m) = IF m = 0 THEN 1 ELSE 0
<1> DEFINE Good(p, q, d) == \A m \in 0 .. d : Moment(x, n, p, q, m) = IF m = 0 THEN 1 ELSE 0
<1> DEFINE G == {d \in Nat : \A p, q \in 1 .. n : q - p = d => Good(p, q, d)}
<1>1. 0 \in G
  <2> SUFFICES ASSUME NEW p \in 1 .. n PROVE Moment(x, n, p, p, 0) = 1
    <3>1. \A p, q \in 1 .. n : q - p = 0 => p = q
      OBVIOUS
    <3>2. \A m \in 0 .. 0 : m = 0
      OBVIOUS
    <3> QED
      BY <3>1, <3>2
  <2> DEFINE v == Factors(x, n, p, p, p)
  <2> DEFINE u == Moments(x, n, p, p, 0)
  <2>1. p \in Nat /\ 0 \in Nat /\ x[p] \in Byte
    BY DEF Points, Byte
  <2>2. v \in Values(n) /\ u \in Values(n)
    BY <2>1, WeightType, MomentsType
  <2>3. \A j \in 1 .. n : v[j] = 1
    <3> SUFFICES ASSUME NEW j \in 1 .. n PROVE ~(j \in p .. p /\ j # p)
      BY DEF Factors
    <3> QED
      OBVIOUS
  <2>4. Weight(x, n, p, p, p) = 1
    <3> HIDE DEF v
    <3>1. Product(v, n) = v[p]
      BY <2>2, <2>3, ProductSingle
    <3> QED
      BY <2>3, <3>1 DEF Weight, v
  <2>5. u[p] = 1 /\ \A j \in 1 .. n : j # p => u[j] = 0
    <3>1. mul(1, 1) = 1
      BY MulOne DEF Byte
    <3>2. \A j \in 1 .. n : j \in p .. p <=> j = p
      OBVIOUS
    <3> QED
      BY <2>1, <2>4, <3>1, <3>2, PowerOfFacts DEF Moments
  <2> HIDE DEF u
  <2>6. Total(u, n) = u[p]
    BY <2>2, <2>5, TotalSingle
  <2> QED
    BY <2>5, <2>6 DEF Moment, u
<1>2. ASSUME NEW d \in Nat, d \in G PROVE d + 1 \in G
  <2> SUFFICES ASSUME NEW p \in 1 .. n, NEW q \in 1 .. n, q - p = d + 1
               PROVE  Good(p, q, d + 1)
    OBVIOUS
  <2> DEFINE M(m) == Moment(x, n, p, q, m)
  <2>1. /\ p \in Nat /\ q \in Nat /\ p + 1 \in 1 .. n /\ q - 1 \in 1 .. n
        /\ p \in p .. q /\ q \in p .. q /\ p # q
        /\ q - (p + 1) = d /\ (q - 1) - p = d
        /\ Omits(n, p, q, p, p + 1, q) /\ Omits(n, p, q, q, p, q - 1)
    BY DEF Omits
  <2>2. Good(p + 1, q, d) /\ Good(p, q - 1, d)
    BY <1>2, <2>1
  <2>3. /\ p + 1 \in Nat /\ q - 1 \in Nat
    BY <2>1
  <2>4. \A m \in Nat : /\ mul(x[p], add(M(m), Moment(x, n, p + 1, q, m))) = M(m + 1)
                       /\ mul(x[q], add(M(m), Moment(x, n, p, q - 1, m))) = M(m + 1)
    <3>1. ASSUME NEW m \in Nat
          PROVE  mul(x[p], add(M(m), Moment(x, n, p + 1, q, m))) = M(m + 1)
      <4> DEFINE pp == p + 1
      <4>1. pp \in Nat /\ Omits(n, p, q, p, pp, q)
        BY <2>1, <2>3
      <4> HIDE DEF pp
      <4>2. mul(x[p], add(M(m), Moment(x, n, pp, q, m))) = M(m + 1)
        BY <2>1, <4>1, MomentWithout
      <4> QED
        BY <4>2 DEF pp
    <3>2. ASSUME NEW m \in Nat
          PROVE  mul(x[q], add(M(m), Moment(x, n, p, q - 1, m))) = M(m + 1)
      BY <2>1, <2>3, MomentWithout
    <3> QED
      BY <3>1, <3>2
  <2>5. \A m \in Nat : M(m) \in Byte
    BY <2>1, MomentsType
  <2>6. x[p] \in Byte /\ x[q] \in Byte /\ add(x[p], x[q]) # 0 /\ add(x[p], x[q]) \in Byte
    BY <2>1, FactorFacts
  <2> HIDE DEF M
  <2>7. M(0) = 1 /\ M(1) = 0
    <3> DEFINE s == add(M(0), 1)
    <3>1. 0 \in 0 .. d /\ 0 \in Nat /\ 0 + 1 = 1 /\ 1 \in Byte /\ M(0) \in Byte
      BY <2>5 DEF Byte
    <3>2. Moment(x, n, p + 1, q, 0) = 1 /\ Moment(x, n, p, q - 1, 0) = 1
      BY <2>2, <3>1
    <3>3. s \in Byte
      BY <3>1, AddType
    <3>4. mul(x[p], s) = M(1) /\ mul(x[q], s) = M(1)
      BY <2>4, <3>1, <3>2
    <3> HIDE DEF s
    <3>5. mul(add(x[p], x[q]), s) = add(M(1), M(1))
      BY <2>6, <3>3, <3>4, MulDistributes
    <3>6. M(1) \in Byte
      BY <2>5
    <3>7. add(M(1), M(1)) = 0
      BY <3>6, AddZero
    <3>8. s = 0
      BY <2>6, <3>3, <3>5, <3>7, MulNonzero
    <3>9. M(0) = 1
      BY <3>1, <3>8, AddDistinct DEF s
    <3> QED
      BY <2>6, <3>4, <3>8, <3>9, MulZero
  <2> DEFINE H == {m \in Nat : m + 1 <= d + 1 => M(m + 1) = 0}
  <2>8. 0 \in H
    BY <2>7
  <2>9. ASSUME NEW m \in Nat, m \in H PROVE m + 1 \in H
    <3> SUFFICES ASSUME (m + 1) + 1 <= d + 1 PROVE M((m + 1) + 1) = 0
      OBVIOUS
    <3>1. m + 1 \in 0 .. d /\ m + 1 # 0 /\ m + 1 \in Nat /\ m + 1 <= d + 1
      OBVIOUS
    <3>2. M(m + 1) = 0
      BY <2>9, <3>1
    <3>3. Moment(x, n, p + 1, q, m + 1) = 0
      BY <2>2, <3>1
    <3>4. mul(x[p], add(0, 0)) = M((m + 1) + 1)
      BY <2>4, <3>1, <3>2, <3>3
    <3>5. add(0, 0) = 0
      BY AddZero DEF Byte
    <3> QED
      BY <2>6, <3>4, <3>5, MulZero
  <2> HIDE DEF H
  <2>10. \A m \in Nat : m \in H
    BY <2>8, <2>9, NumberInduction
  <2>11. ASSUME NEW m \in 0 .. d + 1 PROVE M(m) = IF m = 0 THEN 1 ELSE 0
    <3>1. CASE m = 0
      BY <2>7, <3>1
    <3>2. CASE m # 0
      <4>1. m - 1 \in Nat /\ (m - 1) + 1 = m /\ m <= d + 1
        BY <3>2
      <4>2. m - 1 \in H
        BY <2>10, <4>1
      <4> QED
        BY <3>2, <4>1, <4>2 DEF H
    <3> QED
      BY <3>1, <3>2
  <2> QED
    BY <2>11 DEF M
<1> HIDE DEF G
<1>3. \A d \in Nat : d \in G
  BY <1>1, <1>2, NumberInduction
<1> QED
  BY <1>3 DEF G

\* The values of the polynomial with n coefficients c at the points x, ...
Terms(c, b, n) == [k \in 1 .. n |-> mul(c[k], PowerOf(b, k - 1))]

Polynomial(c, b, n) == Total(Terms(c, b, n), n)

\* ... and their interpolation at 0.
Weighted(y, x, n) == [i \in 1 .. n |-> mul(y[i], Weight(x, n, 1, n, i))]

\* The terms of a polynomial are bytes, and so is its value.
LEMMA TermsType ==
  ASSUME NEW n \in Nat, NEW c \in Values(n), NEW b \in Byte
  PROVE  Terms(c, b, n) \in Values(n) /\ Polynomial(c, b, n) \in Byte
<1>1. ASSUME NEW k \in 1 .. n PROVE mul(c[k], PowerOf(b, k - 1)) \in Byte
  <2>1. c[k] \in Byte /\ k - 1 \in Nat
    BY DEF Values
  <2> QED
    BY <2>1, PowerOfFacts, MulType
<1>2. Terms(c, b, n) \in Values(n)
  BY <1>1 DEF Terms, Values
<1>3. PICK f : /\ RunSums(f, Terms(c, b, n), n) /\ f[n] = Total(Terms(c, b, n), n)
               /\ \A k \in 0 .. n : f[k] \in Byte
  BY <1>2, TotalRun
<1>4. n \in 0 .. n
  OBVIOUS
<1> QED
  BY <1>2, <1>3, <1>4 DEF Polynomial

\* What interpolation at 0 finds is the constant coefficient.
LEMMA InterpolationAtZero ==
  ASSUME NEW n \in Nat, n # 0, NEW x \in Points(n), NEW c \in Values(n),
         NEW y, \A i \in 1 .. n : y[i] = Polynomial(c, x[i], n)
  PROVE  Total(Weighted(y, x, n), n) = c[1]
<1> DEFINE w(i) == Weight(x, n, 1, n, i)
<1> DEFINE IsRun(f, i) == /\ RunSums(f, Terms(c, x[i], n), n) /\ f[n] = Polynomial(c, x[i], n)
                          /\ \A k \in 0 .. n : f[k] \in Byte
<1> DEFINE F(i) == CHOOSE f : IsRun(f, i)
<1>1. \A i \in 1 .. n : x[i] \in Byte /\ w(i) \in Byte
  <2>1. \A i \in 1 .. n : x[i] \in Byte
    BY DEF Points, Byte
  <2> QED
    BY <2>1, WeightType
<1>2. ASSUME NEW i \in 1 .. n PROVE IsRun(F(i), i)
  <2>1. \E f : IsRun(f, i)
    BY <1>1, TermsType, TotalRun DEF Polynomial
  <2> QED
    BY <2>1
<1> DEFINE S(k) == [i \in 1 .. n |-> mul(F(i)[k], w(i))]
<1>3. \A k \in 0 .. n : S(k) \in Values(n)
  <2> SUFFICES ASSUME NEW k \in 0 .. n, NEW i \in 1 .. n PROVE mul(F(i)[k], w(i)) \in Byte
    BY DEF Values
  <2> QED
    BY <1>1, <1>2, MulType
<1>4. Total(S(0), n) = 0
  <2> DEFINE u == S(0)
  <2>0. 0 \in 0 .. n
    OBVIOUS
  <2>1. 1 \in 1 .. n
    OBVIOUS
  <2>4. u \in Values(n)
    <3> HIDE DEF S
    <3> QED
      BY <1>3, <2>0
  <2>2. \A i \in 1 .. n : u[i] = 0
    <3> SUFFICES ASSUME NEW i \in 1 .. n PROVE mul(F(i)[0], w(i)) = 0
      OBVIOUS
    <3>1. F(i)[0] = 0
      BY <1>2 DEF RunSums
    <3> QED
      BY <1>1, <3>1, MulZero
  <2> HIDE DEF u
  <2>3. Total(u, n) = u[1]
    BY <2>1, <2>2, <2>4, TotalSingle
  <2> QED
    BY <2>1, <2>2, <2>3 DEF u
<1>5. ASSUME NEW k \in Nat, k + 1 <= n
      PROVE  Total(S(k + 1), n) = add(Total(S(k), n), IF k = 0 THEN c[1] ELSE 0)
  <2> DEFINE a == S(k)
  <2> DEFINE b == S(k + 1)
  <2> DEFINE M == Moments(x, n, 1, n, k)
  <2> DEFINE t == [i \in 1 .. n |-> mul(c[k + 1], M[i])]
  <2>1. k \in 0 .. n /\ k + 1 \in 0 .. n /\ k + 1 \in 1 .. n /\ (k + 1) - 1 = k /\ 1 \in 1 .. n
        /\ n \in 1 .. n
    BY <1>5
  <2>2. a \in Values(n) /\ b \in Values(n)
    BY <1>3, <2>1
  <2>3. M \in Values(n) /\ c[k + 1] \in Byte
    BY <2>1, MomentsType DEF Values
  <2>4. t \in Values(n) /\ \A i \in 1 .. n : t[i] = mul(c[k + 1], M[i])
    <3>1. \A i \in 1 .. n : M[i] \in Byte
      BY <2>3 DEF Values
    <3> HIDE DEF M
    <3> QED
      BY <2>3, <3>1, MulType DEF Values
  <2>5. ASSUME NEW i \in 1 .. n PROVE b[i] = add(a[i], t[i])
    <3> DEFINE f == F(i)
    <3> DEFINE P == PowerOf(x[i], k)
    <3> DEFINE C == c[k + 1]
    <3> DEFINE W == w(i)
    <3>1. f[k + 1] = add(f[k], mul(C, P)) /\ f[k] \in Byte
      BY <1>2, <2>1 DEF RunSums, Terms
    <3>2. C \in Byte /\ P \in Byte /\ W \in Byte
      BY <1>1, <2>3, PowerOfFacts
    <3>3. M[i] = mul(W, P)
      BY DEF Moments
    <3>4. a[i] = mul(f[k], W) /\ b[i] = mul(f[k + 1], W)
      OBVIOUS
    <3>5. t[i] = mul(C, mul(W, P))
      BY <2>4, <3>3
    <3> HIDE DEF a, b, t, M, f, P, C, W
    <3>6. mul(C, P) \in Byte /\ mul(W, P) = mul(P, W) /\ mul(mul(C, P), W) = mul(C, mul(P, W))
      BY <3>2, MulType, MulCommutes, MulAssociates
    <3>7. mul(add(f[k], mul(C, P)), W) = add(mul(f[k], W), mul(mul(C, P), W))
      BY <3>1, <3>2, <3>6, MulDistributes
    <3> QED
      BY <3>1, <3>4, <3>5, <3>6, <3>7
  <2> HIDE DEF a, b, t, M
  <2>6. Total(b, n) = add(Total(a, n), Total(t, n))
    BY <2>2, <2>4, <2>5, TotalAdd
  <2>7. Total(t, n) = mul(c[k + 1], Total(M, n))
    BY <2>3, <2>4, TotalScale
  <2>8. Total(M, n) = IF k = 0 THEN 1 ELSE 0
    <3>1. n - 1 \in Nat /\ k \in 0 .. n - 1
      BY <1>5
    <3> QED
      BY <2>1, <3>1, MomentsOfPoints DEF M, Moment
  <2>9. Total(t, n) = IF k = 0 THEN c[1] ELSE 0
    <3>1. CASE k = 0
      <4>1. k + 1 = 1
        BY <3>1
      <4> QED
        BY <2>3, <2>7, <2>8, <3>1, <4>1, MulOne
    <3>2. CASE k # 0
      BY <2>3, <2>7, <2>8, <3>2, MulZero
    <3> QED
      BY <3>1, <3>2
  <2> QED
    BY <2>6, <2>9 DEF a, b
<1> DEFINE G == {k \in Nat : k <= n => Total(S(k), n) = IF k = 0 THEN 0 ELSE c[1]}
<1>6. 0 \in G
  BY <1>4
<1>7. ASSUME NEW k \in Nat, k \in G PROVE k + 1 \in G
  <2> SUFFICES ASSUME k + 1 <= n PROVE Total(S(k + 1), n) = c[1]
    OBVIOUS
  <2>1. Total(S(k), n) = (IF k = 0 THEN 0 ELSE c[1]) /\ 1 \in 1 .. n
    BY <1>7
  <2>2. Total(S(k + 1), n) = add(Total(S(k), n), IF k = 0 THEN c[1] ELSE 0)
    BY <1>5
  <2>3. c[1] \in Byte
    BY <2>1 DEF Values
  <2> HIDE DEF S
  <2> QED
    BY <2>1, <2>2, <2>3, AddZero
<1> HIDE DEF G
<1>8. \A k \in Nat : k \in G
  BY <1>6, <1>7, NumberInduction
<1>9. Total(S(n), n) = c[1]
  BY <1>8 DEF G
<1>10. Weighted(y, x, n) = S(n)
  BY <1>2 DEF Weighted
<1> QED
  BY <1>9, <1>10

-----------------------------------------------------------------------------
(* The loops of the code.                                                  *)

\* Evaluating a polynomial.
LEMMA ValueAt ==
  ASSUME NEW n \in Nat, NEW poly \in Seq(Byte), Len(poly) = n, NEW b \in Byte
  PROVE  value_at(poly, b) = Polynomial(poly, b, n)
<1> DEFINE Powers(g) == g = [k \in 0 .. n |-> IF k = 0 THEN 1 ELSE mul(g[k - 1], b)]
<1> DEFINE x_pow == CHOOSE g : Powers(g)
<1> DEFINE Sums(g) ==
        g = [k \in 0 .. n |-> IF k = 0 THEN 0 ELSE add(g[k - 1], mul(poly[k], x_pow[k - 1]))]
<1> DEFINE y == CHOOSE g : Sums(g)
<1>1. value_at(poly, b) = y[n]
  BY DEF value_at
<1> DEFINE v == [j \in 1 .. n |-> b]
<1>2. v \in Values(n)
  BY DEF Values
<1>3. RunProducts(x_pow, v, n)
  <2>1. PICK h \in [0 .. n -> Byte] : RunProducts(h, v, n)
    <3> HIDE DEF v
    <3> QED
      BY <1>2, ProductsExist DEF Values
  <2>2. \A k \in 0 .. n : h[k] = IF k = 0 THEN 1 ELSE mul(h[k - 1], b)
    BY <2>1 DEF RunProducts
  <2>3. Powers(h)
    BY <2>2
  <2>4. Powers(x_pow)
    <3> HIDE DEF Powers
    <3> QED
      BY <2>3
  <2> HIDE DEF x_pow
  <2> QED
    BY <2>4 DEF RunProducts
<1> HIDE DEF x_pow
<1>4. ASSUME NEW k \in 1 .. n PROVE x_pow[k - 1] = PowerOf(b, k - 1)
  <2> DEFINE m == k - 1
  <2> DEFINE u == [j \in 1 .. m |-> b]
  <2>1. m \in Nat /\ u \in Values(m) /\ \A j \in 1 .. m : v[j] = u[j]
    BY DEF Values
  <2>2. RunProducts(x_pow, v, m)
    BY <1>3 DEF RunProducts
  <2>3. Product(u, m) = PowerOf(b, m)
    BY DEF PowerOf
  <2> HIDE DEF m, u, v
  <2>4. x_pow[m] = Product(u, m)
    BY <2>1, <2>2, ProductUnique
  <2> QED
    BY <2>3, <2>4 DEF m
<1>5. poly \in Values(n)
  BY DEF Values
<1> DEFINE T == Terms(poly, b, n)
<1>6. T \in Values(n) /\ \A k \in 1 .. n : T[k] = mul(poly[k], x_pow[k - 1])
  <2>1. T \in Values(n)
    BY <1>5, TermsType
  <2>2. \A k \in 1 .. n : T[k] = mul(poly[k], PowerOf(b, k - 1))
    BY DEF Terms
  <2> HIDE DEF T
  <2> QED
    BY <1>4, <2>1, <2>2
<1> HIDE DEF T
<1>7. RunSums(y, T, n)
  <2>1. PICK h \in [0 .. n -> Byte] : RunSums(h, T, n)
    BY <1>6, SumsExist DEF Values
  <2>2. \A k \in 0 .. n :
            h[k] = IF k = 0 THEN 0 ELSE add(h[k - 1], mul(poly[k], x_pow[k - 1]))
    BY <1>6, <2>1 DEF RunSums
  <2>3. Sums(h)
    BY <2>2
  <2>4. Sums(y)
    <3> HIDE DEF Sums
    <3> QED
      BY <2>3
  <2> HIDE DEF y
  <2> QED
    BY <1>6, <2>4 DEF RunSums
<1> HIDE DEF y
<1>8. y[n] = Total(T, n)
  BY <1>6, <1>7, TotalUnique
<1> QED
  BY <1>1, <1>8 DEF Polynomial, T

\* A product that leaves out its i-th factor.
LEMMA SkippingProduct ==
  ASSUME NEW n \in Nat, NEW i \in 1 .. n, NEW v \in Values(n), v[i] = 1, NEW f, f[0] = 1,
         \A j \in 1 .. n : f[j] = IF j = i THEN f[j - 1] ELSE mul(f[j - 1], v[j])
  PROVE  RunProducts(f, v, n)
<1>1. PICK h \in [0 .. n -> Byte] : RunProducts(h, v, n)
  BY ProductsExist DEF Values
<1> DEFINE G == {j \in Nat : j <= n => f[j] = h[j]}
<1>2. 0 \in G
  BY <1>1 DEF RunProducts
<1>3. ASSUME NEW j \in Nat, j \in G PROVE j + 1 \in G
  <2> SUFFICES ASSUME j + 1 <= n PROVE f[j + 1] = h[j + 1]
    OBVIOUS
  <2>1. j + 1 \in 1 .. n /\ (j + 1) - 1 = j /\ j \in 0 .. n /\ f[j] = h[j]
    BY <1>3
  <2>2. f[j + 1] = IF j + 1 = i THEN f[j] ELSE mul(f[j], v[j + 1])
    BY <2>1
  <2>3. h[j + 1] = mul(h[j], v[j + 1]) /\ h[j] \in Byte
    BY <1>1, <2>1 DEF RunProducts
  <2> QED
    BY <2>1, <2>2, <2>3, MulOne
<1> HIDE DEF G
<1>4. \A j \in Nat : j \in G
  BY <1>2, <1>3, NumberInduction
<1>5. \A j \in 0 .. n : f[j] = h[j]
  BY <1>4 DEF G
<1> QED
  BY <1>1, <1>5 DEF RunProducts

\* The weight of one share, a quotient of two products in the code.
LEMMA LagrangeWeight ==
  ASSUME NEW n \in Nat, NEW used, Len(used) = n, NEW x \in Points(n),
         \A j \in 1 .. n : used[j].index = x[j], NEW i \in 1 .. n
  PROVE  lagrange_weight(used, i) = Weight(x, n, 1, n, i)
<1> DEFINE Nums(g) == g = [j \in 0 .. n |->
        IF j = 0 THEN 1 ELSE IF j = i THEN g[j - 1] ELSE mul(g[j - 1], used[j].index)]
<1> DEFINE Dens(g) == g = [j \in 0 .. n |->
        IF j = 0 THEN 1
        ELSE IF j = i THEN g[j - 1]
        ELSE mul(g[j - 1], add(used[i].index, used[j].index))]
<1> DEFINE num == CHOOSE g : Nums(g)
<1> DEFINE den == CHOOSE g : Dens(g)
<1>1. lagrange_weight(used, i) = div(num[n], den[n])
  BY DEF lagrange_weight
<1> DEFINE v == [j \in 1 .. n |-> IF j = i THEN 1 ELSE x[j]]
<1> DEFINE w == [j \in 1 .. n |-> IF j = i THEN 1 ELSE add(x[i], x[j])]
<1> DEFINE q == Factors(x, n, 1, n, i)
<1>2. 1 \in Byte /\ (\A j \in 1 .. n : x[j] \in Byte) /\ 1 \in Nat
  BY DEF Byte, Points
<1>3. /\ \A j \in 1 .. n : v[j] = IF j = i THEN 1 ELSE x[j]
      /\ \A j \in 1 .. n : w[j] = IF j = i THEN 1 ELSE add(x[i], x[j])
      /\ \A j \in 1 .. n : q[j] = IF j = i THEN 1 ELSE Factor(x, i, j)
  BY DEF Factors
<1>4. v \in Values(n) /\ w \in Values(n) /\ q \in Values(n)
  <2>1. \A j \in 1 .. n : add(x[i], x[j]) \in Byte
    BY <1>2, AddType
  <2>2. v \in Values(n) /\ w \in Values(n)
    BY <1>2, <2>1 DEF Values
  <2> QED
    BY <1>2, <2>2, WeightType
<1> HIDE DEF v, w, q
<1>5. \A j \in 1 .. n : w[j] # 0
  BY <1>3, FactorFacts
<1>6. \A j \in 1 .. n : v[j] = mul(q[j], w[j])
  <2> SUFFICES ASSUME NEW j \in 1 .. n PROVE v[j] = mul(q[j], w[j])
    OBVIOUS
  <2>1. CASE j = i
    BY <1>2, <1>3, <2>1, MulOne
  <2>2. CASE j # i
    BY <1>3, <2>2, FactorFacts
  <2> QED
    BY <2>1, <2>2
<1>7. Product(v, n) = mul(Product(q, n), Product(w, n))
  BY <1>4, <1>6, ProductMul
<1>8. RunProducts(num, v, n)
  <2>1. PICK h \in [0 .. n -> Byte] : RunProducts(h, v, n)
    BY <1>4, ProductsExist DEF Values
  <2>2. ASSUME NEW j \in 0 .. n
        PROVE  h[j] = IF j = 0 THEN 1
                      ELSE IF j = i THEN h[j - 1] ELSE mul(h[j - 1], used[j].index)
    <3>1. j # 0 => j \in 1 .. n /\ j - 1 \in 0 .. n
      OBVIOUS
    <3>2. j # 0 => h[j] = mul(h[j - 1], v[j]) /\ h[j - 1] \in Byte
      BY <2>1, <3>1 DEF RunProducts
    <3>3. h[0] = 1
      BY <2>1 DEF RunProducts
    <3> QED
      BY <1>3, <3>1, <3>2, <3>3, MulOne
  <2>3. Nums(h)
    BY <2>2
  <2>4. Nums(num)
    <3> HIDE DEF Nums
    <3> QED
      BY <2>3
  <2> HIDE DEF num
  <2>5. num[0] = 1
    BY <2>4
  <2>6. v[i] = 1 /\ \A j \in 1 .. n : num[j] = IF j = i THEN num[j - 1] ELSE mul(num[j - 1], v[j])
    BY <1>3, <2>4
  <2> QED
    BY <1>4, <2>5, <2>6, SkippingProduct
<1>9. RunProducts(den, w, n)
  <2>1. PICK h \in [0 .. n -> Byte] : RunProducts(h, w, n)
    BY <1>4, ProductsExist DEF Values
  <2>2. ASSUME NEW j \in 0 .. n
        PROVE  h[j] = IF j = 0 THEN 1
                      ELSE IF j = i THEN h[j - 1]
                      ELSE mul(h[j - 1], add(used[i].index, used[j].index))
    <3>1. j # 0 => j \in 1 .. n /\ j - 1 \in 0 .. n
      OBVIOUS
    <3>2. j # 0 => h[j] = mul(h[j - 1], w[j]) /\ h[j - 1] \in Byte
      BY <2>1, <3>1 DEF RunProducts
    <3>3. h[0] = 1
      BY <2>1 DEF RunProducts
    <3> QED
      BY <1>3, <3>1, <3>2, <3>3, MulOne
  <2>3. Dens(h)
    BY <2>2
  <2>4. Dens(den)
    <3> HIDE DEF Dens
    <3> QED
      BY <2>3
  <2> HIDE DEF den
  <2>5. den[0] = 1
    BY <2>4
  <2>6. w[i] = 1 /\ \A j \in 1 .. n : den[j] = IF j = i THEN den[j - 1] ELSE mul(den[j - 1], w[j])
    <3>1. \A j \in 1 .. n : j # i => w[j] = add(used[i].index, used[j].index)
      BY <1>3
    <3>2. w[i] = 1
      BY <1>3
    <3> HIDE DEF Nums
    <3> QED
      BY <2>4, <3>1, <3>2
  <2> QED
    BY <1>4, <2>5, <2>6, SkippingProduct
<1> HIDE DEF num, den
<1>10. num[n] = Product(v, n) /\ Product(v, n) \in Byte
  BY <1>4, <1>8, ProductUnique
<1>11. den[n] = Product(w, n) /\ Product(w, n) \in Byte
  BY <1>4, <1>9, ProductUnique
<1>12. Product(w, n) # 0
  BY <1>4, <1>5, ProductNonzero
<1>13. Product(q, n) = Weight(x, n, 1, n, i) /\ Product(q, n) \in Byte
  BY <1>2, WeightType DEF Weight, q
<1> QED
  BY <1>1, <1>7, <1>10, <1>11, <1>12, <1>13, DivUndoesMul

\* Combining the shares of one byte.
LEMMA Interpolated ==
  ASSUME NEW n \in Nat, NEW used, Len(used) = n, NEW x \in Points(n),
         \A j \in 1 .. n : used[j].index = x[j],
         NEW b, NEW y \in Values(n), \A j \in 1 .. n : used[j].data[b] = y[j]
  PROVE  interpolated(used, b) = Total(Weighted(y, x, n), n)
<1> DEFINE Sums(g) == g = [i \in 0 .. n |->
        IF i = 0 THEN 0
        ELSE add(g[i - 1], mul(used[i].data[b], lagrange_weight(used, i)))]
<1> DEFINE value == CHOOSE g : Sums(g)
<1>1. interpolated(used, b) = value[n]
  BY DEF interpolated
<1> DEFINE T == Weighted(y, x, n)
<1>2. \A i \in 1 .. n : T[i] = mul(used[i].data[b], lagrange_weight(used, i))
  <2>1. \A i \in 1 .. n : lagrange_weight(used, i) = Weight(x, n, 1, n, i)
    BY LagrangeWeight
  <2> QED
    BY <2>1 DEF Weighted
<1>3. T \in Values(n)
  <2>1. \A i \in 1 .. n : mul(y[i], Weight(x, n, 1, n, i)) \in Byte
    BY WeightType, MulType DEF Values
  <2> QED
    BY <2>1 DEF Weighted, Values
<1> HIDE DEF T
<1>4. RunSums(value, T, n)
  <2>1. PICK h \in [0 .. n -> Byte] : RunSums(h, T, n)
    BY <1>3, SumsExist DEF Values
  <2>2. \A i \in 0 .. n :
            h[i] = IF i = 0 THEN 0
                   ELSE add(h[i - 1], mul(used[i].data[b], lagrange_weight(used, i)))
    BY <1>2, <2>1 DEF RunSums
  <2>3. Sums(h)
    BY <2>2
  <2>4. Sums(value)
    <3> HIDE DEF Sums
    <3> QED
      BY <2>3
  <2> HIDE DEF value
  <2> QED
    BY <1>2, <2>4 DEF RunSums
<1> HIDE DEF value
<1>5. value[n] = Total(T, n)
  BY <1>3, <1>4, TotalUnique
<1> QED
  BY <1>1, <1>5 DEF T

-----------------------------------------------------------------------------
(* Sharing and combining.                                                  *)

\* The polynomial of one byte: the byte itself, then what was drawn for it.
LEMMA PolynomialOfByte ==
  ASSUME NEW c \in Byte, NEW t \in Nat, t # 0, NEW drawn \in [1 .. t - 1 -> Byte]
  PROVE  /\ <<c>> \o drawn \in Seq(Byte) /\ Len(<<c>> \o drawn) = t
         /\ (<<c>> \o drawn)[1] = c
<1>1. t - 1 \in Nat
  OBVIOUS
<1>2. drawn \in Seq(Byte) /\ Len(drawn) = t - 1
  BY <1>1
<1>3. <<c>> \in Seq(Byte) /\ Len(<<c>>) = 1 /\ <<c>>[1] = c
  OBVIOUS
<1> QED
  BY <1>2, <1>3

\* The byte b of the secret shared, as the polynomial its shares are values of.
ByteOf(s, polys, b) == <<s[b]>> \o polys[b]

\* The bytes of a share are the values at its index.
ShareAt(s, t, polys, i) ==
    [index |-> i, threshold |-> t,
     data |-> [b \in 1 .. Len(s) |-> value_at(ByteOf(s, polys, b), i)]]

\* What split makes.
LEMMA ShareOutAt ==
  ASSUME NEW s \in Seq(Byte), NEW t \in Nat, NEW total \in Nat, NEW polys
  PROVE  ShareOut(s, t, total, polys) = [i \in 1 .. total |-> ShareAt(s, t, polys, i)]
BY DEF ShareOut, ByteOf, ShareAt

\* What can be read of a share.
LEMMA ShareAtFields ==
  ASSUME NEW s \in Seq(Byte), NEW t, NEW polys, NEW i
  PROVE  /\ ShareAt(s, t, polys, i).index = i /\ ShareAt(s, t, polys, i).threshold = t
         /\ DOMAIN ShareAt(s, t, polys, i).data = 1 .. Len(s)
         /\ Len(ShareAt(s, t, polys, i).data) = Len(s)
         /\ \A b \in 1 .. Len(s) :
                ShareAt(s, t, polys, i).data[b] = value_at(ByteOf(s, polys, b), i)
<1>1. Len(s) \in Nat
  OBVIOUS
<1> QED
  BY <1>1 DEF ShareAt

\* The shares used hold the values of a polynomial as their byte b.
HoldValues(used, b, poly, x, t) ==
    \A j \in 1 .. t : used[j].index = x[j] /\ used[j].data[b] = value_at(poly, x[j])

\* One byte, from as many distinct shares as are needed.
LEMMA DistinctValuesGive ==
  ASSUME NEW t \in Nat, t # 0, NEW poly \in Seq(Byte), Len(poly) = t, NEW x \in Points(t),
         NEW used, Len(used) = t, NEW b, HoldValues(used, b, poly, x, t)
  PROVE  interpolated(used, b) = poly[1]
<1> DEFINE y == [j \in 1 .. t |-> Polynomial(poly, x[j], t)]
<1>1. poly \in Values(t)
  BY DEF Values
<1>2. \A j \in 1 .. t : x[j] \in Byte
  BY DEF Points, Byte
<1>3. \A j \in 1 .. t : value_at(poly, x[j]) = Polynomial(poly, x[j], t)
  BY <1>2, ValueAt
<1>4. \A j \in 1 .. t : Polynomial(poly, x[j], t) \in Byte
  BY <1>1, <1>2, TermsType
<1>5. y \in Values(t)
  BY <1>4 DEF Values
<1>6. /\ \A j \in 1 .. t : used[j].data[b] = y[j]
      /\ \A j \in 1 .. t : y[j] = Polynomial(poly, x[j], t)
      /\ \A j \in 1 .. t : used[j].index = x[j]
  BY <1>3 DEF HoldValues
<1> HIDE DEF y
<1>7. interpolated(used, b) = Total(Weighted(y, x, t), t)
  BY <1>5, <1>6, Interpolated
<1>8. Total(Weighted(y, x, t), t) = poly[1]
  BY <1>1, <1>6, InterpolationAtZero
<1> QED
  BY <1>7, <1>8

\* The bytes the shares used give.
Recovered(used) == [b \in 1 .. Len(used[1].data) |-> interpolated(used, b)]

\* What a list of shares of one secret, enough of them and all distinct, gives.
LEMMA DistinctSharesGive ==
  ASSUME NEW s \in Seq(Byte), NEW t \in Nat, t # 0,
         NEW polys \in [1 .. Len(s) -> [1 .. t - 1 -> Byte]], NEW x \in Points(t),
         NEW used, Len(used) = t, \A j \in 1 .. t : used[j] = ShareAt(s, t, polys, x[j])
  PROVE  Recovered(used) = s
<1>1. 1 \in 1 .. t
  OBVIOUS
<1>2. ASSUME NEW b \in 1 .. Len(s) PROVE interpolated(used, b) = s[b]
  <2>1. s[b] \in Byte /\ polys[b] \in [1 .. t - 1 -> Byte]
    OBVIOUS
  <2>2. /\ ByteOf(s, polys, b) \in Seq(Byte) /\ Len(ByteOf(s, polys, b)) = t
        /\ ByteOf(s, polys, b)[1] = s[b]
    BY <2>1, PolynomialOfByte DEF ByteOf
  <2>3. \A j \in 1 .. t : used[j].index = x[j]
    BY ShareAtFields
  <2>4. \A j \in 1 .. t : used[j].data[b] = value_at(ByteOf(s, polys, b), x[j])
    BY ShareAtFields
  <2> DEFINE poly == ByteOf(s, polys, b)
  <2>5. poly \in Seq(Byte) /\ Len(poly) = t /\ poly[1] = s[b]
    BY <2>2
  <2>6. HoldValues(used, b, poly, x, t)
    BY <2>3, <2>4 DEF HoldValues
  <2> HIDE DEF poly
  <2>7. interpolated(used, b) = poly[1]
    BY <2>5, <2>6, DistinctValuesGive
  <2> QED
    BY <2>5, <2>7
<1>3. Len(used[1].data) = Len(s)
  BY <1>1, ShareAtFields
<1>4. s = [b \in 1 .. Len(s) |-> s[b]]
  OBVIOUS
<1> QED
  BY <1>2, <1>3, <1>4 DEF Recovered

\* Two of the shares used are of one index.
Repeats(used, t) == \E i, j \in 1 .. t : i # j /\ used[i].index = used[j].index

\* The two ways combining can fail, and what it gives otherwise.
LEMMA CombinationUnfolds ==
  ASSUME NEW given, NEW t, given # << >>, given[1].threshold = t,
         NEW used, used = SubSeq(given, 1, t)
  PROVE  Combination(given)
           = IF Len(given) < t THEN ValueError
             ELSE IF used[1].data # << >> /\ Repeats(used, t)
                  THEN ZeroDivision
             ELSE Gives(Recovered(used))
BY DEF Combination, Repeats, Recovered

\* The first few of a list.
LEMMA FirstOf ==
  ASSUME NEW R, NEW list \in Seq(R), NEW t \in 1 .. Len(list)
  PROVE  /\ SubSeq(list, 1, t) \in [1 .. t -> R] /\ Len(SubSeq(list, 1, t)) = t
         /\ \A k \in 1 .. t : SubSeq(list, 1, t)[k] = list[k]
<1>1. t \in Nat /\ Len(list) \in Nat /\ t <= Len(list)
  OBVIOUS
<1> DEFINE first == SubSeq(list, 1, t)
<1>2. Len(first) = t /\ \A k \in 1 .. t : first[k] = list[k]
  BY <1>1
<1>3. first \in Seq(R)
  BY <1>1
<1> HIDE DEF first
<1>4. first \in [1 .. t -> R]
  <2>1. first \in [1 .. Len(first) -> R]
    BY <1>3
  <2> QED
    BY <1>2, <2>1
<1> QED
  BY <1>2, <1>4 DEF first

\* The shares brought together, as a list.
Given(s, t, polys, chosen) == [k \in 1 .. Len(chosen) |-> ShareAt(s, t, polys, chosen[k])]

\* The shares brought together are a list as long.
LEMMA GivenFacts ==
  ASSUME NEW s \in Seq(Byte), NEW t, NEW polys, NEW C, NEW chosen \in Seq(C)
  PROVE  /\ \E R : Given(s, t, polys, chosen) \in Seq(R)
         /\ Len(Given(s, t, polys, chosen)) = Len(chosen)
         /\ \A k \in 1 .. Len(chosen) :
                Given(s, t, polys, chosen)[k] = ShareAt(s, t, polys, chosen[k])
<1> DEFINE R == {ShareAt(s, t, polys, i) : i \in C}
<1>1. Len(chosen) \in Nat /\ \A k \in 1 .. Len(chosen) : chosen[k] \in C
  OBVIOUS
<1>2. \A k \in 1 .. Len(chosen) : ShareAt(s, t, polys, chosen[k]) \in R
  BY <1>1
<1> HIDE DEF R
<1>3. Given(s, t, polys, chosen) \in [1 .. Len(chosen) -> R]
  BY <1>2 DEF Given
<1>4. Given(s, t, polys, chosen) \in Seq(R)
  BY <1>1, <1>3
<1>5. Len(Given(s, t, polys, chosen)) = Len(chosen)
  BY <1>1 DEF Given
<1>6. \A k \in 1 .. Len(chosen) :
         Given(s, t, polys, chosen)[k] = ShareAt(s, t, polys, chosen[k])
  BY DEF Given
<1> QED
  BY <1>4, <1>5, <1>6

\* A share has a byte for each of the secret's.
LEMMA NoBytes ==
  ASSUME NEW s, s = << >>, NEW t, NEW polys, NEW i, NEW used, used[1] = ShareAt(s, t, polys, i)
  PROVE  used[1].data = << >> /\ Recovered(used) = << >>
<1>1. used[1].data = << >>
  BY DEF ShareAt
<1>2. Recovered(used) = << >>
  BY <1>1 DEF Recovered
<1> QED
  BY <1>1, <1>2

LEMMA SomeBytes ==
  ASSUME NEW s \in Seq(Byte), s # << >>, NEW t, NEW polys, NEW i,
         NEW share, share = ShareAt(s, t, polys, i)
  PROVE  share.data # << >>
<1>1. Len(s) # 0 /\ Len(share.data) = Len(s)
  BY ShareAtFields
<1> QED
  BY <1>1

\* Combining any list of shares of one secret.
LEMMA CombinationGives ==
  ASSUME NEW s \in Seq(Byte), NEW t \in Nat, t # 0, NEW total \in Nat, total <= 254,
         NEW polys \in [1 .. Len(s) -> [1 .. t - 1 -> Byte]],
         NEW chosen \in Seq(1 .. total), chosen # << >>
  PROVE  Combination(Given(s, t, polys, chosen))
           = IF Len(chosen) < t THEN ValueError
             ELSE IF s # << >> /\ ~IsInjective(SubSeq(chosen, 1, t)) THEN ZeroDivision
             ELSE Gives(s)
<1> DEFINE given == Given(s, t, polys, chosen)
<1>1. Len(chosen) \in Nat /\ 1 \in 1 .. Len(chosen)
  OBVIOUS
<1>2. /\ \E R : given \in Seq(R)
      /\ Len(given) = Len(chosen)
      /\ \A k \in 1 .. Len(chosen) : given[k] = ShareAt(s, t, polys, chosen[k])
  BY GivenFacts
<1> HIDE DEF given
<1>3. given # << >>
  BY <1>1, <1>2
<1>4. given[1].threshold = t
  BY <1>1, <1>2, ShareAtFields
<1> DEFINE used == SubSeq(given, 1, t)
<1> DEFINE first == SubSeq(chosen, 1, t)
<1> HIDE DEF used, first
<1>50. used = SubSeq(given, 1, t)
  BY DEF used
<1>5. Combination(given)
        = IF Len(given) < t THEN ValueError
          ELSE IF used[1].data # << >> /\ Repeats(used, t)
               THEN ZeroDivision
          ELSE Gives(Recovered(used))
  BY ONLY <1>3, <1>4, <1>50, CombinationUnfolds
<1>6. CASE Len(chosen) < t
  BY <1>2, <1>5, <1>6 DEF given
<1>7. CASE ~(Len(chosen) < t)
  <2>1. t \in 1 .. Len(chosen) /\ t \in 1 .. Len(given)
    BY <1>1, <1>2, <1>7
  <2>2. first \in [1 .. t -> 1 .. total] /\ \A k \in 1 .. t : first[k] = chosen[k]
    BY <2>1, FirstOf DEF first
  <2>3. Len(used) = t /\ \A k \in 1 .. t : used[k] = given[k]
    BY <1>2, <1>50, <2>1, FirstOf
  <2>4. \A k \in 1 .. t : k \in 1 .. Len(chosen)
    BY <2>1
  <2>5. \A k \in 1 .. t : used[k] = ShareAt(s, t, polys, first[k])
    BY <1>2, <2>2, <2>3, <2>4
  <2>6. \A k \in 1 .. t : used[k].index = first[k]
    BY <2>5, ShareAtFields
  <2>7. Repeats(used, t) <=> ~IsInjective(first)
    <3>1. DOMAIN first = 1 .. t
      BY <2>2
    <3> QED
      BY <2>6, <3>1 DEF Repeats, IsInjective
  <2>8. CASE IsInjective(first)
    <3>1. \A i, j \in 1 .. t : i # j => first[i] # first[j]
      BY <2>2, <2>8 DEF IsInjective
    <3>2. first \in Points(t)
      <4>1. \A k \in 1 .. total : k \in 1 .. 255
        OBVIOUS
      <4>2. \A k \in 1 .. t : first[k] \in 1 .. 255
        BY <2>2, <4>1
      <4>3. first = [k \in 1 .. t |-> first[k]]
        BY <2>2
      <4>4. first \in [1 .. t -> 1 .. 255]
        BY ONLY <4>2, <4>3
      <4> QED
        BY <3>1, <4>4 DEF Points
    <3>3. Recovered(used) = s
      BY <2>3, <2>5, <3>2, DistinctSharesGive
    <3>4. Combination(given) = Gives(s)
      BY <1>2, <1>5, <1>7, <2>7, <2>8, <3>3
    <3> QED
      BY <1>7, <2>8, <3>4 DEF first, given
  <2>9. used[1] = ShareAt(s, t, polys, first[1])
    <3>1. 1 \in 1 .. t
      BY <2>1
    <3> QED
      BY <2>5, <3>1
  <2>10. CASE s = << >>
    <3>1. used[1].data = << >> /\ Recovered(used) = << >>
      BY <2>9, <2>10, NoBytes
    <3>2. Combination(given) = Gives(s)
      BY <1>2, <1>5, <1>7, <2>10, <3>1
    <3> QED
      BY <1>7, <2>10, <3>2 DEF given
  <2>11. CASE s # << >> /\ ~IsInjective(first)
    <3>1. used[1].data # << >>
      BY <2>9, <2>11, SomeBytes
    <3>2. Combination(given) = ZeroDivision
      BY <1>2, <1>5, <1>7, <2>7, <2>11, <3>1
    <3> QED
      BY <1>7, <2>11, <3>2 DEF first, given
  <2> QED
    BY <2>8, <2>10, <2>11
<1> QED
  BY <1>6, <1>7

-----------------------------------------------------------------------------
(* What has been shared out.                                               *)

\* The shares are those of the secret, by polynomials of random bytes, and what
\* was collected are shares of it.
SharedOut(threshold, total, polys) ==
    /\ threshold <= total /\ secret \in Seq(Byte)
    /\ polys \in [1 .. Len(secret) -> [1 .. threshold - 1 -> Drawn]]
    /\ shares = ShareOut(secret, threshold, total, polys)
    /\ collected \in Seq(1 .. total)

Shared ==
    \/ shares = << >> /\ collected = << >>
    \/ \E threshold, total \in 1 .. 254 :
         \E polys \in [1 .. Len(secret) -> [1 .. threshold - 1 -> Drawn]] :
            SharedOut(threshold, total, polys)

ShamirInvariant == Shared /\ SharesGiveTheSecret

\* Shares out are not nothing, and the first of them tells how many are needed.
LEMMA SharedOutFacts ==
  ASSUME NEW t \in 1 .. 254, NEW total \in 1 .. 254, NEW polys, SharedOut(t, total, polys)
  PROVE  /\ shares = [i \in 1 .. total |-> ShareAt(secret, t, polys, i)]
         /\ shares # << >> /\ Len(shares) = total /\ shares[1].threshold = t
         /\ polys \in [1 .. Len(secret) -> [1 .. t - 1 -> Byte]]
<1>1. /\ secret \in Seq(Byte) /\ shares = ShareOut(secret, t, total, polys)
      /\ t \in Nat /\ total \in Nat /\ 1 \in 1 .. total
  BY DEF SharedOut
<1>2. shares = [i \in 1 .. total |-> ShareAt(secret, t, polys, i)]
  BY <1>1, ShareOutAt
<1>3. Len(shares) = total /\ shares # << >>
  BY <1>1, <1>2
<1>4. shares[1] = ShareAt(secret, t, polys, 1)
  BY <1>1, <1>2
<1>5. shares[1].threshold = t
  BY <1>1, <1>4, ShareAtFields
<1>6. polys \in [1 .. Len(secret) -> [1 .. t - 1 -> Byte]]
  <2>1. Drawn \subseteq Byte
    BY ShamirBounds DEF Byte
  <2>2. polys \in [1 .. Len(secret) -> [1 .. t - 1 -> Drawn]]
    BY DEF SharedOut
  <2> QED
    BY <2>1, <2>2
<1> QED
  BY <1>2, <1>3, <1>5, <1>6

Attempt == IF collected = << >> THEN ValueError
           ELSE Combination([k \in 1 .. Len(collected) |-> shares[collected[k]]])

Outcome(t) == IF Len(collected) < t THEN ValueError
              ELSE IF secret # << >> /\ ~IsInjective(SubSeq(collected, 1, t))
                   THEN ZeroDivision
              ELSE Gives(secret)

\* What combining the collected shares gives.
LEMMA CombinedIs ==
  ASSUME NEW t \in 1 .. 254, NEW total \in 1 .. 254, NEW polys, SharedOut(t, total, polys)
  PROVE  Attempt = Outcome(t)
<1> USE DEF Attempt, Outcome
<1>1. /\ secret \in Seq(Byte) /\ collected \in Seq(1 .. total)
      /\ t \in Nat /\ t # 0 /\ total \in Nat /\ total <= 254
  BY DEF SharedOut
<1>2. CASE collected = << >>
  BY <1>1, <1>2
<1>3. CASE collected # << >>
  <2>1. [k \in 1 .. Len(collected) |-> shares[collected[k]]]
          = Given(secret, t, polys, collected)
    <3>1. \A k \in 1 .. Len(collected) : collected[k] \in 1 .. total
      BY <1>1
    <3>2. \A k \in 1 .. Len(collected) :
             shares[collected[k]] = ShareAt(secret, t, polys, collected[k])
      <4>1. shares = [i \in 1 .. total |-> ShareAt(secret, t, polys, i)]
        BY SharedOutFacts
      <4> QED
        BY <3>1, <4>1
    <3> QED
      BY <3>2 DEF Given
  <2>2. polys \in [1 .. Len(secret) -> [1 .. t - 1 -> Byte]]
    BY SharedOutFacts
  <2>3. Combination(Given(secret, t, polys, collected))
          = IF Len(collected) < t THEN ValueError
            ELSE IF secret # << >> /\ ~IsInjective(SubSeq(collected, 1, t))
                 THEN ZeroDivision
            ELSE Gives(secret)
    BY <1>1, <1>3, <2>2, CombinationGives
  <2> QED
    BY <1>3, <2>1, <2>3
<1> QED
  BY <1>2, <1>3

\* Nothing is shared out at first.
LEMMA ShamirInvariantInit == ShamirInit => ShamirInvariant
BY DEF ShamirInit, ShamirInvariant, Shared, SharesGiveTheSecret

\* split shares out a secret, or refuses.
LEMMA SplitKeepsInvariant ==
  ASSUME ShamirInvariant, NEW s \in Secret, NEW threshold \in Thresholds,
         NEW total \in Totals, split(s, threshold, total)
  PROVE  ShamirInvariant'
<1>1. shares = << >> /\ combined = NotYet /\ UNCHANGED collected
  BY DEF split
<1>2. collected = << >>
  <2>1. ASSUME NEW t \in 1 .. 254, NEW n \in 1 .. 254, NEW polys, SharedOut(t, n, polys)
        PROVE  FALSE
    BY <1>1, <2>1, SharedOutFacts
  <2> QED
    BY <2>1 DEF ShamirInvariant, Shared
<1>3. CASE threshold < 1 \/ threshold > total \/ total > 254
  <2>1. UNCHANGED <<secret, shares>>
    BY <1>3 DEF split
  <2> QED
    BY <1>1, <1>2, <2>1 DEF ShamirInvariant, Shared, SharesGiveTheSecret
<1>4. CASE ~(threshold < 1 \/ threshold > total \/ total > 254)
  <2>1. threshold \in 1 .. 254 /\ total \in 1 .. 254 /\ threshold <= total
    BY <1>4, ShamirBounds
  <2>2. PICK polys \in [1 .. Len(s) -> [1 .. threshold - 1 -> Drawn]] :
                shares' = ShareOut(s, threshold, total, polys)
    BY <1>4 DEF split
  <2>3. secret' = s /\ combined' = NotYet
    BY <1>1, <1>4 DEF split
  <2>4. s \in Seq(Byte)
    BY ShamirBounds DEF Byte
  <2>5. << >> \in Seq(1 .. total)
    OBVIOUS
  <2>6. SharedOut(threshold, total, polys)'
    BY <1>1, <1>2, <2>1, <2>2, <2>3, <2>4, <2>5 DEF SharedOut
  <2>7. Shared'
    BY <2>1, <2>2, <2>3, <2>6 DEF Shared
  <2> QED
    BY <2>3, <2>7 DEF ShamirInvariant, SharesGiveTheSecret
<1> QED
  BY <1>3, <1>4

\* Another share is brought.
LEMMA CollectKeepsInvariant ==
  ASSUME ShamirInvariant, NEW i \in 1 .. Len(shares), Collect(i)
  PROVE  ShamirInvariant'
<1>1. /\ shares # << >> /\ combined = NotYet /\ collected' = Append(collected, i)
      /\ UNCHANGED <<secret, shares, combined>>
  BY DEF Collect
<1>2. PICK t, total \in 1 .. 254 :
         \E polys \in [1 .. Len(secret) -> [1 .. t - 1 -> Drawn]] : SharedOut(t, total, polys)
  BY <1>1 DEF ShamirInvariant, Shared
<1>3. PICK polys \in [1 .. Len(secret) -> [1 .. t - 1 -> Drawn]] : SharedOut(t, total, polys)
  BY <1>2
<1>4. i \in 1 .. total
  BY <1>3, SharedOutFacts
<1>5. collected' \in Seq(1 .. total)
  BY <1>1, <1>3, <1>4 DEF SharedOut
<1>6. SharedOut(t, total, polys)'
  BY <1>1, <1>3, <1>5 DEF SharedOut
<1> QED
  BY <1>1, <1>6 DEF ShamirInvariant, Shared, SharesGiveTheSecret

\* What was brought is combined.
LEMMA CombineKeepsInvariant ==
  ASSUME ShamirInvariant, combine
  PROVE  ShamirInvariant'
<1>1. /\ shares # << >> /\ UNCHANGED <<secret, shares, collected>>
      /\ combined' = IF collected = << >> THEN ValueError
                     ELSE Combination([k \in 1 .. Len(collected) |-> shares[collected[k]]])
  BY DEF combine
<1>2. PICK t, total \in 1 .. 254 :
         \E polys \in [1 .. Len(secret) -> [1 .. t - 1 -> Drawn]] : SharedOut(t, total, polys)
  BY <1>1 DEF ShamirInvariant, Shared
<1>3. PICK polys \in [1 .. Len(secret) -> [1 .. t - 1 -> Drawn]] : SharedOut(t, total, polys)
  BY <1>2
<1>4. combined' = IF Len(collected) < t THEN ValueError
                  ELSE IF secret # << >> /\ ~IsInjective(SubSeq(collected, 1, t))
                       THEN ZeroDivision
                  ELSE Gives(secret)
  <2>1. Attempt = Outcome(t)
    BY <1>3, CombinedIs, Zenon
  <2> QED
    BY <1>1, <2>1 DEF Attempt, Outcome
<1>5. shares[1].threshold = t
  BY <1>3, SharedOutFacts
<1>6. SharesGiveTheSecret'
  BY <1>1, <1>4, <1>5 DEF SharesGiveTheSecret
<1>7. Shared'
  BY <1>1 DEF ShamirInvariant, Shared, SharedOut
<1> QED
  BY <1>6, <1>7 DEF ShamirInvariant

\* Every step of sharing and combining keeps the invariant.
LEMMA ShamirInvariantStep ==
  ShamirInvariant /\ [ShamirNext]_shamirVars => ShamirInvariant'
<1> SUFFICES ASSUME ShamirInvariant, [ShamirNext]_shamirVars
             PROVE  ShamirInvariant'
  OBVIOUS
<1>1. CASE \E s \in Secret, threshold \in Thresholds, total \in Totals :
              split(s, threshold, total)
  BY <1>1, SplitKeepsInvariant
<1>2. CASE \E i \in 1 .. Len(shares) : Collect(i)
  BY <1>2, CollectKeepsInvariant
<1>3. CASE combine
  BY <1>3, CombineKeepsInvariant
<1>4. CASE UNCHANGED shamirVars
  BY <1>4 DEF ShamirInvariant, Shared, SharedOut, SharesGiveTheSecret, shamirVars
<1> QED
  BY <1>1, <1>2, <1>3, <1>4 DEF ShamirNext

\* Any shares of one secret, enough of them, in any order and not beginning with
\* the same one twice, give back that secret, and anything else an error:
\* interpolation in the field of 256 elements is exact, whatever the secret, the
\* random bytes, the threshold and the number of shares that split admits.
THEOREM CombinationIsExact == ShamirSpec => []SharesGiveTheSecret
<1>1. ShamirInvariant => SharesGiveTheSecret
  BY DEF ShamirInvariant
<1> QED
  BY <1>1, ShamirInvariantInit, ShamirInvariantStep, PTL DEF ShamirSpec

-----------------------------------------------------------------------------
(* What too few shares tell.                                               *)

\* Values moved up by one place, the last of which is 0.
LEMMA TotalShift ==
  ASSUME NEW n \in Nat, n # 0, NEW v \in Values(n), NEW u \in Values(n), v[n] = 0, u[1] = 0,
         \A k \in 2 .. n : u[k] = v[k - 1]
  PROVE  Total(u, n) = Total(v, n)
<1>1. PICK f : RunSums(f, v, n) /\ f[n] = Total(v, n) /\ \A k \in 0 .. n : f[k] \in Byte
  BY TotalRun
<1> DEFINE h == [k \in 0 .. n |-> IF k = 0 THEN 0 ELSE f[k - 1]]
<1>2. h[0] = 0
  OBVIOUS
<1>3. ASSUME NEW k \in 1 .. n PROVE h[k] = add(h[k - 1], u[k])
  <2>1. k \in 0 .. n /\ k - 1 \in 0 .. n /\ h[k] = f[k - 1] /\ f[k - 1] \in Byte
    BY <1>1
  <2>2. CASE k = 1
    <3>1. f[k - 1] = 0 /\ h[k - 1] = 0 /\ u[k] = 0
      BY <1>1, <2>2 DEF RunSums
    <3>2. add(0, 0) = 0
      BY AddZero DEF Byte
    <3> QED
      BY <2>1, <3>1, <3>2
  <2>3. CASE k # 1
    <3>1. k \in 2 .. n /\ k - 1 \in 1 .. n /\ k - 1 # 0
      BY <2>3
    <3>2. h[k - 1] = f[(k - 1) - 1] /\ u[k] = v[k - 1]
      BY <2>1, <3>1
    <3>3. f[k - 1] = add(f[(k - 1) - 1], v[k - 1])
      BY <1>1, <3>1 DEF RunSums
    <3> QED
      BY <2>1, <3>2, <3>3
  <2> QED
    BY <2>2, <2>3
<1>4. RunSums(h, u, n)
  BY <1>2, <1>3 DEF RunSums
<1>5. h[n] = f[n - 1] /\ f[n - 1] \in Byte
  <2>1. n \in 0 .. n /\ n - 1 \in 0 .. n
    OBVIOUS
  <2> QED
    BY <1>1, <2>1
<1>6. f[n] = add(f[n - 1], 0)
  <2>1. n \in 1 .. n
    OBVIOUS
  <2> QED
    BY <1>1, <2>1 DEF RunSums
<1>7. f[n] = f[n - 1]
  BY <1>5, <1>6, AddZero
<1> HIDE DEF h
<1>8. h[n] = Total(u, n)
  BY <1>4, TotalUnique
<1> QED
  BY <1>1, <1>5, <1>7, <1>8

\* The sum of polynomials.
LEMMA PolynomialAdd ==
  ASSUME NEW n \in Nat, NEW c \in Values(n), NEW d \in Values(n), NEW e \in Values(n),
         \A k \in 1 .. n : e[k] = add(c[k], d[k]), NEW b \in Byte
  PROVE  Polynomial(e, b, n) = add(Polynomial(c, b, n), Polynomial(d, b, n))
<1> DEFINE v == Terms(c, b, n)
<1> DEFINE w == Terms(d, b, n)
<1> DEFINE u == Terms(e, b, n)
<1>1. v \in Values(n) /\ w \in Values(n) /\ u \in Values(n)
  BY TermsType
<1>2. ASSUME NEW k \in 1 .. n PROVE u[k] = add(v[k], w[k])
  <2>1. /\ c[k] \in Byte /\ d[k] \in Byte /\ k - 1 \in Nat
        /\ v[k] = mul(c[k], PowerOf(b, k - 1)) /\ w[k] = mul(d[k], PowerOf(b, k - 1))
        /\ u[k] = mul(add(c[k], d[k]), PowerOf(b, k - 1))
    BY DEF Values, Terms
  <2>2. PowerOf(b, k - 1) \in Byte
    BY <2>1, PowerOfFacts
  <2> HIDE DEF v, w, u
  <2> QED
    BY <2>1, <2>2, MulDistributes
<1> HIDE DEF v, w, u
<1>3. Total(u, n) = add(Total(v, n), Total(w, n))
  BY <1>1, <1>2, TotalAdd
<1> QED
  BY <1>3 DEF Polynomial, v, w, u

\* A polynomial times a byte.
LEMMA PolynomialScale ==
  ASSUME NEW n \in Nat, NEW c \in Values(n), NEW e \in Values(n), NEW a \in Byte,
         \A k \in 1 .. n : e[k] = mul(a, c[k]), NEW b \in Byte
  PROVE  Polynomial(e, b, n) = mul(a, Polynomial(c, b, n))
<1> DEFINE v == Terms(c, b, n)
<1> DEFINE u == Terms(e, b, n)
<1>1. v \in Values(n) /\ u \in Values(n)
  BY TermsType
<1>2. ASSUME NEW k \in 1 .. n PROVE u[k] = mul(a, v[k])
  <2>1. /\ c[k] \in Byte /\ k - 1 \in Nat
        /\ v[k] = mul(c[k], PowerOf(b, k - 1)) /\ u[k] = mul(mul(a, c[k]), PowerOf(b, k - 1))
    BY DEF Values, Terms
  <2>2. PowerOf(b, k - 1) \in Byte
    BY <2>1, PowerOfFacts
  <2> HIDE DEF v, u
  <2> QED
    BY <2>1, <2>2, MulAssociates
<1> HIDE DEF v, u
<1>3. Total(u, n) = mul(a, Total(v, n))
  BY <1>1, <1>2, TotalScale
<1> QED
  BY <1>3 DEF Polynomial, v, u

\* A polynomial times its variable.
LEMMA PolynomialShift ==
  ASSUME NEW n \in Nat, n # 0, NEW c \in Values(n), NEW e \in Values(n), c[n] = 0, e[1] = 0,
         \A k \in 2 .. n : e[k] = c[k - 1], NEW b \in Byte
  PROVE  Polynomial(e, b, n) = mul(b, Polynomial(c, b, n))
<1> DEFINE v == Terms(c, b, n)
<1> DEFINE u == Terms(e, b, n)
<1> DEFINE w == [k \in 1 .. n |-> mul(b, v[k])]
<1>1. v \in Values(n) /\ u \in Values(n)
  BY TermsType
<1>2. w \in Values(n)
  <2> HIDE DEF v
  <2> QED
    BY <1>1, MulType DEF Values
<1>3. w[n] = 0
  <2>1. v[n] = mul(0, PowerOf(b, n - 1)) /\ n \in 1 .. n /\ n - 1 \in Nat
    BY DEF Terms
  <2>2. v[n] = 0
    BY <2>1, PowerOfFacts, MulZero
  <2> HIDE DEF v
  <2> QED
    BY <2>1, <2>2, MulZero
<1>4. u[1] = 0
  <2>1. u[1] = mul(0, PowerOf(b, 1 - 1)) /\ 1 - 1 \in Nat
    BY DEF Terms
  <2> HIDE DEF u
  <2> QED
    BY <2>1, PowerOfFacts, MulZero
<1>5. ASSUME NEW k \in 2 .. n PROVE u[k] = w[k - 1]
  <2> DEFINE m == k - 2
  <2>1. k \in 1 .. n /\ k - 1 \in 1 .. n /\ m \in Nat /\ (k - 1) - 1 = m /\ k - 1 = m + 1
    OBVIOUS
  <2>2. /\ u[k] = mul(e[k], PowerOf(b, k - 1)) /\ w[k - 1] = mul(b, v[k - 1])
        /\ v[k - 1] = mul(c[k - 1], PowerOf(b, (k - 1) - 1)) /\ e[k] = c[k - 1]
        /\ c[k - 1] \in Byte
    BY <2>1 DEF Terms, Values
  <2> DEFINE p == PowerOf(b, m)
  <2> DEFINE a == c[k - 1]
  <2>3. PowerOf(b, m + 1) = mul(p, b) /\ p \in Byte
    BY <2>1, PowerOfFacts
  <2>4. u[k] = mul(a, mul(p, b)) /\ w[k - 1] = mul(b, mul(a, p)) /\ a \in Byte
    BY <2>1, <2>2, <2>3
  <2> HIDE DEF u, w, v, p, a, m
  <2>5. mul(a, mul(p, b)) = mul(mul(a, p), b) /\ mul(a, p) \in Byte
    BY <2>3, <2>4, MulAssociates, MulType
  <2>6. mul(mul(a, p), b) = mul(b, mul(a, p))
    BY <2>5, MulCommutes
  <2> QED
    BY <2>4, <2>5, <2>6
<1>6. Total(w, n) = mul(b, Total(v, n))
  <2>1. \A k \in 1 .. n : w[k] = mul(b, v[k])
    OBVIOUS
  <2> HIDE DEF v, w
  <2> QED
    BY <1>1, <1>2, <2>1, TotalScale
<1> HIDE DEF v, u, w
<1>7. Total(u, n) = Total(w, n)
  BY <1>1, <1>2, <1>3, <1>4, <1>5, TotalShift
<1> QED
  BY <1>6, <1>7 DEF Polynomial, v, u

\* A polynomial with n coefficients that is 1 at 0 and 0 at k other points.
IsMask(mask, x, k, n) ==
    /\ mask \in Values(n) /\ mask[1] = 1
    /\ \A j \in 1 .. n : j > k + 1 => mask[j] = 0
    /\ \A i \in 1 .. k : Polynomial(mask, x[i], n) = 0

\* One more point: multiplied by 1 + b/a, which is 0 at a.
LEMMA MaskOneMore ==
  ASSUME NEW n \in Nat, NEW k \in Nat, k + 1 < n, NEW x, \A i \in 1 .. k + 1 : x[i] \in 1 .. 255,
         NEW mask, IsMask(mask, x, k, n)
  PROVE  \E wider : IsMask(wider, x, k + 1, n)
<1> DEFINE a == x[k + 1]
<1> DEFINE c == div(1, a)
<1>1. k + 1 \in 1 .. k + 1 /\ n # 0 /\ 1 \in 1 .. n /\ n \in 1 .. n /\ n > k + 1
  OBVIOUS
<1>2. a \in Byte /\ a # 0 /\ 1 \in Byte /\ 0 \in Byte
  BY <1>1 DEF Byte
<1>3. c \in Byte /\ mul(c, a) = 1
  BY <1>2, DivUndoesMul
<1> HIDE DEF a, c
<1>4. mask \in Values(n) /\ mask[1] = 1 /\ mask[n] = 0
  BY <1>1 DEF IsMask
<1> DEFINE up == [j \in 1 .. n |-> IF j = 1 THEN 0 ELSE mask[j - 1]]
<1>5. up \in Values(n) /\ up[1] = 0 /\ \A j \in 2 .. n : up[j] = mask[j - 1]
  <2>1. ASSUME NEW j \in 1 .. n, j # 1 PROVE mask[j - 1] \in Byte
    <3>1. j - 1 \in 1 .. n
      BY <2>1
    <3> QED
      BY <1>4, <3>1 DEF Values
  <2> QED
    BY <1>1, <1>2, <2>1 DEF Values
<1>6. \A j \in 1 .. n : j > k + 2 => up[j] = 0
  <2> SUFFICES ASSUME NEW j \in 1 .. n, j > k + 2 PROVE up[j] = 0
    OBVIOUS
  <2>1. j # 1 /\ j - 1 \in 1 .. n /\ j - 1 > k + 1
    OBVIOUS
  <2>2. mask[j - 1] = 0
    BY <2>1 DEF IsMask
  <2> QED
    BY <2>1, <2>2
<1> HIDE DEF up
<1> DEFINE part == [j \in 1 .. n |-> mul(c, up[j])]
<1>7. part \in Values(n) /\ \A j \in 1 .. n : part[j] = mul(c, up[j])
  BY <1>3, <1>5, MulType DEF Values
<1> HIDE DEF part
<1> DEFINE wider == [j \in 1 .. n |-> add(mask[j], part[j])]
<1>8. wider \in Values(n) /\ \A j \in 1 .. n : wider[j] = add(mask[j], part[j])
  BY <1>4, <1>7, AddType DEF Values
<1> HIDE DEF wider
<1>9. wider[1] = 1
  <2>1. part[1] = 0
    BY <1>1, <1>3, <1>5, <1>7, MulZero
  <2> QED
    BY <1>1, <1>2, <1>4, <1>8, <2>1, AddZero
<1>10. ASSUME NEW j \in 1 .. n, j > (k + 1) + 1 PROVE wider[j] = 0
  <2>1. mask[j] = 0 /\ up[j] = 0
    <3>1. j > k + 1 /\ j > k + 2
      BY <1>10
    <3> QED
      BY <1>6, <3>1 DEF IsMask
  <2>2. part[j] = 0
    BY <1>3, <1>7, <2>1, MulZero
  <2> QED
    BY <1>2, <1>8, <2>1, <2>2, AddZero
<1>11. ASSUME NEW b \in Byte
       PROVE  /\ Polynomial(mask, b, n) \in Byte
              /\ Polynomial(wider, b, n)
                    = add(Polynomial(mask, b, n), mul(c, mul(b, Polynomial(mask, b, n))))
  <2>1. Polynomial(up, b, n) = mul(b, Polynomial(mask, b, n))
    BY <1>1, <1>4, <1>5, PolynomialShift
  <2>2. Polynomial(part, b, n) = mul(c, Polynomial(up, b, n))
    BY <1>3, <1>5, <1>7, PolynomialScale
  <2>3. Polynomial(wider, b, n) = add(Polynomial(mask, b, n), Polynomial(part, b, n))
    BY <1>4, <1>7, <1>8, PolynomialAdd
  <2>4. Polynomial(mask, b, n) \in Byte
    BY <1>4, TermsType
  <2> QED
    BY <2>1, <2>2, <2>3, <2>4
<1>12. ASSUME NEW i \in 1 .. k + 1 PROVE Polynomial(wider, x[i], n) = 0
  <2>1. CASE i = k + 1
    <3> DEFINE p == Polynomial(mask, a, n)
    <3>1. p \in Byte /\ Polynomial(wider, a, n) = add(p, mul(c, mul(a, p)))
      BY <1>2, <1>11
    <3> HIDE DEF p
    <3>2. mul(c, mul(a, p)) = mul(mul(c, a), p)
      BY <1>2, <1>3, <3>1, MulAssociates
    <3>3. mul(c, mul(a, p)) = p
      BY <1>3, <3>1, <3>2, MulOne
    <3>4. Polynomial(wider, a, n) = 0
      BY <3>1, <3>3, AddZero
    <3> QED
      BY <2>1, <3>4 DEF a
  <2>2. CASE i # k + 1
    <3>1. i \in 1 .. k /\ x[i] \in Byte
      BY <2>2 DEF Byte
    <3>2. Polynomial(mask, x[i], n) = 0
      BY <3>1 DEF IsMask
    <3>3. Polynomial(wider, x[i], n) = add(0, mul(c, mul(x[i], 0)))
      BY <1>11, <3>1, <3>2
    <3> QED
      BY <1>2, <1>3, <3>1, <3>3, MulZero, AddZero
  <2> QED
    BY <2>1, <2>2
<1> QED
  BY <1>8, <1>9, <1>10, <1>12 DEF IsMask

\* There is one for any points fewer than the coefficients.
LEMMA MaskExists ==
  ASSUME NEW n \in Nat, NEW m \in Nat, m < n, NEW x, \A i \in 1 .. m : x[i] \in 1 .. 255
  PROVE  \E mask : IsMask(mask, x, m, n)
<1> DEFINE G == {k \in Nat : k <= m => \E mask : IsMask(mask, x, k, n)}
<1>1. 0 \in G
  <2> DEFINE mask == [j \in 1 .. n |-> IF j = 1 THEN 1 ELSE 0]
  <2>1. 1 \in 1 .. n /\ 0 \in Byte /\ 1 \in Byte
    BY DEF Byte
  <2>2. IsMask(mask, x, 0, n)
    BY <2>1 DEF IsMask, Values
  <2> HIDE DEF mask
  <2> QED
    BY <2>2
<1>2. ASSUME NEW k \in Nat, k \in G PROVE k + 1 \in G
  <2> SUFFICES ASSUME k + 1 <= m PROVE \E mask : IsMask(mask, x, k + 1, n)
    OBVIOUS
  <2>1. k <= m /\ k + 1 < n /\ \A i \in 1 .. k + 1 : x[i] \in 1 .. 255
    OBVIOUS
  <2>2. PICK mask : IsMask(mask, x, k, n)
    BY <1>2, <2>1
  <2> QED
    BY <2>1, <2>2, MaskOneMore
<1> HIDE DEF G
<1>3. \A k \in Nat : k \in G
  BY <1>1, <1>2, NumberInduction
<1> QED
  BY <1>3 DEF G

\* What os.urandom may draw for one byte of a secret, and for all of them.
ByteDraws(t) == [1 .. t - 1 -> Byte]

Draws(length, t) == [1 .. length -> ByteDraws(t)]

\* The polynomial with constant c and what was drawn.
WithConstant(c, drawn) == <<c>> \o drawn

\* The bytes drawn, moved by d times a mask.
Moved(drawn, mask, d, t) == [j \in 1 .. t - 1 |-> add(drawn[j], mul(d, mask[j + 1]))]

\* Moving twice is moving back.
LEMMA MovedBack ==
  ASSUME NEW t \in Nat, t # 0, NEW mask \in Values(t), NEW d \in Byte,
         NEW drawn \in [1 .. t - 1 -> Byte]
  PROVE  /\ Moved(drawn, mask, d, t) \in [1 .. t - 1 -> Byte]
         /\ Moved(Moved(drawn, mask, d, t), mask, d, t) = drawn
<1>1. \A j \in 1 .. t - 1 : drawn[j] \in Byte /\ mul(d, mask[j + 1]) \in Byte
  <2> SUFFICES ASSUME NEW j \in 1 .. t - 1
               PROVE  drawn[j] \in Byte /\ mul(d, mask[j + 1]) \in Byte
    OBVIOUS
  <2>1. mask[j + 1] \in Byte
    BY DEF Values
  <2> QED
    BY <2>1, MulType
<1> DEFINE once == Moved(drawn, mask, d, t)
<1>2. /\ once \in [1 .. t - 1 -> Byte]
      /\ \A j \in 1 .. t - 1 : once[j] = add(drawn[j], mul(d, mask[j + 1]))
  BY <1>1, AddType DEF Moved
<1> HIDE DEF once
<1> DEFINE twice == Moved(once, mask, d, t)
<1>3. /\ twice = [j \in 1 .. t - 1 |-> twice[j]]
      /\ \A j \in 1 .. t - 1 : twice[j] = add(once[j], mul(d, mask[j + 1]))
  BY DEF Moved
<1> HIDE DEF twice
<1>4. \A j \in 1 .. t - 1 : twice[j] = drawn[j]
  BY <1>1, <1>2, <1>3, AddCancels
<1>5. twice = drawn
  BY <1>3, <1>4
<1> QED
  BY <1>2, <1>5 DEF once, twice

\* One byte of another secret, with what was drawn moved by the difference of the
\* two, has the same value where the mask is 0.
LEMMA SameValue ==
  ASSUME NEW t \in Nat, t # 0, NEW mask \in Values(t), mask[1] = 1, NEW c \in Byte,
         NEW other \in Byte, NEW drawn \in ByteDraws(t), NEW at \in Byte,
         Polynomial(mask, at, t) = 0
  PROVE  value_at(WithConstant(other, Moved(drawn, mask, add(c, other), t)), at)
            = value_at(WithConstant(c, drawn), at)
<1> DEFINE d == add(c, other)
<1> DEFINE moved == Moved(drawn, mask, d, t)
<1> DEFINE p == <<c>> \o drawn
<1> DEFINE q == <<other>> \o moved
<1> DEFINE e == [j \in 1 .. t |-> mul(d, mask[j])]
<1>1. d \in Byte /\ 1 \in 1 .. t /\ t - 1 \in Nat
  BY AddType
<1>2. moved \in [1 .. t - 1 -> Byte]
  <2> HIDE DEF d
  <2> QED
    BY <1>1, MovedBack DEF ByteDraws
<1>3. /\ drawn \in Seq(Byte) /\ Len(drawn) = t - 1
      /\ moved \in Seq(Byte) /\ Len(moved) = t - 1
  BY <1>1, <1>2 DEF ByteDraws
<1>4. p \in Seq(Byte) /\ Len(p) = t /\ p[1] = c /\ \A j \in 2 .. t : p[j] = drawn[j - 1]
  BY <1>3
<1>5. q \in Seq(Byte) /\ Len(q) = t /\ q[1] = other /\ \A j \in 2 .. t : q[j] = moved[j - 1]
  <2> HIDE DEF moved
  <2> QED
    BY <1>3
<1>6. \A j \in 1 .. t - 1 : moved[j] = add(drawn[j], mul(d, mask[j + 1]))
  BY DEF Moved
<1> HIDE DEF moved
<1>7. e \in Values(t) /\ \A j \in 1 .. t : e[j] = mul(d, mask[j])
  <2> HIDE DEF d
  <2> QED
    BY <1>1, MulType DEF Values
<1> HIDE DEF e
<1> HIDE DEF p, q
<1>8. p \in Values(t) /\ q \in Values(t)
  BY <1>4, <1>5 DEF Values
<1>9. ASSUME NEW j \in 1 .. t PROVE q[j] = add(p[j], e[j])
  <2>1. CASE j = 1
    <3>1. e[1] = d
      BY <1>1, <1>7, MulOne
    <3>2. add(c, d) = other
      <4>1. add(add(other, c), c) = other /\ add(c, other) = add(other, c)
        BY AddCancels, AddCommutes
      <4>2. add(c, add(other, c)) = add(add(other, c), c) /\ add(other, c) \in Byte
        BY AddCommutes, AddType
      <4> QED
        BY <4>1, <4>2
    <3> QED
      BY <1>4, <1>5, <2>1, <3>1, <3>2
  <2>2. CASE j # 1
    <3>1. j \in 2 .. t /\ j - 1 \in 1 .. t - 1 /\ (j - 1) + 1 = j
      BY <2>2
    <3> HIDE DEF d
    <3>2. q[j] = moved[j - 1] /\ p[j] = drawn[j - 1] /\ e[j] = mul(d, mask[j])
      BY <1>4, <1>5, <1>7, <3>1
    <3>3. moved[j - 1] = add(drawn[j - 1], mul(d, mask[j]))
      BY <1>6, <3>1
    <3> QED
      BY <3>2, <3>3
  <2> QED
    BY <2>1, <2>2
<1> HIDE DEF d
<1>10. Polynomial(q, at, t) = add(Polynomial(p, at, t), Polynomial(e, at, t))
  BY <1>7, <1>8, <1>9, PolynomialAdd
<1>11. Polynomial(e, at, t) = 0
  <2>1. Polynomial(e, at, t) = mul(d, Polynomial(mask, at, t))
    BY <1>1, <1>7, PolynomialScale
  <2> QED
    BY <1>1, <2>1, MulZero
<1>12. Polynomial(p, at, t) \in Byte
  BY <1>8, TermsType
<1>13. Polynomial(q, at, t) = Polynomial(p, at, t)
  BY <1>10, <1>11, <1>12, AddZero
<1>14. value_at(p, at) = Polynomial(p, at, t) /\ value_at(q, at) = Polynomial(q, at, t)
  BY <1>4, <1>5, ValueAt
<1>15. value_at(q, at) = value_at(p, at)
  BY <1>13, <1>14
<1> QED
  BY <1>15 DEF p, q, moved, d, WithConstant

\* The draws that lead to the shares seen, of a secret s and of another one, are
\* in one-to-one correspondence.
SameShares(s, other, threshold, total, seen) ==
    \E swapped \in [Draws(Len(s), threshold) -> Draws(Len(s), threshold)] :
        \A polys \in Draws(Len(s), threshold) :
            /\ swapped[swapped[polys]] = polys
            /\ \A k \in 1 .. Len(seen) :
                  ShareOut(other, threshold, total, swapped[polys])[seen[k]]
                     = ShareOut(s, threshold, total, polys)[seen[k]]

\* Two secrets of one length, and fewer shares seen than are needed.
TooFewSeen(s, other, threshold, total, seen) ==
    /\ s \in Seq(Byte) /\ other \in Seq(Byte) /\ Len(other) = Len(s)
    /\ threshold \in 1 .. 254 /\ total \in threshold .. 254
    /\ seen \in Seq(1 .. total) /\ Len(seen) < threshold

\* Fewer shares than the threshold tell nothing of the secret: to every other one
\* of its length as many draws lead to the same shares, so that with draws that
\* are all as likely every secret is as likely as before.
THEOREM TooFewTellNothing ==
  \A s, other, threshold, total, seen :
     TooFewSeen(s, other, threshold, total, seen) => SameShares(s, other, threshold, total, seen)
<1> SUFFICES ASSUME NEW s, NEW other, NEW threshold, NEW total, NEW seen,
                    TooFewSeen(s, other, threshold, total, seen)
             PROVE  SameShares(s, other, threshold, total, seen)
  OBVIOUS
<1>0. /\ s \in Seq(Byte) /\ other \in Seq(Byte) /\ Len(other) = Len(s)
      /\ threshold \in 1 .. 254 /\ total \in threshold .. 254
      /\ seen \in Seq(1 .. total) /\ Len(seen) < threshold
  BY DEF TooFewSeen
<1> DEFINE t == threshold
<1> DEFINE m == Len(seen)
<1> DEFINE l == Len(s)
<1>1. /\ t \in Nat /\ t # 0 /\ total \in Nat /\ m \in Nat /\ m < t /\ l \in Nat
      /\ \A k \in 1 .. m : seen[k] \in 1 .. total /\ seen[k] \in 1 .. 255 /\ seen[k] \in Byte
  <2>1. threshold \in Nat /\ threshold # 0 /\ total \in Nat /\ total <= 254
    BY <1>0
  <2>2. Len(seen) \in Nat /\ Len(s) \in Nat
    BY <1>0
  <2>3. ASSUME NEW k \in 1 .. m
        PROVE  seen[k] \in 1 .. total /\ seen[k] \in 1 .. 255 /\ seen[k] \in Byte
    <3> DEFINE i == seen[k]
    <3>1. i \in 1 .. total
      BY <1>0
    <3> HIDE DEF i
    <3>2. i \in 1 .. 255 /\ i \in Byte
      BY <2>1, <3>1 DEF Byte
    <3> QED
      BY <3>1, <3>2 DEF i
  <2> QED
    BY <1>0, <2>1, <2>2, <2>3
<1>2. \A b \in 1 .. l : s[b] \in Byte /\ other[b] \in Byte
  BY <1>0
<1> HIDE DEF t, m, l
<1>3. PICK mask : IsMask(mask, seen, m, t)
  BY <1>1, MaskExists
<1>4. mask \in Values(t) /\ mask[1] = 1 /\ \A k \in 1 .. m : Polynomial(mask, seen[k], t) = 0
  BY <1>3 DEF IsMask
<1> DEFINE d == [b \in 1 .. l |-> add(s[b], other[b])]
<1>5. \A b \in 1 .. l : d[b] \in Byte /\ d[b] = add(s[b], other[b])
  BY <1>2, AddType
<1> HIDE DEF d
<1> DEFINE Swap(polys) == [b \in 1 .. l |-> Moved(polys[b], mask, d[b], t)]
<1>6. ASSUME NEW polys \in Draws(l, t)
      PROVE  /\ Swap(polys) \in Draws(l, t) /\ Swap(Swap(polys)) = polys
             /\ \A k \in 1 .. m :
                   ShareAt(other, t, Swap(polys), seen[k]) = ShareAt(s, t, polys, seen[k])
  <2>1. \A b \in 1 .. l : polys[b] \in ByteDraws(t) /\ polys[b] \in [1 .. t - 1 -> Byte]
    BY DEF Draws, ByteDraws
  <2>2. \A b \in 1 .. l : /\ Moved(polys[b], mask, d[b], t) \in [1 .. t - 1 -> Byte]
                          /\ Moved(Moved(polys[b], mask, d[b], t), mask, d[b], t) = polys[b]
    BY <1>1, <1>4, <1>5, <2>1, MovedBack
  <2>3. Swap(polys) \in Draws(l, t)
    BY <2>2 DEF Draws, ByteDraws
  <2>4. Swap(Swap(polys)) = polys
    <3>1. \A b \in 1 .. l : Swap(Swap(polys))[b] = polys[b]
      BY <2>2
    <3>2. polys = [b \in 1 .. l |-> polys[b]]
      BY DEF Draws
    <3> QED
      BY <3>1, <3>2
  <2>5. ASSUME NEW k \in 1 .. m
        PROVE  ShareAt(other, t, Swap(polys), seen[k]) = ShareAt(s, t, polys, seen[k])
    <3> DEFINE i == seen[k]
    <3>1. i \in Byte /\ Polynomial(mask, i, t) = 0
      BY <1>1, <1>4
    <3>2. ASSUME NEW b \in 1 .. l
          PROVE  value_at(ByteOf(other, Swap(polys), b), i) = value_at(ByteOf(s, polys, b), i)
      <4>1. s[b] \in Byte /\ other[b] \in Byte /\ polys[b] \in ByteDraws(t)
        BY <1>2, <2>1
      <4>2. Swap(polys)[b] = Moved(polys[b], mask, add(s[b], other[b]), t)
        BY <1>5
      <4> HIDE DEF i, Swap
      <4> DEFINE c == s[b]
      <4> DEFINE o == other[b]
      <4> DEFINE drawn == polys[b]
      <4>3. value_at(WithConstant(o, Moved(drawn, mask, add(c, o), t)), i)
               = value_at(WithConstant(c, drawn), i)
        <5>1. /\ t \in Nat /\ t # 0 /\ mask \in Values(t) /\ mask[1] = 1
              /\ c \in Byte /\ o \in Byte /\ drawn \in ByteDraws(t)
              /\ i \in Byte /\ Polynomial(mask, i, t) = 0
          BY <1>1, <1>4, <3>1, <4>1
        <5> HIDE DEF c, o, drawn
        <5> QED
          BY ONLY <5>1, SameValue
      <4>4. ByteOf(other, Swap(polys), b)
               = WithConstant(other[b], Moved(polys[b], mask, add(s[b], other[b]), t))
        BY <4>2 DEF ByteOf, WithConstant
      <4>5. ByteOf(s, polys, b) = WithConstant(s[b], polys[b])
        BY DEF ByteOf, WithConstant
      <4> QED
        BY <4>3, <4>4, <4>5
    <3> HIDE DEF i, Swap
    <3>3. [b \in 1 .. l |-> value_at(ByteOf(other, Swap(polys), b), i)]
             = [b \in 1 .. l |-> value_at(ByteOf(s, polys, b), i)]
      BY <3>2
    <3> QED
      BY <1>0, <3>3 DEF ShareAt, i, l
  <2> QED
    BY <2>3, <2>4, <2>5
<1> HIDE DEF Swap
<1> DEFINE swapped == [polys \in Draws(l, t) |-> Swap(polys)]
<1>7. swapped \in [Draws(l, t) -> Draws(l, t)]
  BY <1>6
<1>8. ASSUME NEW polys \in Draws(l, t)
      PROVE  /\ swapped[swapped[polys]] = polys
             /\ \A k \in 1 .. m : ShareOut(other, t, total, swapped[polys])[seen[k]]
                                     = ShareOut(s, t, total, polys)[seen[k]]
  <2>1. swapped[polys] = Swap(polys) /\ swapped[swapped[polys]] = polys
    BY <1>6
  <2>2. /\ ShareOut(other, t, total, Swap(polys))
              = [i \in 1 .. total |-> ShareAt(other, t, Swap(polys), i)]
        /\ ShareOut(s, t, total, polys) = [i \in 1 .. total |-> ShareAt(s, t, polys, i)]
    BY <1>0, <1>1, ShareOutAt
  <2> HIDE DEF swapped
  <2> QED
    BY <1>1, <1>6, <2>1, <2>2
<1> HIDE DEF swapped
<1> QED
  BY <1>7, <1>8 DEF SameShares, t, m, l

\* Whoever has brought together fewer shares than are needed could have got them
\* of any secret of that length.
NothingTold ==
    \A other \in Seq(Byte) :
        shares # << >> /\ Len(other) = Len(secret) /\ Len(collected) < shares[1].threshold =>
            \E polys \in Draws(Len(secret), shares[1].threshold) :
                LET made == ShareOut(other, shares[1].threshold, Len(shares), polys)
                IN  \A k \in 1 .. Len(collected) : made[collected[k]] = shares[collected[k]]

\* It stays so while shares are collected, whatever was drawn.
THEOREM CollectorsLearnNothing == ShamirSpec => []NothingTold
<1>1. ASSUME Shared PROVE NothingTold
  <2> SUFFICES ASSUME NEW other \in Seq(Byte), shares # << >>, Len(other) = Len(secret),
                      Len(collected) < shares[1].threshold
               PROVE  \E polys \in Draws(Len(secret), shares[1].threshold) :
                         \A k \in 1 .. Len(collected) :
                            ShareOut(other, shares[1].threshold, Len(shares), polys)[collected[k]]
                               = shares[collected[k]]
    BY DEF NothingTold
  <2>1. PICK t, total \in 1 .. 254 :
           \E drawn \in [1 .. Len(secret) -> [1 .. t - 1 -> Drawn]] : SharedOut(t, total, drawn)
    BY <1>1 DEF Shared
  <2>2. PICK drawn \in [1 .. Len(secret) -> [1 .. t - 1 -> Drawn]] : SharedOut(t, total, drawn)
    BY <2>1
  <2>3. /\ shares[1].threshold = t /\ Len(shares) = total
        /\ drawn \in Draws(Len(secret), t)
    BY <2>2, SharedOutFacts DEF Draws, ByteDraws
  <2>4. /\ secret \in Seq(Byte) /\ total \in t .. 254 /\ collected \in Seq(1 .. total)
        /\ shares = ShareOut(secret, t, total, drawn)
    BY <2>2 DEF SharedOut
  <2>5. SameShares(secret, other, t, total, collected)
    <3>1. TooFewSeen(secret, other, t, total, collected)
      BY <2>3, <2>4 DEF TooFewSeen
    <3> QED
      BY <3>1, TooFewTellNothing
  <2>6. PICK swapped \in [Draws(Len(secret), t) -> Draws(Len(secret), t)] :
           \A polys \in Draws(Len(secret), t) :
              /\ swapped[swapped[polys]] = polys
              /\ \A k \in 1 .. Len(collected) :
                    ShareOut(other, t, total, swapped[polys])[collected[k]]
                       = ShareOut(secret, t, total, polys)[collected[k]]
    BY <2>5 DEF SameShares
  <2>7. swapped[drawn] \in Draws(Len(secret), t)
    BY <2>3, <2>6
  <2>8. \A k \in 1 .. Len(collected) :
           ShareOut(other, t, total, swapped[drawn])[collected[k]] = shares[collected[k]]
    BY <2>3, <2>4, <2>6
  <2> QED
    BY <2>3, <2>7, <2>8
<1>2. ShamirSpec => []ShamirInvariant
  BY ShamirInvariantInit, ShamirInvariantStep, PTL DEF ShamirSpec
<1>3. ShamirInvariant => NothingTold
  BY <1>1 DEF ShamirInvariant
<1> QED
  BY <1>2, <1>3, PTL
=============================================================================
