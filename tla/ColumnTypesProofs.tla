-------------------------- MODULE ColumnTypesProofs --------------------------
(* Theorems about ColumnTypes.tla, for integers of any widths, floats and    *)
(* doubles of any number of digits, and any fraction of a millisecond that   *)
(* a Time counts.                                                            *)
EXTENDS ColumnTypes, TLAPS, WellFoundedInduction

-----------------------------------------------------------------------------
(* Powers of two.  The library's induction theorems have an operator as      *)
(* parameter, which the provers cannot instantiate; that every set of        *)
(* natural numbers has a least one takes no operator.                        *)

\* A set of natural numbers has a least one.
LEMMA LeastNat ==
  ASSUME NEW T \in SUBSET Nat, T # {}
  PROVE  \E x \in T : \A y \in T : x <= y
<1> DEFINE R == {ss \in Nat \X Nat : ss[1] < ss[2]}
<1>1. IsWellFoundedOn(R, Nat)
  BY NatLessThanWellFounded DEF OpToRel
<1>2. \A x, y \in Nat : x < y => <<x, y>> \in R
  OBVIOUS
<1> HIDE DEF R
<1>3. PICK x \in T : \A y \in T : ~ (<<y, x>> \in R)
  BY <1>1, WFMin, Zenon
<1>4. \A y \in T : ~(y < x)
  BY <1>2, <1>3
<1> QED
  BY <1>4

\* Induction, for a property that is given as a set.
LEMMA NatSetInduction ==
  ASSUME NEW S, 0 \in S, \A n \in Nat : n \in S => n + 1 \in S
  PROVE  Nat \subseteq S
<1> DEFINE T == Nat \ S
<1> SUFFICES ASSUME T # {} PROVE FALSE
  OBVIOUS
<1>1. PICK x \in T : \A y \in T : x <= y
  BY LeastNat
<1>2. x # 0 /\ x - 1 \in Nat /\ x - 1 \notin T
  BY <1>1
<1> QED
  BY <1>1, <1>2

\* f doubles from 1 on, up to n.
Doubles(f, n) ==
  /\ f \in [0..n -> Nat]
  /\ f[0] = 1
  /\ \A k \in 0..(n - 1) : f[k + 1] = 2 * f[k]

LEMMA DoublesExists == \A n \in Nat : \E f : Doubles(f, n)
<1> DEFINE S == {n \in Nat : \E f : Doubles(f, n)}
<1>1. 0 \in S
  <2>1. Doubles([k \in 0..0 |-> 1], 0)
    BY DEF Doubles
  <2> QED
    BY <2>1
<1>2. ASSUME NEW n \in Nat, n \in S
      PROVE  n + 1 \in S
  <2>1. PICK f : Doubles(f, n)
    BY <1>2
  <2> DEFINE g == [k \in 0..(n + 1) |-> IF k = n + 1 THEN 2 * f[n] ELSE f[k]]
  <2>2. Doubles(g, n + 1)
    BY <2>1 DEF Doubles
  <2> QED
    BY <2>2
<1> HIDE DEF S
<1>3. Nat \subseteq S
  BY <1>1, <1>2, NatSetInduction
<1> QED
  BY <1>3 DEF S

LEMMA DoublesUnique ==
  ASSUME NEW m \in Nat, NEW n \in Nat, m <= n, NEW f, NEW g, Doubles(f, m), Doubles(g, n)
  PROVE  \A k \in 0..m : f[k] = g[k]
<1> DEFINE S == {k \in Nat : k <= m => f[k] = g[k]}
<1>1. 0 \in S
  BY DEF Doubles
<1>2. ASSUME NEW k \in Nat, k \in S
      PROVE  k + 1 \in S
  BY <1>2 DEF Doubles
<1> HIDE DEF S
<1>3. Nat \subseteq S
  BY <1>1, <1>2, NatSetInduction
<1> QED
  BY <1>3 DEF S

\* The function that Two chooses exists.
LEMMA TwoDef == Two = [n \in Nat |-> IF n = 0 THEN 1 ELSE 2 * Two[n - 1]]
<1> DEFINE F(n) == CHOOSE f : Doubles(f, n)
           G == [n \in Nat |-> F(n)[n]]
<1>1. \A n \in Nat : Doubles(F(n), n)
  BY DoublesExists
<1> HIDE DEF F
<1>2. \A n \in Nat : n # 0 => F(n)[n] = 2 * F(n - 1)[n - 1]
  <2> SUFFICES ASSUME NEW n \in Nat, n # 0
               PROVE  F(n)[n] = 2 * F(n - 1)[n - 1]
    OBVIOUS
  <2>1. n - 1 \in Nat /\ Doubles(F(n), n) /\ Doubles(F(n - 1), n - 1)
    BY <1>1
  <2>2. F(n - 1)[n - 1] = F(n)[n - 1]
    BY <2>1, DoublesUnique
  <2>3. F(n)[(n - 1) + 1] = 2 * F(n)[n - 1]
    BY <2>1 DEF Doubles
  <2> QED
    BY <2>2, <2>3
<1>3. F(0)[0] = 1
  BY <1>1 DEF Doubles
<1>4. G = [n \in Nat |-> IF n = 0 THEN 1 ELSE 2 * G[n - 1]]
  BY <1>2, <1>3
<1> HIDE DEF G
<1>5. \E f : f = [n \in Nat |-> IF n = 0 THEN 1 ELSE 2 * f[n - 1]]
  BY <1>4
<1> QED
  BY <1>5 DEF Two

LEMMA TwoFacts ==
  /\ Two[0] = 1
  /\ \A n \in Nat : Two[n] \in Nat \ {0} /\ Two[n + 1] = 2 * Two[n]
<1>1. Two[0] = 1 /\ \A n \in Nat : Two[n + 1] = 2 * Two[n]
  BY TwoDef
<1> DEFINE S == {n \in Nat : Two[n] \in Nat \ {0}}
<1>2. 0 \in S /\ \A n \in Nat : n \in S => n + 1 \in S
  BY <1>1
<1> HIDE DEF S
<1>3. Nat \subseteq S
  BY <1>2, NatSetInduction
<1> QED
  BY <1>1, <1>3 DEF S

LEMMA TwoGrows == \A n \in Nat : n < Two[n]
<1> DEFINE S == {n \in Nat : n < Two[n]}
<1>1. 0 \in S /\ \A n \in Nat : n \in S => n + 1 \in S
  BY TwoFacts
<1> HIDE DEF S
<1>2. Nat \subseteq S
  BY <1>1, NatSetInduction
<1> QED
  BY <1>2 DEF S

LEMMA TwoPlus == \A m, n \in Nat : Two[m + n] = Two[m] * Two[n]
<1> SUFFICES ASSUME NEW m \in Nat
             PROVE  \A n \in Nat : Two[m + n] = Two[m] * Two[n]
  OBVIOUS
<1> DEFINE S == {n \in Nat : Two[m + n] = Two[m] * Two[n]}
<1>1. 0 \in S
  BY TwoFacts
<1>2. ASSUME NEW n \in Nat, n \in S
      PROVE  n + 1 \in S
  <2>1. Two[m + (n + 1)] = 2 * Two[m + n] /\ Two[n + 1] = 2 * Two[n]
    BY TwoFacts, m + n \in Nat, m + (n + 1) = (m + n) + 1
  <2>2. 2 * (Two[m] * Two[n]) = Two[m] * (2 * Two[n])
    BY TwoFacts
  <2> QED
    BY <1>2, <2>1, <2>2
<1> HIDE DEF S
<1>3. Nat \subseteq S
  BY <1>1, <1>2, NatSetInduction
<1> QED
  BY <1>3 DEF S

LEMMA TwoMonotone ==
  ASSUME NEW m \in Nat, NEW n \in Nat, m <= n
  PROVE  Two[m] <= Two[n]
<1>1. PICK k \in Nat : n = m + k
  <2>1. n - m \in Nat /\ n = m + (n - m)
    OBVIOUS
  <2> QED
    BY <2>1
<1>2. Two[n] = Two[m] * Two[k] /\ Two[m] \in Nat /\ Two[k] \in Nat \ {0}
  BY <1>1, TwoPlus, TwoFacts
<1> QED
  BY <1>2

LEMMA TwoPrevious ==
  ASSUME NEW n \in Nat, n # 0
  PROVE  n - 1 \in Nat /\ Two[n - 1] \in Nat \ {0} /\ Two[n] = 2 * Two[n - 1]
<1>1. n - 1 \in Nat /\ n = (n - 1) + 1
  OBVIOUS
<1> QED
  BY <1>1, TwoFacts

-----------------------------------------------------------------------------
(* Rounding.                                                                 *)

\* Doublings counts up to the least number that will do.
LEMMA DoublingsFacts ==
  ASSUME NEW a \in Nat \ {0}, NEW b \in Nat
  PROVE  /\ Doublings(a, b) \in Nat
         /\ b <= a * Two[Doublings(a, b)]
         /\ Doublings(a, b) = 0 \/ a * Two[Doublings(a, b) - 1] < b
<1> DEFINE Enough(i) == b <= a * Two[i]
           T == {i \in Nat : Enough(i)}
           From == CHOOSE f : f = [i \in Nat |-> IF b <= a * Two[i] THEN i ELSE f[i + 1]]
<1>1. b \in T
  <2>1. Two[b] \in Nat /\ b < Two[b]
    BY TwoGrows, TwoFacts
  <2> QED
    BY <2>1
<1>2. PICK least \in T : \A i \in T : least <= i
  <2> HIDE DEF T
  <2> QED
    BY <1>1, LeastNat, T \in SUBSET Nat DEF T
<1>3. \A i \in Nat : i >= least <=> Enough(i)
  <2>1. ASSUME NEW i \in Nat, i >= least
        PROVE  Enough(i)
    <3>1. Two[least] <= Two[i] /\ Two[least] \in Nat /\ Two[i] \in Nat
      BY <2>1, TwoMonotone, TwoFacts
    <3>2. a * Two[least] <= a * Two[i]
      BY <3>1
    <3>3. a * Two[least] \in Nat /\ a * Two[i] \in Nat /\ b <= a * Two[least]
      BY <1>2, <3>1
    <3> QED
      BY <3>2, <3>3
  <2> QED
    BY <1>2, <2>1
<1>4. From = [i \in Nat |-> IF b <= a * Two[i] THEN i ELSE From[i + 1]]
  <2> DEFINE G == [i \in Nat |-> IF i >= least THEN i ELSE least]
  <2>1. \A i \in Nat : G[i] = IF Enough(i) THEN i ELSE G[i + 1]
    BY <1>2, <1>3
  <2>2. G = [i \in Nat |-> IF b <= a * Two[i] THEN i ELSE G[i + 1]]
    BY <2>1
  <2> HIDE DEF G
  <2>3. \E f : f = [i \in Nat |-> IF b <= a * Two[i] THEN i ELSE f[i + 1]]
    BY <2>2
  <2> QED
    BY <2>3
<1>5. Doublings(a, b) = From[0]
  BY DEF Doublings
<1> HIDE DEF From, Enough
<1>6. From[0] = least
  <2> DEFINE S == {k \in Nat : k <= least => From[least - k] = least}
  <2>1. 0 \in S
    BY <1>2, <1>3, <1>4 DEF Enough
  <2>2. ASSUME NEW k \in Nat, k \in S
        PROVE  k + 1 \in S
    <3> SUFFICES ASSUME k + 1 <= least
                 PROVE  From[least - (k + 1)] = least
      OBVIOUS
    <3>1. least - (k + 1) \in Nat /\ (least - (k + 1)) + 1 = least - k
      OBVIOUS
    <3>2. ~Enough(least - (k + 1))
      BY <1>3, <3>1
    <3> QED
      BY <1>4, <2>2, <3>1, <3>2 DEF Enough
  <2> HIDE DEF S
  <2>3. Nat \subseteq S
    BY <2>1, <2>2, NatSetInduction
  <2> QED
    BY <2>3 DEF S
<1>7. ASSUME least # 0
      PROVE  ~(b <= a * Two[least - 1]) /\ Two[least - 1] \in Nat
  <2>1. least - 1 \in Nat
    BY <1>2, <1>7
  <2> QED
    BY <1>2, <1>3, <2>1, TwoFacts DEF Enough
<1> QED
  BY <1>2, <1>5, <1>6, <1>7 DEF Enough

LEMMA DivisionFacts ==
  ASSUME NEW a \in Nat, NEW b \in Nat \ {0}
  PROVE  a \div b \in Nat /\ a % b \in 0..(b - 1) /\ a = b * (a \div b) + (a % b)
OBVIOUS

\* What q multiples of b are, for the numbers around a.
LEMMA MultiplesFacts ==
  ASSUME NEW b \in Nat \ {0}, NEW q \in Int, NEW k \in Int
  PROVE  /\ b * q \in Int /\ b * k \in Int
         /\ k <= q => b * k <= b * q
         /\ k > q => b * k >= b * q + b
<1>1. ASSUME k <= q
      PROVE  b * k <= b * q
  BY <1>1
<1>2. ASSUME k > q
      PROVE  b * k >= b * q + b
  <2>1. b * k >= b * (q + 1)
    BY <1>2
  <2>2. b * (q + 1) = b * q + b
    OBVIOUS
  <2> QED
    BY <2>1, <2>2
<1> QED
  BY <1>1, <1>2

\* Division rounds to the nearest multiple.
LEMMA DivideFacts ==
  ASSUME NEW a \in Nat, NEW b \in Nat \ {0}
  PROVE  /\ Divide(a, b) \in Nat
         /\ 2 * Magnitude(Divide(a, b) * b - a) <= b
         /\ \A k \in Int : Magnitude(Divide(a, b) * b - a) <= Magnitude(k * b - a)
<1> DEFINE q == a \div b
           rest == a % b
<1>1. q \in Nat /\ rest \in 0..(b - 1) /\ a = b * q + rest
  BY DivisionFacts
<1>2. \/ Divide(a, b) = q /\ 2 * rest <= b
      \/ Divide(a, b) = q + 1 /\ 2 * rest >= b
  BY <1>1 DEF Divide
<1> HIDE DEF q, rest
<1>3. b * (q + 1) = b * q + b /\ b * q \in Nat
  BY <1>1
<1>4. ASSUME NEW k \in Int
      PROVE  k * b - a <= -rest \/ k * b - a >= b - rest
  <2>1. b * k \in Int /\ (k <= q => b * k <= b * q) /\ (k > q => b * k >= b * q + b)
    BY <1>1, MultiplesFacts
  <2>2. k * b = b * k
    OBVIOUS
  <2> QED
    BY <1>1, <1>3, <2>1, <2>2
<1>5. CASE Divide(a, b) = q /\ 2 * rest <= b
  <2>1. Divide(a, b) * b = b * q
    BY <1>1, <1>5
  <2>2. Divide(a, b) * b - a = -rest
    BY <1>1, <1>3, <2>1
  <2> QED
    BY <1>1, <1>4, <1>5, <2>2 DEF Magnitude, Signed
<1>6. CASE Divide(a, b) = q + 1 /\ 2 * rest >= b
  <2>1. Divide(a, b) * b = b * q + b
    BY <1>1, <1>3, <1>6
  <2>2. Divide(a, b) * b - a = b - rest
    BY <1>1, <1>3, <2>1
  <2>3. Divide(a, b) \in Nat /\ Magnitude(b - rest) = b - rest /\ 2 * (b - rest) <= b
    BY <1>1, <1>6 DEF Magnitude, Signed
  <2>4. ASSUME NEW k \in Int
        PROVE  b - rest <= Magnitude(k * b - a)
    <3>1. k * b \in Int
      OBVIOUS
    <3> QED
      BY <1>1, <1>4, <1>6, <3>1 DEF Magnitude, Signed
  <2> QED
    BY <2>2, <2>3, <2>4
<1> QED
  BY <1>2, <1>5, <1>6

LEMMA DivideExact ==
  ASSUME NEW k \in Nat, NEW b \in Nat \ {0}
  PROVE  Divide(k * b, b) = k
<1> DEFINE q == Divide(k * b, b)
<1>0. k * b \in Nat
  OBVIOUS
<1>1. q \in Nat /\ \A j \in Int : Magnitude(q * b - k * b) <= Magnitude(j * b - k * b)
  BY <1>0, DivideFacts
<1> HIDE DEF q
<1>2. q * b = k * b
  BY <1>0, <1>1, q * b \in Nat DEF Magnitude, Signed
<1>3. q = k
  BY <1>1, <1>2
<1> QED
  BY <1>3 DEF q

\* What is less than k multiples is rounded to k at most.
LEMMA DivideBound ==
  ASSUME NEW a \in Nat, NEW b \in Nat \ {0}, NEW k \in Nat, a <= k * b
  PROVE  Divide(a, b) <= k
<1> DEFINE q == Divide(a, b)
<1>0. k * b \in Nat
  OBVIOUS
<1>1. q \in Nat /\ \A j \in Int : Magnitude(q * b - a) <= Magnitude(j * b - a)
  BY DivideFacts
<1> HIDE DEF q
<1>2. q * b \in Nat /\ q * b <= k * b + (k * b - a)
  BY <1>0, <1>1, q * b \in Nat DEF Magnitude, Signed
<1>3. 2 * Magnitude(q * b - a) <= b
  BY DivideFacts DEF q
<1>4. q * b <= a + b \div 2
  BY <1>2, <1>3 DEF Magnitude, Signed
<1>5. ASSUME q > k
      PROVE  FALSE
  <2>1. b * q >= b * k + b
    BY <1>1, <1>5, MultiplesFacts
  <2>2. b * q = q * b /\ b * k = k * b
    BY <1>1
  <2> QED
    BY <1>1, <1>2, <1>4, <2>1, <2>2
<1> QED
  BY <1>1, <1>5 DEF q

-----------------------------------------------------------------------------
(* Numbers of so many digits.                                                *)

LEMMA ExcessFacts ==
  ASSUME NEW n \in Nat, NEW digits \in Nat
  PROVE  /\ Excess(n, digits) \in Nat
         /\ n < Two[digits] * Two[Excess(n, digits)]
         /\ Excess(n, digits) = 0 \/ Two[digits] * Two[Excess(n, digits) - 1] <= n
<1> DEFINE i == Excess(n, digits)
<1>1. Two[digits] \in Nat \ {0} /\ n + 1 \in Nat
  BY TwoFacts
<1>2. i \in Nat /\ n + 1 <= Two[digits] * Two[i] /\ (i = 0 \/ Two[digits] * Two[i - 1] < n + 1)
  BY <1>1, DoublingsFacts DEF Excess
<1> HIDE DEF i
<1>3. Two[digits] * Two[i] \in Nat /\ (i # 0 => Two[digits] * Two[i - 1] \in Nat)
  BY <1>1, <1>2, TwoFacts, TwoPrevious
<1> QED
  BY <1>2, <1>3 DEF i

\* A number of so many digits and zeros after them.
LEMMA RepresentableMultiple ==
  ASSUME NEW x \in Nat, NEW digits \in Nat, Representable(x, digits)
  PROVE  \E m, j \in Nat : x = m * Two[j] /\ m < Two[digits] /\ j = Excess(x, digits)
<1> DEFINE j == Excess(x, digits)
           m == x \div Two[j]
<1>1. j \in Nat /\ x < Two[digits] * Two[j]
  BY ExcessFacts
<1>2. Two[j] \in Nat \ {0} /\ Two[digits] \in Nat \ {0}
  BY <1>1, TwoFacts
<1>3. m \in Nat /\ x = Two[j] * m + 0
  BY <1>2, DivisionFacts DEF Representable
<1> HIDE DEF j, m
<1>4. Two[j] * m = m * Two[j] /\ m * Two[j] \in Nat
  BY <1>2, <1>3
<1>5. m < Two[digits]
  <2> SUFFICES ASSUME m >= Two[digits] PROVE FALSE
    BY <1>2, <1>3
  <2>1. m * Two[j] >= Two[digits] * Two[j]
    BY <1>2, <1>3
  <2>2. Two[digits] * Two[j] \in Nat
    BY <1>2
  <2> QED
    BY <1>1, <1>3, <1>4, <2>1, <2>2
<1> QED
  BY <1>1, <1>3, <1>4, <1>5 DEF j

LEMMA MultipleRemainder ==
  ASSUME NEW k \in Nat, NEW b \in Nat \ {0}
  PROVE  (k * b) % b = 0 /\ (k * b) \div b = k
<1> DEFINE q == (k * b) \div b
           rest == (k * b) % b
<1>1. k * b \in Nat /\ k * b = b * k
  OBVIOUS
<1>2. q \in Nat /\ rest \in 0..(b - 1) /\ k * b = b * q + rest
  BY <1>1, DivisionFacts
<1> HIDE DEF q, rest
<1>3. (k <= q => b * k <= b * q) /\ (k > q => b * k >= b * q + b)
  BY <1>2, MultiplesFacts
<1>4. (q <= k => b * q <= b * k) /\ (q > k => b * q >= b * k + b)
  BY <1>2, MultiplesFacts
<1>5. b * q \in Nat /\ b * k \in Nat
  BY <1>2
<1>6. k = q /\ rest = 0
  BY <1>1, <1>2, <1>3, <1>4, <1>5
<1> QED
  BY <1>6 DEF q, rest

\* A carry gives one digit too many, and that a zero.
LEMMA RepresentableIntro ==
  ASSUME NEW m \in Nat, NEW j \in Nat, NEW digits \in Nat \ {0}, m <= Two[digits]
  PROVE  Representable(m * Two[j], digits)
<1> DEFINE x == m * Two[j]
           e == Excess(x, digits)
<1>1. Two[j] \in Nat \ {0} /\ Two[digits] \in Nat \ {0} /\ x \in Nat
  BY TwoFacts
<1>2. e \in Nat /\ (e = 0 \/ Two[digits] * Two[e - 1] <= x)
  BY <1>1, ExcessFacts
<1>3. Two[e] \in Nat \ {0}
  BY <1>2, TwoFacts
<1> SUFFICES x % Two[e] = 0
  BY DEF Representable
<1> HIDE DEF e
<1>4. CASE e <= j
  <2>1. PICK k \in Nat : j = e + k
    <3>1. j - e \in Nat /\ j = e + (j - e)
      BY <1>2, <1>4
    <3> QED
      BY <3>1
  <2>2. Two[j] = Two[e] * Two[k] /\ Two[k] \in Nat
    BY <1>2, <2>1, TwoPlus, TwoFacts
  <2>3. x = (m * Two[k]) * Two[e] /\ m * Two[k] \in Nat
    BY <1>3, <2>2
  <2> HIDE DEF x
  <2> QED
    BY <1>3, <2>3, MultipleRemainder
<1>5. CASE e > j
  <2>1. e - 1 \in Nat /\ j <= e - 1 /\ Two[e] = 2 * Two[e - 1] /\ Two[e - 1] \in Nat
    BY <1>2, <1>5, TwoPrevious
  <2>2. Two[j] <= Two[e - 1] /\ Two[digits] * Two[e - 1] <= x
    BY <1>2, <1>5, <2>1, TwoMonotone
  <2>3. x <= Two[digits] * Two[j] /\ Two[digits] * Two[j] <= Two[digits] * Two[e - 1]
    BY <1>1, <2>1, <2>2
  <2> HIDE DEF x
  <2>4. x = Two[digits] * Two[e - 1]
    <3> DEFINE low == Two[digits] * Two[e - 1]
    <3>1. low \in Nat /\ Two[digits] * Two[j] \in Nat
      BY <1>1, <2>1
    <3>2. low <= x /\ x <= low
      BY <1>1, <2>2, <2>3, <3>1
    <3> HIDE DEF low
    <3>3. x = low
      BY <1>1, <3>1, <3>2
    <3> QED
      BY <3>3 DEF low
  <2>5. Two[digits] = 2 * Two[digits - 1] /\ Two[digits - 1] \in Nat
    BY TwoPrevious
  <2>6. x = Two[digits - 1] * Two[e]
    BY <2>1, <2>4, <2>5
  <2> QED
    BY <1>3, <2>5, <2>6, MultipleRemainder
<1> QED
  BY <1>2, <1>4, <1>5

\* Nearest is of so many digits, is as near as any number of so many digits,
\* and is off by half of its last digit at most.
LEMMA NearestFacts ==
  ASSUME NEW n \in Nat, NEW digits \in Nat \ {0}
  PROVE  /\ Nearest(n, digits) \in Nat
         /\ Representable(Nearest(n, digits), digits)
         /\ \A x \in Nat : Representable(x, digits) =>
              Magnitude(Nearest(n, digits) - n) <= Magnitude(x - n)
         /\ Two[digits] * Magnitude(Nearest(n, digits) - n) <= n
<1> DEFINE i == Excess(n, digits)
           T == Two[digits]
           u == Two[i]
           q == Divide(n, u)
<1>1. i \in Nat /\ n < T * u /\ (i = 0 \/ T * Two[i - 1] <= n)
  BY ExcessFacts
<1>2. T \in Nat \ {0} /\ u \in Nat \ {0}
  BY <1>1, TwoFacts
<1>3. /\ q \in Nat
      /\ 2 * Magnitude(q * u - n) <= u
      /\ \A k \in Int : Magnitude(q * u - n) <= Magnitude(k * u - n)
  BY <1>2, DivideFacts
<1>4. Nearest(n, digits) = q * u
  BY DEF Nearest
<1>5. q <= T
  BY <1>1, <1>2, DivideBound
<1> HIDE DEF q, i
<1>6. q * u \in Nat /\ Representable(q * u, digits)
  <2>1. q * u \in Nat
    BY <1>2, <1>3
  <2>2. Representable(q * Two[i], digits)
    BY <1>1, <1>3, <1>5, RepresentableIntro
  <2> QED
    BY <2>1, <2>2
<1> DEFINE d == Magnitude(q * u - n)
<1>7. d \in Nat
  BY <1>6 DEF Magnitude, Signed
<1>8. Nearest(n, digits) \in Nat /\ Representable(Nearest(n, digits), digits)
  BY <1>4, <1>6
<1>9. CASE i = 0
  <2>1. u = 1
    BY <1>9, TwoFacts
  <2>2. n * u = n /\ Magnitude(n * u - n) = 0
    BY <2>1 DEF Magnitude, Signed
  <2>3. d = 0
    BY <1>3, <1>7, <2>2
  <2>4. \A x \in Nat : 0 <= Magnitude(x - n)
    BY DEF Magnitude, Signed
  <2>5. Magnitude(Nearest(n, digits) - n) = 0 /\ T * 0 = 0
    BY <1>2, <1>4, <2>3
  <2> QED
    BY <1>8, <2>4, <2>5
<1>10. CASE i # 0
  <2> DEFINE h == Two[i - 1]
  <2>1. i - 1 \in Nat /\ h \in Nat /\ u = 2 * h /\ T * h <= n
    BY <1>1, <1>10, TwoPrevious
  <2> HIDE DEF u, h, d
  <2>2. T * d <= n
    <3>1. d <= h
      BY <1>3, <1>7, <2>1 DEF d
    <3>2. T * d <= T * h
      BY <1>2, <1>7, <2>1, <3>1
    <3> QED
      BY <1>2, <1>7, <2>1, <3>2
  <2>3. ASSUME NEW x \in Nat, Representable(x, digits)
        PROVE  d <= Magnitude(x - n)
    <3>1. PICK m, j \in Nat : x = m * Two[j] /\ m < T /\ j = Excess(x, digits)
      BY <2>3, RepresentableMultiple
    <3>2. CASE j >= i
      <4>1. PICK k \in Nat : j = i + k
        <5>1. j - i \in Nat /\ j = i + (j - i)
          BY <1>1, <3>1, <3>2
        <5> QED
          BY <5>1
      <4>2. Two[j] = u * Two[k] /\ Two[k] \in Nat
        BY <1>1, <4>1, TwoPlus, TwoFacts DEF u
      <4>3. x = (m * Two[k]) * u /\ m * Two[k] \in Int
        BY <1>2, <3>1, <4>2
      <4> QED
        BY <1>3, <4>3 DEF d
    <3>3. CASE j < i
      <4>1. j <= i - 1 /\ Two[j] <= h /\ Two[j] \in Nat
        BY <1>1, <2>1, <3>1, <3>3, TwoMonotone, TwoFacts DEF h
      <4>2. m * Two[j] <= T * Two[j] /\ T * Two[j] <= T * h
        BY <1>2, <2>1, <3>1, <4>1
      <4>3. x <= T * h
        BY <1>2, <2>1, <3>1, <4>1, <4>2
      <4> DEFINE p == Two[digits - 1]
      <4>4. p \in Nat /\ T = 2 * p
        BY TwoPrevious
      <4>5. p * u = T * h
        BY <2>1, <4>4
      <4>6. d <= Magnitude(T * h - n)
        BY <1>3, <4>4, <4>5 DEF d
      <4>7. T * h \in Nat
        BY <1>2, <2>1
      <4> QED
        BY <1>7, <2>1, <4>3, <4>6, <4>7 DEF Magnitude, Signed
    <3> QED
      BY <1>1, <3>1, <3>2, <3>3
  <2>4. d = Magnitude(Nearest(n, digits) - n)
    BY <1>4 DEF d
  <2> QED
    BY <1>8, <2>2, <2>3, <2>4
<1> QED
  BY <1>9, <1>10

\* A number of so many digits is not rounded.
LEMMA NearestExact ==
  ASSUME NEW n \in Nat, NEW digits \in Nat \ {0}, Representable(n, digits)
  PROVE  Nearest(n, digits) = n
<1>1. /\ Nearest(n, digits) \in Nat
      /\ Magnitude(Nearest(n, digits) - n) <= Magnitude(n - n)
  BY NearestFacts
<1> QED
  BY <1>1 DEF Magnitude, Signed

\* The quotient of two numbers, as m * 2^(over - under): rounded by no more
\* than its own part of 2^digits, and not at all when it is an integer of so
\* many digits.
Rounded(a, b, digits, m, over, under) ==
  /\ Ratio(a, b, digits) = [m |-> m, e |-> over - under]
  /\ Two[digits] * Magnitude(m * (b * Two[over]) - a * Two[under]) <= a * Two[under]
  /\ \A k \in Nat : a = k * b /\ k < Two[digits] => over = 0 /\ m = k * Two[under]

LEMMA RatioFacts ==
  ASSUME NEW a \in Nat, NEW b \in Nat \ {0}, NEW digits \in Nat \ {0}
  PROVE  \E m, over, under \in Nat : Rounded(a, b, digits, m, over, under)
<1> DEFINE T == Two[digits]
           H == Two[digits - 1]
           over == Excess(a \div b, digits)
           under == IF a = 0 THEN 0 ELSE Doublings(a, H * b)
           A == a * Two[under]
           B == b * Two[over]
           m == Divide(A, B)
<1>1. T \in Nat \ {0} /\ H \in Nat \ {0} /\ T = 2 * H
  BY TwoPrevious, TwoFacts
<1>2. a \div b \in Nat /\ b * (a \div b) <= a
  BY DivisionFacts
<1>3. /\ over \in Nat
      /\ a \div b < T * Two[over]
      /\ over = 0 \/ T * Two[over - 1] <= a \div b
  BY <1>2, ExcessFacts
<1>4. H * b \in Nat
  BY <1>1
<1>5. /\ under \in Nat
      /\ a # 0 => /\ H * b <= a * Two[under]
                  /\ under = 0 \/ a * Two[under - 1] < H * b
  BY <1>4, DoublingsFacts
<1>6. Ratio(a, b, digits) = [m |-> m, e |-> over - under]
  BY DEF Ratio
<1> HIDE DEF T, H, over, under
<1>7. Two[over] \in Nat \ {0} /\ Two[under] \in Nat \ {0}
  BY <1>3, <1>5, TwoFacts
<1>8. A \in Nat /\ B \in Nat \ {0}
  BY <1>7
<1> HIDE DEF A, B
<1>9. m \in Nat /\ 2 * Magnitude(m * B - A) <= B
  BY <1>8, DivideFacts
<1>10. T * Magnitude(m * B - A) <= A
  <2>1. CASE a = 0
    <3>1. A = 0
      BY <1>7, <2>1 DEF A
    <3>2. 0 * B = 0 /\ m = 0
      BY <1>8, <3>1, DivideExact
    <3>3. Magnitude(m * B - A) = 0
      BY <3>1, <3>2 DEF Magnitude, Signed
    <3> QED
      BY <1>1, <3>1, <3>3
  <2>2. CASE a # 0
    <3>1. H * B <= A
      <4>1. CASE over = 0
        <5>1. B = b
          BY <4>1, TwoFacts DEF B
        <5> QED
          BY <1>5, <2>2, <5>1 DEF A
      <4>2. CASE over # 0
        <5> DEFINE h == Two[over - 1]
        <5>1. h \in Nat /\ Two[over] = 2 * h
          BY <1>3, <4>2, TwoPrevious
        <5>2. T * h <= a \div b
          BY <1>3, <4>2
        <5> HIDE DEF h
        <5>3. b * (T * h) <= b * (a \div b)
          BY <1>1, <1>2, <5>1, <5>2
        <5>4. H * B = b * (T * h)
          BY <1>1, <5>1 DEF B
        <5>5. b * (T * h) \in Nat /\ b * (a \div b) \in Nat
          BY <1>1, <1>2, <5>1
        <5>6. a <= A
          BY <1>7 DEF A
        <5> QED
          BY <1>2, <1>8, <5>3, <5>4, <5>5, <5>6
      <4> QED
        BY <4>1, <4>2
    <3> DEFINE d == Magnitude(m * B - A)
    <3>2. d \in Nat /\ 2 * d <= B
      <4>1. m * B \in Nat
        BY <1>8, <1>9
      <4> QED
        BY <1>8, <1>9, <4>1 DEF Magnitude, Signed
    <3> HIDE DEF d
    <3>3. H * (2 * d) <= H * B /\ H * B \in Nat /\ H * (2 * d) \in Nat
      BY <1>1, <1>8, <3>2
    <3>4. T * d = H * (2 * d)
      BY <1>1, <3>2
    <3>5. T * d <= A
      BY <1>8, <3>1, <3>3, <3>4
    <3> QED
      BY <3>5 DEF d
  <2> QED
    BY <2>1, <2>2
<1>11. ASSUME NEW k \in Nat, a = k * b, k < T
       PROVE  over = 0 /\ m = k * Two[under]
  <2>1. a \div b = k
    BY <1>11, MultipleRemainder
  <2>2. over = 0
    <3> SUFFICES ASSUME over # 0
                 PROVE  FALSE
      OBVIOUS
    <3>1. over - 1 \in Nat /\ Two[over - 1] \in Nat \ {0}
      BY <1>3, TwoPrevious
    <3>2. T <= T * Two[over - 1] /\ T * Two[over - 1] \in Nat
      BY <1>1, <3>1
    <3> QED
      BY <1>1, <1>3, <1>11, <2>1, <3>2
  <2>3. B = b /\ A = (k * Two[under]) * b /\ k * Two[under] \in Nat
    BY <1>7, <1>11, <2>2, TwoFacts DEF A, B
  <2> QED
    BY <2>2, <2>3, DivideExact
<1> HIDE DEF m
<1> QED
  BY <1>3, <1>5, <1>6, <1>9, <1>10, <1>11 DEF A, B, T, Rounded

\* What is left of a number when its fraction is cut off.
LEMMA TruncateFacts ==
  ASSUME NEW m \in Nat, NEW p \in Nat, NEW q \in Nat
  PROVE  \E n \in Nat :
           /\ Truncate([m |-> m, e |-> p - q]) = n
           /\ n * Two[q] <= m * Two[p]
           /\ m * Two[p] < (n + 1) * Two[q]
<1>1. Two[p] \in Nat \ {0} /\ Two[q] \in Nat \ {0}
  BY TwoFacts
<1>2. CASE p >= q
  <2> DEFINE w == Two[p - q]
             n == m * w
  <2>1. p - q \in Nat /\ p = (p - q) + q /\ ~(p - q < 0)
    BY <1>2
  <2>2. w \in Nat
    BY <2>1, TwoFacts
  <2>3. Two[p] = w * Two[q]
    BY <2>1, TwoPlus
  <2>4. Truncate([m |-> m, e |-> p - q]) = n
    BY <2>1 DEF Truncate
  <2> HIDE DEF w
  <2>5. n \in Nat /\ n * Two[q] = m * Two[p]
    BY <1>1, <2>2, <2>3
  <2> HIDE DEF n
  <2>6. (n + 1) * Two[q] = n * Two[q] + Two[q] /\ n * Two[q] \in Nat
    BY <1>1, <2>5
  <2> QED
    BY <1>1, <2>4, <2>5, <2>6
<1>3. CASE p < q
  <2> DEFINE w == Two[q - p]
             n == m \div w
  <2>1. q - p \in Nat /\ q = (q - p) + p /\ p - q < 0 /\ -(p - q) = q - p
    BY <1>3
  <2>2. w \in Nat \ {0}
    BY <2>1, TwoFacts
  <2>3. Two[q] = w * Two[p]
    BY <2>1, TwoPlus
  <2>4. Truncate([m |-> m, e |-> p - q]) = n
    BY <2>1 DEF Truncate
  <2> HIDE DEF w
  <2>5. n \in Nat /\ w * n <= m /\ m < w * n + w
    BY <2>2, DivisionFacts
  <2> HIDE DEF n
  <2>6. w * n \in Nat /\ w * n + w \in Nat
    BY <2>2, <2>5
  <2>7. (w * n) * Two[p] <= m * Two[p]
    BY <1>1, <2>5, <2>6
  <2>8. m * Two[p] < (w * n + w) * Two[p]
    BY <1>1, <2>5, <2>6
  <2>9. n * Two[q] = (w * n) * Two[p] /\ (n + 1) * Two[q] = (w * n + w) * Two[p]
    BY <1>1, <2>2, <2>3, <2>5
  <2> QED
    BY <2>4, <2>5, <2>7, <2>8, <2>9
<1> QED
  BY <1>2, <1>3

\* Three roundings, each by no more than the T-th part of what it rounds.
LEMMA ThreeRoundings ==
  ASSUME NEW V \in Nat, NEW Z \in Nat, NEW Y \in Nat, NEW Q \in Nat,
         NEW K \in Nat, NEW T \in Nat,
         T >= 4, 4 * V < T * K,
         T * Magnitude(Z - V) <= V,
         T * Magnitude(Y - Z) <= Z,
         T * Magnitude(Q - Y) <= Y
  PROVE  Q - V < K /\ V - Q < K
<1> DEFINE a == Magnitude(Z - V)
           b == Magnitude(Y - Z)
           c == Magnitude(Q - Y)
<1>1. /\ a \in Nat /\ Z - V <= a /\ V - Z <= a
      /\ b \in Nat /\ Y - Z <= b /\ Z - Y <= b
      /\ c \in Nat /\ Q - Y <= c /\ Y - Q <= c
  BY DEF Magnitude, Signed
<1>2. T * a <= V /\ T * b <= Z /\ T * c <= Y
  OBVIOUS
<1> HIDE DEF a, b, c
<1>3. /\ 4 * a <= T * a /\ 4 * b <= T * b
      /\ T * a \in Nat /\ T * b \in Nat /\ T * c \in Nat
  BY <1>1
<1>4. 4 * Z <= 5 * V /\ 4 * Y <= 5 * Z
  BY <1>1, <1>2, <1>3
<1>5. 16 * (Y + Z + V) <= 64 * V
  BY <1>4
<1>6. T * (a + b + c) = T * a + T * b + T * c
  BY <1>1
<1>7. T * (a + b + c) < T * K
  <2>1. T * K \in Nat
    OBVIOUS
  <2> QED
    BY <1>2, <1>3, <1>5, <1>6, <2>1
<1>8. a + b + c < K
  <2> DEFINE s == a + b + c
  <2>1. s \in Nat /\ T * s < T * K
    BY <1>1, <1>7
  <2> HIDE DEF s
  <2>2. ~(s >= K)
    <3>1. s >= K => T * s >= T * K
      BY <2>1
    <3>2. T * s \in Nat /\ T * K \in Nat
      BY <2>1
    <3> QED
      BY <2>1, <3>1, <3>2
  <2> QED
    BY <2>1, <2>2 DEF s
<1> QED
  BY <1>1, <1>8

\* n milliseconds are at most one from the time's own, and those of a
\* representable whole second.
Milliseconds(t, n) ==
  LET M == t \div Parts IN
  4 * (M + 1) <= Two[DoubleDigits] =>
    /\ n <= M + 1 /\ M <= n + 1
    /\ t % (1000 * Parts) = 0 /\ Representable(t, DoubleDigits) => n = M

\* So are those of a Time after to_f and the product with 1000.
LEMMA MillisecondsFacts ==
  ASSUME NEW t \in Nat
  PROVE  \E n \in Nat :
           Truncate(Multiply(to_f(t), 1000, DoubleDigits)) = n /\ Milliseconds(t, n)
<1> DEFINE T == Two[DoubleDigits]
           P == Parts
           b == 1000 * P
           N == Nearest(t, DoubleDigits)
           M == t \div P
<1>1. DoubleDigits \in Nat \ {0} /\ P \in Nat \ {0} /\ b \in Nat \ {0} /\ T \in Nat \ {0}
  BY ColumnTypesAssumption, TwoFacts
<1>2. N \in Nat /\ T * Magnitude(N - t) <= t
  BY <1>1, NearestFacts
<1> HIDE DEF T, P, b, N
<1>3. M \in Nat /\ P * M <= t /\ t < P * M + P
  <2>1. M \in Nat /\ t % P \in 0..(P - 1) /\ t = P * M + (t % P)
    BY <1>1, DivisionFacts
  <2> HIDE DEF M
  <2>2. P * M \in Nat
    BY <1>1, <2>1
  <2> QED
    BY <1>1, <2>1, <2>2
<1> HIDE DEF M
<1>4. PICK m, over, under \in Nat : Rounded(N, b, DoubleDigits, m, over, under)
  BY <1>1, <1>2, RatioFacts
<1> DEFINE G == Two[over]
           W == Two[under]
           mm == m * 1000
           i == Excess(mm, DoubleDigits)
           m2 == Divide(mm, Two[i])
           R == m2 * Two[i]
<1>5. G \in Nat \ {0} /\ W \in Nat \ {0}
  BY TwoFacts
<1>6. mm \in Nat
  OBVIOUS
<1> HIDE DEF mm, R, m2, i
<1>7. i \in Nat /\ Two[i] \in Nat \ {0}
  BY <1>1, <1>6, ExcessFacts, TwoFacts DEF i
<1>8. m2 \in Nat
  BY <1>6, <1>7, DivideFacts DEF m2
<1>9. R = Nearest(mm, DoubleDigits)
  BY DEF Nearest, R, m2, i
<1>10. T * Magnitude(R - mm) <= mm /\ R \in Nat
  BY <1>1, <1>6, <1>9, NearestFacts DEF T
<1>11. Multiply(to_f(t), 1000, DoubleDigits) = [m |-> m2, e |-> (i + over) - under]
  <2>1. to_f(t) = [m |-> m, e |-> over - under]
    BY <1>4 DEF to_f, N, b, P, Rounded
  <2>2. (over - under) + i = (i + over) - under
    BY <1>7
  <2> QED
    BY <2>1, <2>2 DEF Multiply, mm, m2, i
<1>12. i + over \in Nat /\ m2 * Two[i + over] = R * G
  <2>1. Two[i + over] = Two[i] * G
    BY <1>7, TwoPlus
  <2> QED
    BY <1>5, <1>7, <1>8, <2>1 DEF R
<1>13. PICK n \in Nat :
         /\ Truncate([m |-> m2, e |-> (i + over) - under]) = n
         /\ n * W <= R * G
         /\ R * G < (n + 1) * W
  BY <1>8, <1>12, TruncateFacts
<1> HIDE DEF G, W
<1> SUFFICES ASSUME 4 * (M + 1) <= T
             PROVE  /\ n <= M + 1 /\ M <= n + 1
                    /\ t % b = 0 /\ Representable(t, DoubleDigits) => n = M
  BY <1>11, <1>13 DEF M, T, P, b, Milliseconds
<1>14. n <= M + 1 /\ M <= n + 1
  <2> DEFINE V == t * W
             Z == N * W
             Y == m * (b * G)
             Q == (R * G) * P
             K == P * W
  <2>0. b \in Nat /\ b = 1000 * P
    BY <1>1 DEF b
  <2>1. /\ V \in Nat /\ Z \in Nat /\ Y \in Nat /\ Q \in Nat /\ K \in Nat
        /\ T >= 4
    BY <1>1, <1>2, <1>3, <1>5, <1>10, <2>0
  <2>2. 4 * V < T * K
    <3>1. 4 * t < 4 * (P * M + P)
      BY <1>1, <1>3
    <3>2. 4 * (P * M + P) = P * (4 * (M + 1))
      BY <1>1, <1>3
    <3>3. P * (4 * (M + 1)) <= P * T
      BY <1>1, <1>3
    <3>4. 4 * t < P * T
      BY <1>1, <1>3, <3>1, <3>2, <3>3
    <3>5. (4 * t) * W < (P * T) * W
      BY <1>1, <1>5, <3>4
    <3>6. 4 * V = (4 * t) * W /\ T * K = (P * T) * W
      BY <1>1, <1>5
    <3> QED
      BY <3>5, <3>6
  <2>3. T * Magnitude(Z - V) <= V
    <3> DEFINE d == Magnitude(N - t)
    <3>1. d \in Nat /\ T * d <= t /\ (N - t = d \/ t - N = d)
      BY <1>2 DEF Magnitude, Signed
    <3> HIDE DEF d
    <3>2. (T * d) * W <= t * W /\ d * W \in Nat
      BY <1>1, <1>5, <3>1
    <3>3. Z - V = d * W \/ V - Z = d * W
      <4>1. Z - V = (N - t) * W /\ V - Z = (t - N) * W
        BY <1>2, <1>5
      <4> QED
        BY <3>1, <4>1
    <3>4. Magnitude(Z - V) = d * W
      BY <2>1, <3>2, <3>3 DEF Magnitude, Signed
    <3>5. T * (d * W) = (T * d) * W
      BY <1>1, <1>5, <3>1
    <3> QED
      BY <3>2, <3>4, <3>5
  <2>4. T * Magnitude(Y - Z) <= Z
    BY <1>4 DEF G, W, T, Rounded
  <2>5. T * Magnitude(Q - Y) <= Y
    <3> DEFINE d == Magnitude(R - mm)
               GP == G * P
    <3>1. /\ d \in Nat /\ T * d <= mm /\ GP \in Nat
          /\ R - mm = d \/ mm - R = d
      BY <1>1, <1>5, <1>6, <1>10 DEF Magnitude, Signed
    <3>2. Q = R * GP /\ Y = mm * GP
      BY <1>1, <1>5, <1>10, <2>0 DEF mm
    <3> HIDE DEF d, GP
    <3>3. (T * d) * GP <= mm * GP /\ d * GP \in Nat
      BY <1>1, <1>6, <3>1
    <3>4. Q - Y = d * GP \/ Y - Q = d * GP
      <4>1. R * GP - mm * GP = (R - mm) * GP
        BY <1>6, <1>10, <3>1
      <4>2. mm * GP - R * GP = (mm - R) * GP
        BY <1>6, <1>10, <3>1
      <4> QED
        BY <3>1, <3>2, <4>1, <4>2
    <3>5. Magnitude(Q - Y) = d * GP
      BY <2>1, <3>3, <3>4 DEF Magnitude, Signed
    <3>6. T * (d * GP) = (T * d) * GP
      BY <1>1, <3>1
    <3> QED
      BY <3>2, <3>3, <3>5, <3>6
  <2>6. n * K <= Q /\ Q < (n + 1) * K
    <3>1. (n * W) * P <= (R * G) * P /\ (R * G) * P < ((n + 1) * W) * P
      <4>1. n * W \in Nat /\ R * G \in Nat /\ (n + 1) * W \in Nat
        BY <1>5, <1>10
      <4> QED
        BY <1>1, <1>13, <4>1
    <3>2. n * K = (n * W) * P /\ (n + 1) * K = ((n + 1) * W) * P
      BY <1>1, <1>5
    <3> QED
      BY <3>1, <3>2
  <2>7. M * K <= V /\ V < (M + 1) * K
    <3>1. (P * M) * W <= t * W /\ t * W < (P * M + P) * W
      BY <1>1, <1>3, <1>5
    <3>2. M * K = (P * M) * W /\ (M + 1) * K = (P * M + P) * W
      BY <1>1, <1>3, <1>5
    <3> QED
      BY <3>1, <3>2
  <2> HIDE DEF V, Z, Y, Q, K
  <2>8. Q - V < K /\ V - Q < K
    BY <1>1, <2>1, <2>2, <2>3, <2>4, <2>5, ThreeRoundings
  <2>9. K \in Nat \ {0}
    BY <1>1, <1>5 DEF K
  <2>10. n * K < (M + 2) * K /\ M * K < (n + 2) * K
    <3>1. (M + 2) * K = (M + 1) * K + K /\ (n + 2) * K = (n + 1) * K + K
      BY <1>3, <2>9
    <3>2. n * K \in Nat /\ (n + 1) * K \in Nat /\ M * K \in Nat /\ (M + 1) * K \in Nat
      BY <1>3, <2>9
    <3> QED
      BY <2>1, <2>6, <2>7, <2>8, <2>9, <3>1, <3>2
  <2>11. n < M + 2 /\ M < n + 2
    <3>1. K * n = n * K /\ K * (M + 2) = (M + 2) * K /\ K * M = M * K /\ K * (n + 2) = (n + 2) * K
      BY <1>3, <2>9
    <3>2. M + 2 <= n => K * (M + 2) <= K * n
      BY <1>3, <2>9
    <3>3. n + 2 <= M => K * (n + 2) <= K * M
      BY <1>3, <2>9
    <3>4. K * n \in Nat /\ K * M \in Nat /\ K * (M + 2) \in Nat /\ K * (n + 2) \in Nat
      BY <1>3, <2>9
    <3> QED
      BY <1>3, <2>10, <3>1, <3>2, <3>3, <3>4
  <2> QED
    BY <1>3, <2>11
<1>15. ASSUME t % b = 0, Representable(t, DoubleDigits)
       PROVE  n = M
  <2> DEFINE k == t \div b
  <2>1. k \in Nat /\ t = b * k + (t % b)
    BY <1>1, DivisionFacts
  <2> HIDE DEF k
  <2>2. t = k * b
    BY <1>1, <1>15, <2>1
  <2>3. N = t
    BY <1>1, <1>15, NearestExact DEF N
  <2>4. M = 1000 * k
    <3>1. t = (1000 * k) * P /\ 1000 * k \in Nat
      BY <1>1, <2>1, <2>2 DEF b
    <3> QED
      BY <1>1, <3>1, MultipleRemainder DEF M
  <2>5. k < T /\ M < T
    BY <1>1, <2>1, <2>4
  <2>6. over = 0 /\ m = k * W
    BY <1>4, <2>1, <2>2, <2>3, <2>5 DEF W, T, Rounded
  <2>7. G = 1
    BY <2>6, TwoFacts DEF G
  <2>8. mm = M * W
    BY <1>5, <2>1, <2>4, <2>6 DEF mm
  <2>9. Representable(mm, DoubleDigits)
    <3>1. M \in Nat /\ M <= T
      BY <1>1, <2>1, <2>4, <2>5
    <3> QED
      BY <1>1, <2>8, <3>1, RepresentableIntro DEF W, T
  <2>10. R = M * W
    BY <1>1, <1>6, <1>9, <2>8, <2>9, NearestExact
  <2>11. M \in Nat /\ R * G = W * M
    BY <1>5, <1>10, <2>1, <2>4, <2>7, <2>10
  <2>12. W * n <= W * M /\ W * M < W * n + W
    <3>1. n * W = W * n /\ (n + 1) * W = W * n + W
      BY <1>5
    <3> QED
      BY <1>13, <2>11, <3>1
  <2>13. /\ W * M \in Int /\ W * n \in Int
         /\ n > M => W * n >= W * M + W
         /\ M > n => W * M >= W * n + W
    <3>1. M \in Int /\ n \in Int
      BY <2>11
    <3> QED
      BY <1>5, <3>1, MultiplesFacts
  <2> QED
    BY <1>5, <2>11, <2>12, <2>13
<1> QED
  BY <1>14, <1>15

-----------------------------------------------------------------------------
(* What a value becomes, and what a row gives back.                          *)

Texts == {"", "text", "uuid", "UUID", "with NUL"}

\* The values a program has.
Ruby ==
  [class : {"Integer", "Float", "not finite", "Time"}, value : Int]
    \cup [class : {"nil", "true", "false"}, value : {0}]
    \cup [class : {"Symbol"}, value : {0, "unsupported_column_type"}]
    \cup [class : {"String"}, value : Texts]

\* What a column of a type may hold.
NotFinite == [class : {"not finite"}, value : Int]
Held(type) ==
  CASE type \in IntegerTypes -> {Value(type, n) : n \in {m \in Int : Fits(m, Bits[type])}}
    [] type = "float" -> {Value("float", x) : x \in Floats} \cup NotFinite
    [] type = "double" -> {Value("Float", x) : x \in Int} \cup NotFinite
    [] type = "boolean" -> {Value("boolean", b) : b \in BOOLEAN}
    [] type = "text" -> {Value("text", s) : s \in Texts}
    [] type = "uuid" -> {Value("uuid", "uuid")}
    [] type = "timestamp" -> {Value("timestamp", n) : n \in Int}
    [] OTHER -> {Value("other", 0)}
Stored(type) ==
  {Null} \cup (IF type = "text" THEN {} ELSE {Value("short", 0)}) \cup Held(type)

LEMMA WidthFacts ==
  ASSUME NEW type \in IntegerTypes
  PROVE  /\ Two[Bits[type] - 1] \in Nat \ {0}
         /\ Two[Bits[type] - 1] <= Two[Bits["bigint"] - 1]
         /\ Two[Bits[type]] = 2 * Two[Bits[type] - 1]
<1>1. Bits[type] \in Nat /\ Bits[type] # 0 /\ Bits["bigint"] \in Nat /\ Bits["bigint"] # 0
  BY ColumnTypesAssumption DEF IntegerTypes
<1>2. Bits[type] - 1 \in Nat /\ Bits["bigint"] - 1 \in Nat
  BY <1>1
<1>3. Bits[type] - 1 <= Bits["bigint"] - 1
  BY <1>1, ColumnTypesAssumption
<1> QED
  BY <1>1, <1>2, <1>3, TwoPrevious, TwoMonotone

\* An integer that fits is stored as it is: no cast changes it.
LEMMA IntegerFacts ==
  ASSUME NEW type \in IntegerTypes, NEW n \in Int
  PROVE  BindInteger(type, Value("Integer", n)) =
           IF Fits(n, Bits[type]) THEN Value(type, n) ELSE Raise("RangeError")
<1> DEFINE h == Two[Bits[type] - 1]
<1>1. h \in Nat \ {0} /\ h <= Two[Bits["bigint"] - 1] /\ Two[Bits[type]] = 2 * h
  BY WidthFacts
<1>2. Two[Bits["bigint"] - 1] \in Nat
  BY WidthFacts DEF IntegerTypes
<1>3. ASSUME Fits(n, Bits[type])
      PROVE  Fits(n, Bits["bigint"]) /\ Wrap(n, Bits[type]) = n
  <2>1. -h <= n /\ n <= h - 1
    BY <1>3 DEF Fits, Least, Greatest
  <2>2. Fits(n, Bits["bigint"])
    BY <1>1, <1>2, <2>1 DEF Fits, Least, Greatest
  <2>3. Wrap(n, Bits[type]) = ((n + h) % (2 * h)) - h
    BY <1>1 DEF Wrap, Least
  <2> HIDE DEF h
  <2>4. (n + h) % (2 * h) = n + h
    BY <1>1, <2>1
  <2> QED
    BY <1>1, <2>2, <2>3, <2>4
<1> HIDE DEF h
<1>4. NUM2LONG(Value("Integer", n)) =
        IF Fits(n, Bits["bigint"]) THEN Value("long", n) ELSE Raise("RangeError")
  BY DEF NUM2LONG, Value
<1>5. CASE Fits(n, Bits[type])
  BY <1>3, <1>4, <1>5 DEF BindInteger, Value, Raise
<1>6. CASE ~Fits(n, Bits[type]) /\ Fits(n, Bits["bigint"])
  BY <1>4, <1>6 DEF BindInteger, Value, Raise
<1>7. CASE ~Fits(n, Bits["bigint"])
  <2>1. ~Fits(n, Bits[type])
    BY <1>3, <1>7
  <2> QED
    BY <1>4, <1>7, <2>1 DEF BindInteger, Value, Raise
<1> QED
  BY <1>5, <1>6, <1>7

\* A Float is stored as the nearest float, or refused.
LEMMA FloatFacts ==
  ASSUME NEW h \in Int
  PROVE  IF Magnitude(h) > FLT_MAX
         THEN BindFloat(Value("Float", h)) = Raise("RangeError")
         ELSE \E y \in Floats :
                /\ BindFloat(Value("Float", h)) = Value("float", y)
                /\ \A x \in Floats : Magnitude(y - h) <= Magnitude(x - h)
<1> DEFINE v == Value("Float", h)
           a == Magnitude(h)
           near == Nearest(a, FloatDigits)
           y == Signed(h, near)
<1>1. a \in Nat /\ FLT_MAX \in Nat /\ FloatDigits \in Nat \ {0} /\ Representable(FLT_MAX, FloatDigits)
  BY ColumnTypesAssumption DEF Magnitude, Signed
<1>2. NUM2DBL(v) = v /\ v.class = "Float" /\ v.value = h
  BY DEF NUM2DBL, Value
<1>3. CASE a > FLT_MAX
  BY <1>2, <1>3 DEF BindFloat, Value, Raise
<1>4. CASE ~(a > FLT_MAX)
  <2>1. /\ near \in Nat /\ Representable(near, FloatDigits)
        /\ \A x \in Nat : Representable(x, FloatDigits) => Magnitude(near - a) <= Magnitude(x - a)
    BY <1>1, NearestFacts
  <2> HIDE DEF near
  <2>2. Magnitude(near - a) <= Magnitude(FLT_MAX - a)
    BY <1>1, <2>1
  <2> HIDE DEF a
  <2>3. near <= FLT_MAX
    BY <1>1, <1>4, <2>1, <2>2 DEF Magnitude, Signed
  <2>4. y \in Int /\ Magnitude(y) = near
    BY <2>1 DEF Magnitude, Signed
  <2>5. y \in Floats
    <3>1. y \in -FLT_MAX..FLT_MAX
      BY <1>1, <2>1, <2>3 DEF Signed
    <3> QED
      BY <2>1, <2>4, <3>1 DEF Floats
  <2>6. ToFloat(v) = Value("float", y)
    BY <1>2, <2>3, <2>4 DEF ToFloat, a, near
  <2>7. BindFloat(v) = Value("float", y)
    BY <1>2, <1>4, <2>6 DEF BindFloat, a
  <2>8. ASSUME NEW x \in Floats
        PROVE  Magnitude(y - h) <= Magnitude(x - h)
    <3>1. x \in Int /\ Magnitude(x) \in Nat /\ Representable(Magnitude(x), FloatDigits)
      BY <1>1 DEF Floats, Magnitude, Signed
    <3>2. Magnitude(near - a) <= Magnitude(Magnitude(x) - a)
      BY <2>1, <3>1
    <3>3. Magnitude(y - h) = Magnitude(near - a)
      BY <2>1 DEF a, Magnitude, Signed
    <3>4. Magnitude(Magnitude(x) - a) <= Magnitude(x - h)
      BY <3>1 DEF a, Magnitude, Signed
    <3>5. Magnitude(near - a) \in Int /\ Magnitude(Magnitude(x) - a) \in Int /\ Magnitude(x - h) \in Int
      BY <1>1, <2>1, <3>1 DEF Magnitude, Signed
    <3> QED
      BY <3>2, <3>3, <3>4, <3>5
  <2> QED
    BY <1>4, <2>5, <2>7, <2>8 DEF a
<1> QED
  BY <1>3, <1>4

\* A float is itself the nearest one.
LEMMA FloatExact ==
  ASSUME NEW x \in Floats
  PROVE  BindFloat(Value("Float", x)) = Value("float", x)
<1>1. x \in Int /\ ~(Magnitude(x) > FLT_MAX)
  BY ColumnTypesAssumption DEF Floats, Magnitude, Signed
<1>2. PICK y \in Floats :
        /\ BindFloat(Value("Float", x)) = Value("float", y)
        /\ Magnitude(y - x) <= Magnitude(x - x)
  BY <1>1, FloatFacts
<1>3. y \in Int
  BY ColumnTypesAssumption DEF Floats
<1>4. y = x
  BY <1>1, <1>2, <1>3 DEF Magnitude, Signed
<1> QED
  BY <1>2, <1>4

LEMMA BindIntegerFacts ==
  ASSUME NEW type \in IntegerTypes, NEW v \in Ruby
  PROVE  \/ BindInteger(type, v).class = "raise"
         \/ \E n \in Int : Fits(n, Bits[type]) /\ BindInteger(type, v) = Value(type, n)
<1>1. CASE v.class \in {"Integer", "Float"}
  <2> DEFINE n == IF v.class = "Float" THEN Quotient(v.value, 2) ELSE v.value
  <2>1. n \in Int
    <3>1. v.value \in Int
      BY <1>1 DEF Ruby
    <3>2. Quotient(v.value, 2) \in Int
      BY <3>1 DEF Quotient
    <3> QED
      BY <3>1, <3>2
  <2>2. NUM2LONG(v) = NUM2LONG(Value("Integer", n))
    BY <1>1 DEF NUM2LONG, Value
  <2> HIDE DEF n
  <2>3. BindInteger(type, v) = BindInteger(type, Value("Integer", n))
    BY <2>2 DEF BindInteger
  <2> QED
    BY <2>1, <2>3, IntegerFacts DEF Raise, Value
<1>2. CASE v.class \notin {"Integer", "Float"}
  <2>1. NUM2LONG(v).class = "raise" /\ NUM2LONG(v) = Raise(NUM2LONG(v).value)
    BY <1>2 DEF NUM2LONG, Raise, Value
  <2> QED
    BY <2>1 DEF BindInteger
<1> QED
  BY <1>1, <1>2

LEMMA BindDoubleFacts ==
  ASSUME NEW v \in Ruby
  PROVE  \/ NUM2DBL(v).class = "raise"
         \/ NUM2DBL(v) \in NotFinite
         \/ \E h \in Int : NUM2DBL(v) = Value("Float", h)
<1>1. CASE v.class = "Integer"
  <2> DEFINE near == Nearest(2 * Magnitude(v.value), DoubleDigits)
  <2>1. v.value \in Int /\ DoubleDigits \in Nat \ {0}
    BY <1>1, ColumnTypesAssumption DEF Ruby
  <2>2. 2 * Magnitude(v.value) \in Nat
    BY <2>1 DEF Magnitude, Signed
  <2>3. near \in Nat
    BY <2>1, <2>2, NearestFacts
  <2>4. NUM2DBL(v) = Value("Float", Signed(v.value, near))
    BY <1>1 DEF NUM2DBL
  <2> HIDE DEF near
  <2>5. Signed(v.value, near) \in Int
    BY <2>1, <2>3 DEF Signed
  <2> QED
    BY <2>4, <2>5
<1>2. CASE v.class = "Float"
  <2>1. v.value \in Int /\ v = Value("Float", v.value)
    BY <1>2 DEF Ruby, Value
  <2> QED
    BY <1>2, <2>1 DEF NUM2DBL
<1>3. CASE v.class = "not finite"
  BY <1>3 DEF NUM2DBL, Ruby, NotFinite
<1>4. CASE v.class \notin {"Integer", "Float", "not finite"}
  BY <1>4 DEF NUM2DBL, Raise, Value
<1> QED
  BY <1>1, <1>2, <1>3, <1>4

LEMMA BindFloatFacts ==
  ASSUME NEW v \in Ruby
  PROVE  \/ BindFloat(v).class = "raise"
         \/ BindFloat(v) \in NotFinite
         \/ \E y \in Floats : BindFloat(v) = Value("float", y)
<1>1. CASE NUM2DBL(v).class = "raise"
  BY <1>1 DEF BindFloat
<1>2. CASE NUM2DBL(v) \in NotFinite
  <2>1. NUM2DBL(v).class = "not finite" /\ NUM2DBL(v).value \in Int
    BY <1>2 DEF NotFinite
  <2> QED
    BY <2>1 DEF BindFloat, ToFloat, NotFinite, Value
<1>3. ASSUME NEW h \in Int, NUM2DBL(v) = Value("Float", h)
      PROVE  \/ BindFloat(v).class = "raise"
             \/ \E y \in Floats : BindFloat(v) = Value("float", y)
  <2>1. NUM2DBL(Value("Float", h)) = Value("Float", h)
    BY DEF NUM2DBL, Value
  <2>2. BindFloat(v) = BindFloat(Value("Float", h))
    BY <1>3, <2>1 DEF BindFloat
  <2> QED
    BY <2>2, FloatFacts DEF Raise, Value
<1> QED
  BY <1>1, <1>2, <1>3, BindDoubleFacts

\* A value has one outcome, which is stored or is an exception.
LEMMA OneOutcome ==
  ASSUME NEW type \in Types \ {"timestamp"}, NEW v \in Ruby, NEW c \in hash_cb_value(type, v)
  PROVE  /\ hash_cb_value(type, v) = {c}
         /\ c.class = "raise" \/ c \in Stored(type)
<1>1. CASE v.class = "nil"
  <2>1. hash_cb_value(type, v) = {Null}
    BY <1>1 DEF hash_cb_value
  <2> QED
    BY <2>1 DEF Stored
<1>2. CASE v.class # "nil" /\ type \in IntegerTypes
  <2>1. hash_cb_value(type, v) = {BindInteger(type, v)}
    BY <1>2 DEF hash_cb_value, IntegerTypes
  <2>2. Held(type) = {Value(type, n) : n \in {m \in Int : Fits(m, Bits[type])}}
    BY <1>2 DEF Held, IntegerTypes
  <2>3. BindInteger(type, v).class = "raise" \/ BindInteger(type, v) \in Held(type)
    BY <1>2, <2>2, BindIntegerFacts
  <2> QED
    BY <2>1, <2>3 DEF Stored
<1>3. CASE v.class # "nil" /\ type = "float"
  <2>1. hash_cb_value(type, v) = {BindFloat(v)}
    BY <1>3 DEF hash_cb_value, IntegerTypes
  <2> QED
    BY <1>3, <2>1, BindFloatFacts DEF Stored, Held, IntegerTypes
<1>4. CASE v.class # "nil" /\ type = "double"
  <2>1. hash_cb_value(type, v) = {NUM2DBL(v)}
    BY <1>4 DEF hash_cb_value, IntegerTypes
  <2> QED
    BY <1>4, <2>1, BindDoubleFacts DEF Stored, Held, IntegerTypes
<1>5. CASE v.class # "nil" /\ type = "boolean"
  <2>1. hash_cb_value(type, v) = {Value("boolean", v.class # "false")}
    BY <1>5 DEF hash_cb_value, IntegerTypes
  <2>2. (v.class # "false") \in BOOLEAN
    OBVIOUS
  <2>3. Value("boolean", v.class # "false") \in Held(type)
    BY <1>5, <2>2 DEF Held, IntegerTypes
  <2> QED
    BY <1>5, <2>1, <2>3 DEF Stored
<1>6. CASE v.class # "nil" /\ type \in {"text", "uuid"}
  <2>1. hash_cb_value(type, v) = {BindString(type, v)}
    BY <1>6 DEF hash_cb_value, IntegerTypes
  <2>2. v.class = "String" => v.value \in Texts
    BY DEF Ruby
  <2>3. BindString(type, v).class = "raise" \/ BindString(type, v) \in Held(type)
    BY <1>6, <2>2 DEF BindString, Held, Raise, Value, IntegerTypes, Texts
  <2> QED
    BY <2>1, <2>3 DEF Stored
<1>7. CASE v.class # "nil" /\ type = "other"
  <2>1. hash_cb_value(type, v) = {Raise("TypeError")}
    BY <1>7 DEF hash_cb_value, IntegerTypes
  <2> QED
    BY <2>1 DEF Raise, Value
<1> QED
  BY <1>1, <1>2, <1>3, <1>4, <1>5, <1>6, <1>7 DEF Types

\* What may become of a value that was read when it is bound again.
Again(type, c, d) ==
  \/ d = c
  \/ /\ d.class = "raise"
     /\ \/ type = "other"
        \/ type = "text" /\ c.class = "text" /\ c.value = "with NUL"

LEMMA RowFacts ==
  ASSUME NEW type \in Types \ {"timestamp"}, NEW c \in Stored(type),
         IsStored(result_convert_row_value(type, c))
  PROVE  /\ result_convert_row_value(type, c) \in Ruby
         /\ \A d \in hash_cb_value(type, result_convert_row_value(type, c)) : Again(type, c, d)
<1> DEFINE r == result_convert_row_value(type, c)
<1> SUFFICES r \in Ruby /\ \A d \in hash_cb_value(type, r) : Again(type, c, d)
  OBVIOUS
<1>0. IsStored(r)
  OBVIOUS
<1> HIDE DEF r
<1>1. CASE c = Null
  <2>1. r = Null
    BY <1>1 DEF r, result_convert_row_value, Null, Value
  <2>2. hash_cb_value(type, r) = {Null}
    BY <2>1 DEF hash_cb_value, Null, Value
  <2> QED
    BY <1>1, <2>1, <2>2 DEF Again, Ruby, Null, Value
<1>2. CASE c = Value("short", 0) /\ type # "text"
  <2>1. CASE type = "other"
    <3>1. r = Value("Symbol", "unsupported_column_type")
      BY <1>2, <2>1 DEF r, result_convert_row_value, Value
    <3>2. hash_cb_value(type, r) = {Raise("TypeError")}
      BY <2>1, <3>1 DEF hash_cb_value, IntegerTypes, Value
    <3> QED
      BY <2>1, <3>1, <3>2 DEF Again, Ruby, Raise, Value
  <2>2. CASE type # "other"
    <3>1. r = Raise("ExecutionError")
      BY <1>2, <2>2 DEF r, result_convert_row_value, Value
    <3> QED
      BY <1>0, <3>1 DEF IsStored, Raise, Value
  <2> QED
    BY <2>1, <2>2
<1>3. CASE c \in Held(type)
  <2>1. CASE type \in IntegerTypes
    <3>0. Held(type) = {Value(type, n) : n \in {m \in Int : Fits(m, Bits[type])}}
      BY <2>1 DEF Held, IntegerTypes
    <3>1. PICK n \in Int : c = Value(type, n) /\ Fits(n, Bits[type])
      BY <1>3, <3>0
    <3>2. r = Value("Integer", n)
      BY <2>1, <3>1 DEF r, result_convert_row_value, Value, IntegerTypes
    <3>3. hash_cb_value(type, r) = {BindInteger(type, r)}
      BY <2>1, <3>2 DEF hash_cb_value, Value, IntegerTypes
    <3>4. BindInteger(type, r) = c
      BY <2>1, <3>1, <3>2, IntegerFacts
    <3> QED
      BY <3>2, <3>3, <3>4 DEF Again, Ruby, Value
  <2>2. CASE type = "float" /\ c \notin NotFinite
    <3>1. PICK x \in Floats : c = Value("float", x)
      BY <1>3, <2>2 DEF Held, IntegerTypes
    <3>2. r = Value("Float", x) /\ x \in Int
      BY <2>2, <3>1, ColumnTypesAssumption DEF r, result_convert_row_value, Value, IntegerTypes, Floats
    <3>3. hash_cb_value(type, r) = {BindFloat(r)}
      BY <2>2, <3>2 DEF hash_cb_value, Value, IntegerTypes
    <3>4. BindFloat(r) = c
      BY <3>1, <3>2, FloatExact
    <3> QED
      BY <3>2, <3>3, <3>4 DEF Again, Ruby, Value
  <2>3. CASE type = "double" /\ c \notin NotFinite
    <3>1. PICK x \in Int : c = Value("Float", x)
      BY <1>3, <2>3 DEF Held, IntegerTypes
    <3>2. r = c
      BY <2>3, <3>1 DEF r, result_convert_row_value, Value, IntegerTypes
    <3>3. NUM2DBL(r) = r
      BY <3>1, <3>2 DEF NUM2DBL, Value
    <3>4. hash_cb_value(type, r) = {NUM2DBL(r)}
      BY <2>3, <3>1, <3>2 DEF hash_cb_value, Value, IntegerTypes
    <3> QED
      BY <3>1, <3>2, <3>3, <3>4 DEF Again, Ruby, Value
  <2>4. CASE type \in {"float", "double"} /\ c \in NotFinite
    <3>1. c.class = "not finite" /\ c.value \in Int /\ c = Value("not finite", c.value)
      BY <2>4 DEF NotFinite, Value
    <3>2. r = c
      BY <2>4, <3>1 DEF r, result_convert_row_value, Value, IntegerTypes
    <3>3. NUM2DBL(r) = c /\ BindFloat(r) = c
      BY <3>1, <3>2 DEF NUM2DBL, BindFloat, ToFloat
    <3>4. hash_cb_value(type, r) = {c}
      BY <2>4, <3>1, <3>2, <3>3 DEF hash_cb_value, IntegerTypes
    <3> QED
      BY <3>1, <3>2, <3>4 DEF Again, Ruby, Value
  <2>5. CASE type = "boolean"
    <3>1. PICK b \in BOOLEAN : c = Value("boolean", b)
      BY <1>3, <2>5 DEF Held, IntegerTypes
    <3>2. r = Value(IF b THEN "true" ELSE "false", 0)
      BY <2>5, <3>1 DEF r, result_convert_row_value, ReadBoolean, Value, IntegerTypes
    <3>3. r.class \in {"true", "false"} /\ ((r.class # "false") <=> b)
      BY <3>1, <3>2 DEF Value
    <3>4. r \in Ruby
      BY <3>2 DEF Value, Ruby
    <3>5. hash_cb_value(type, r) = {Value("boolean", r.class # "false")}
      BY <2>5, <3>3 DEF hash_cb_value, IntegerTypes
    <3>6. Value("boolean", r.class # "false") = c
      BY <3>1, <3>3, (r.class # "false") = b DEF Value
    <3> QED
      BY <3>4, <3>5, <3>6 DEF Again
  <2>6. CASE type \in {"text", "uuid"}
    <3>1. PICK s \in Texts : c = Value(type, s) /\ (type = "uuid" => s = "uuid")
      BY <1>3, <2>6 DEF Held, IntegerTypes, Texts
    <3>2. r = Value("String", s) /\ r \in Ruby
      BY <2>6, <3>1 DEF r, result_convert_row_value, Value, IntegerTypes, Ruby
    <3>3. hash_cb_value(type, r) = {BindString(type, r)}
      BY <2>6, <3>2 DEF hash_cb_value, Value, IntegerTypes
    <3>4. BindString(type, r) = (IF s = "with NUL" THEN Raise("ArgumentError") ELSE c)
      BY <2>6, <3>1, <3>2 DEF BindString, Value
    <3>5. CASE s = "with NUL"
      <4>1. type = "text" /\ c.class = "text" /\ c.value = "with NUL"
        BY <2>6, <3>1, <3>5 DEF Value
      <4>2. BindString(type, r) = Raise("ArgumentError")
        BY <3>4, <3>5
      <4>3. BindString(type, r).class = "raise"
        BY <4>2 DEF Raise, Value
      <4> QED
        BY <3>2, <3>3, <4>1, <4>3 DEF Again
    <3>6. CASE s # "with NUL"
      BY <3>2, <3>3, <3>4, <3>6 DEF Again
    <3> QED
      BY <3>5, <3>6
  <2>7. CASE type = "other"
    <3>1. c = Value("other", 0)
      BY <1>3, <2>7 DEF Held, IntegerTypes
    <3>2. r = Value("Symbol", "unsupported_column_type")
      BY <2>7, <3>1 DEF r, result_convert_row_value, Value
    <3>3. hash_cb_value(type, r) = {Raise("TypeError")}
      BY <2>7, <3>2 DEF hash_cb_value, IntegerTypes, Value
    <3> QED
      BY <2>7, <3>2, <3>3 DEF Again, Ruby, Raise, Value
  <2> QED
    BY <2>1, <2>2, <2>3, <2>4, <2>5, <2>6, <2>7 DEF Types
<1> QED
  BY <1>1, <1>2, <1>3 DEF Stored

-----------------------------------------------------------------------------
(* Timestamps.                                                               *)

LEMMA SignedDivision ==
  ASSUME NEW t \in Int, NEW b \in Nat \ {0}, t % b = 0
  PROVE  Magnitude(t) % b = 0
<1>1. CASE t >= 0
  BY <1>1 DEF Magnitude, Signed
<1>2. CASE t < 0
  <2> DEFINE k == t \div b
  <2>1. k \in Int /\ t = b * k + (t % b)
    OBVIOUS
  <2> HIDE DEF k
  <2>2. -t = (-k) * b
    BY <2>1
  <2>3. -k \in Nat
    <3>1. b * 0 = 0 /\ (k > 0 => b * k >= b * 0 + b)
      BY <2>1, MultiplesFacts
    <3> QED
      BY <1>2, <2>1, <3>1
  <2>4. ((-k) * b) % b = 0
    BY <2>3, MultipleRemainder
  <2> QED
    BY <1>2, <2>2, <2>4 DEF Magnitude, Signed
<1> QED
  BY <1>1, <1>2

\* The number of milliseconds n is that of the time t as far as TimesKept has it.
Close(t, n) ==
  LET ms == Quotient(t, Parts) IN
  Fits(Signed(t, Magnitude(ms) + 1), Bits["bigint"]) /\ 4 * (Magnitude(ms) + 1) <= Two[DoubleDigits]
  => /\ Magnitude(n - ms) <= 1
     /\ t % (1000 * Parts) = 0 /\ Representable(Magnitude(t), DoubleDigits) => n = ms

LEMMA BindTimeFacts ==
  ASSUME NEW t \in Int, NEW c \in BindTime(t)
  PROVE  \E n \in Int : c = Value("timestamp", n) /\ Close(t, n)
<1> DEFINE a == Magnitude(t)
           M == a \div Parts
           bits == Bits["bigint"]
<1>1. a \in Nat /\ Parts \in Nat \ {0}
  BY ColumnTypesAssumption DEF Magnitude, Signed
<1> HIDE DEF a
<1>2. M \in Nat
  BY <1>1, DivisionFacts
<1>3. Quotient(t, Parts) = Signed(t, M) /\ Magnitude(Quotient(t, Parts)) = M
  BY <1>2, <1>1 DEF Quotient, Magnitude, Signed, a
<1>4. Least(bits) \in Int /\ Greatest(bits) \in Int /\ Least(bits) <= 0 /\ 0 <= Greatest(bits)
  <2>1. Two[bits - 1] \in Nat \ {0}
    BY WidthFacts DEF IntegerTypes
  <2> QED
    BY <2>1 DEF Least, Greatest
<1>5. PICK n \in Nat :
        Truncate(Multiply(to_f(a), 1000, DoubleDigits)) = n /\ Milliseconds(a, n)
  BY <1>1, MillisecondsFacts
<1> DEFINE ms == Signed(t, n)
<1>6. BindTime(t) =
        {Value("timestamp", k) :
           k \in IF Fits(ms, bits) THEN {ms}
                                   ELSE {Least(bits), IF t < 0 THEN Least(bits) ELSE Greatest(bits)}}
  BY <1>5 DEF BindTime, a
<1>7. ms \in Int
  BY DEF Signed
<1> HIDE DEF ms, M
<1>8. CASE Fits(ms, bits)
  <2>1. c = Value("timestamp", ms)
    BY <1>6, <1>8
  <2>2. ASSUME 4 * (M + 1) <= Two[DoubleDigits]
        PROVE  /\ Magnitude(ms - Signed(t, M)) <= 1
               /\ t % (1000 * Parts) = 0 /\ Representable(a, DoubleDigits) => ms = Signed(t, M)
    <3>1. n <= M + 1 /\ M <= n + 1
      BY <1>5, <2>2 DEF Milliseconds, M
    <3>2. Magnitude(ms - Signed(t, M)) <= 1
      BY <1>2, <3>1 DEF Magnitude, Signed, ms
    <3>3. ASSUME t % (1000 * Parts) = 0, Representable(a, DoubleDigits)
          PROVE  ms = Signed(t, M)
      <4>1. 1000 * Parts \in Nat \ {0}
        BY <1>1
      <4>2. a % (1000 * Parts) = 0
        BY <3>3, <4>1, SignedDivision DEF a
      <4> QED
        BY <1>5, <2>2, <3>3, <4>2 DEF ms, Milliseconds, M
    <3> QED
      BY <3>2, <3>3
  <2>3. Close(t, ms)
    BY <1>3, <2>2 DEF Close, a
  <2> QED
    BY <1>7, <2>1, <2>3
<1>9. CASE ~Fits(ms, bits)
  <2>1. PICK k \in Int : c = Value("timestamp", k)
    BY <1>4, <1>6, <1>9
  <2>2. ASSUME 4 * (M + 1) <= Two[DoubleDigits], Fits(Signed(t, M + 1), bits)
        PROVE  FALSE
    <3>1. n <= M + 1
      BY <1>5, <2>2 DEF Milliseconds, M
    <3> QED
      BY <1>2, <1>4, <1>9, <2>2, <3>1 DEF Fits, Signed, ms
  <2>3. Close(t, k)
    BY <1>3, <2>2 DEF Close
  <2> QED
    BY <2>1, <2>3
<1> QED
  BY <1>8, <1>9

\* A time of n milliseconds is read from n, and is near to n.
LEMMA ReadTimeFacts ==
  ASSUME NEW n \in Int
  PROVE  /\ result_convert_row_value("timestamp", Value("timestamp", n)) = Value("Time", n * Parts)
         /\ Close(n * Parts, n)
<1>1. Parts \in Nat \ {0}
  BY ColumnTypesAssumption
<1> DEFINE sec == Quotient(n, 1000)
           rem == Remainder(n, 1000)
<1>2. sec \in Int /\ rem = n - 1000 * sec
  BY DEF Quotient, Remainder
<1> HIDE DEF sec, rem
<1>3. rem \in Int
  BY <1>2
<1>4. ((rem * 1000) * Parts) \div 1000 = rem * Parts
  <2>1. (rem * 1000) * Parts = 1000 * (rem * Parts) /\ rem * Parts \in Int
    BY <1>1, <1>3
  <2> QED
    BY <2>1
<1>5. sec * 1000 * Parts + rem * Parts = n * Parts
  <2>1. n = 1000 * sec + rem
    BY <1>2, <1>3
  <2>2. n * Parts = (1000 * sec) * Parts + rem * Parts
    BY <1>1, <1>2, <1>3, <2>1
  <2> QED
    BY <1>1, <1>2, <2>2
<1>6. ReadTimestamp(n) = Value("Time", n * Parts)
  BY <1>4, <1>5 DEF ReadTimestamp, sec, rem
<1>7. result_convert_row_value("timestamp", Value("timestamp", n)) = Value("Time", n * Parts)
  BY <1>6 DEF result_convert_row_value, Value, IntegerTypes
<1>8. Quotient(n * Parts, Parts) = n
  <2>1. CASE n >= 0
    <3>1. n \in Nat /\ n * Parts \in Nat
      BY <1>1, <2>1
    <3>2. (n * Parts) \div Parts = n
      BY <1>1, <3>1, MultipleRemainder
    <3> QED
      BY <3>1, <3>2 DEF Quotient
  <2>2. CASE n < 0
    <3>1. -n \in Nat /\ (-n) * Parts \in Nat /\ (-n) * Parts = -(n * Parts)
      BY <1>1, <2>2
    <3>2. ((-n) * Parts) \div Parts = -n
      BY <1>1, <3>1, MultipleRemainder
    <3>3. n * Parts < 0
      <4>1. Parts * n = n * Parts /\ Parts * (-n) >= Parts * 0 + Parts /\ Parts * 0 = 0
        BY <1>1, <2>2, <3>1, MultiplesFacts
      <4> QED
        BY <1>1, <3>1, <4>1
    <3> QED
      BY <3>1, <3>2, <3>3 DEF Quotient
  <2> QED
    BY <2>1, <2>2
<1>9. Close(n * Parts, n)
  BY <1>8 DEF Close, Magnitude, Signed
<1> QED
  BY <1>7, <1>9

-----------------------------------------------------------------------------
(* The inductive invariant.  What a column holds is the outcome of the value *)
(* that the program has, or that value was read from it.                     *)

ColumnsInv ==
  /\ value_type \in Types
  /\ bound = Unset \/ bound \in Ruby
  /\ column = Unset \/ column.class = "raise" \/ column \in Stored(value_type)
  /\ \/ row = Unset
     \/ column \in Stored(value_type) /\ row = result_convert_row_value(value_type, column)
  /\ bound # Unset /\ column # Unset =>
       \/ column \in hash_cb_value(value_type, bound)
       \/ /\ column \in Stored(value_type)
          /\ bound = result_convert_row_value(value_type, column) /\ IsStored(bound)

\* What is stored is not an exception.
LEMMA NotStored ==
  /\ ~IsStored(Unset)
  /\ \A type \in Types : \A c \in Stored(type) : c # Unset /\ IsStored(c)
<1>1. ASSUME NEW type \in Types, NEW c \in Held(type)
      PROVE  c.class \notin {"unset", "raise"}
  <2>1. CASE type \in IntegerTypes
    <3>1. Held(type) = {Value(type, n) : n \in {m \in Int : Fits(m, Bits[type])}}
      BY <2>1 DEF Held, IntegerTypes
    <3>2. c.class = type
      BY <3>1 DEF Value
    <3> QED
      BY <2>1, <3>2 DEF IntegerTypes
  <2>2. CASE type = "float"
    <3>1. Held(type) = {Value("float", x) : x \in Floats} \cup NotFinite
      BY <2>2 DEF Held, IntegerTypes
    <3>2. \A d \in NotFinite : d.class = "not finite"
      BY DEF NotFinite
    <3>3. CASE c \in NotFinite
      BY <3>2, <3>3
    <3>4. CASE c \notin NotFinite
      BY <1>1, <3>1, <3>4 DEF Value
    <3> QED
      BY <3>3, <3>4
  <2>3. CASE type = "double"
    <3>1. Held(type) = {Value("Float", x) : x \in Int} \cup NotFinite
      BY <2>3 DEF Held, IntegerTypes
    <3>2. \A d \in NotFinite : d.class = "not finite"
      BY DEF NotFinite
    <3>3. CASE c \in NotFinite
      BY <3>2, <3>3
    <3>4. CASE c \notin NotFinite
      BY <1>1, <3>1, <3>4 DEF Value
    <3> QED
      BY <3>3, <3>4
  <2>4. CASE type \in {"boolean", "text", "uuid"}
    BY <1>1, <2>4 DEF Held, Value, IntegerTypes
  <2>5. CASE type \in {"timestamp", "other"}
    BY <1>1, <2>5 DEF Held, Value, IntegerTypes
  <2> QED
    BY <2>1, <2>2, <2>3, <2>4, <2>5 DEF Types
<1>2. ASSUME NEW type \in Types, NEW c \in Stored(type)
      PROVE  c.class \notin {"unset", "raise"}
  BY <1>1, <1>2 DEF Stored, Null, Value
<1> QED
  BY <1>2 DEF IsStored, Unset, Value

\* Of every type, an outcome is stored or an exception.
LEMMA StoredOutcome ==
  ASSUME NEW type \in Types, NEW v \in Ruby, NEW c \in hash_cb_value(type, v)
  PROVE  c # Unset /\ (c.class = "raise" \/ c \in Stored(type))
<1>1. c.class = "raise" \/ c \in Stored(type)
  <2>1. CASE type # "timestamp"
    BY <2>1, OneOutcome
  <2>2. CASE type = "timestamp" /\ v.class = "nil"
    BY <2>2 DEF hash_cb_value, Stored
  <2>3. CASE type = "timestamp" /\ v.class = "Time"
    <3>1. hash_cb_value(type, v) = BindTime(v.value) /\ v.value \in Int
      BY <2>3 DEF hash_cb_value, Ruby, IntegerTypes
    <3>2. \E n \in Int : c = Value("timestamp", n)
      BY <3>1, BindTimeFacts
    <3> QED
      BY <2>3, <3>2 DEF Stored, Held, IntegerTypes
  <2>4. CASE type = "timestamp" /\ v.class \notin {"nil", "Time"}
    BY <2>4 DEF hash_cb_value, IntegerTypes, Raise, Value
  <2> QED
    BY <2>1, <2>2, <2>3, <2>4
<1>2. Unset.class = "unset"
  BY DEF Unset, Value
<1> QED
  BY <1>1, <1>2, NotStored

\* What is read from a column is a value that the program can bind.
LEMMA RowRuby ==
  ASSUME NEW type \in Types, NEW c \in Stored(type), IsStored(result_convert_row_value(type, c))
  PROVE  result_convert_row_value(type, c) \in Ruby
<1>1. CASE type # "timestamp"
  BY <1>1, RowFacts
<1>2. CASE type = "timestamp" /\ c = Null
  BY <1>2 DEF result_convert_row_value, Null, Value, Ruby
<1>3. CASE type = "timestamp" /\ c = Value("short", 0)
  BY <1>3 DEF result_convert_row_value, Value, Raise, IsStored
<1>4. CASE type = "timestamp" /\ c \in Held(type)
  <2>1. PICK n \in Int : c = Value("timestamp", n)
    BY <1>4 DEF Held, IntegerTypes
  <2>2. result_convert_row_value(type, c) = Value("Time", n * Parts)
    BY <1>4, <2>1, ReadTimeFacts
  <2>3. n * Parts \in Int
    BY ColumnTypesAssumption
  <2> QED
    BY <2>2, <2>3 DEF Ruby, Value
<1> QED
  BY <1>1, <1>2, <1>3, <1>4 DEF Stored

\* What others may have written is what a column may hold.
LEMMA WrittenStored ==
  ASSUME NEW type \in Types, NEW c \in Written(type)
  PROVE  c \in Stored(type)
<1>1. CASE type \in IntegerTypes
  <2>1. Two[Bits[type] - 1] \in Nat \ {0}
    BY <1>1, WidthFacts
  <2>2. \A n \in {Least(Bits[type]), Greatest(Bits[type])} : n \in Int /\ Fits(n, Bits[type])
    BY <2>1 DEF Fits, Least, Greatest
  <2>3. Held(type) = {Value(type, n) : n \in {m \in Int : Fits(m, Bits[type])}}
    BY <1>1 DEF Held, IntegerTypes
  <2>4. Written(type) = {Null, Value("short", 0)} \cup
          {Value(type, n) : n \in {Least(Bits[type]), Greatest(Bits[type])}}
    BY <1>1 DEF Written, IntegerTypes
  <2> QED
    BY <1>1, <2>2, <2>3, <2>4 DEF Stored, IntegerTypes
<1>2. CASE type = "timestamp"
  <2>1. Two[Bits["bigint"] - 1] \in Nat \ {0}
    BY WidthFacts DEF IntegerTypes
  <2>2. Least(Bits["bigint"])..Greatest(Bits["bigint"]) \subseteq Int
    BY <2>1 DEF Least, Greatest
  <2>3. Written(type) = {Null, Value("short", 0)} \cup
          {Value("timestamp", n) : n \in Least(Bits["bigint"])..Greatest(Bits["bigint"])}
    BY <1>2 DEF Written, IntegerTypes
  <2>4. Held(type) = {Value("timestamp", n) : n \in Int}
    BY <1>2 DEF Held, IntegerTypes
  <2> QED
    BY <1>2, <2>2, <2>3, <2>4 DEF Stored
<1>3. CASE type \in {"float", "double"}
  <2>1. Value("not finite", 0) \in NotFinite
    BY DEF NotFinite, Value
  <2>2. Written(type) = {Null, Value("short", 0), Value("not finite", 0)}
    BY <1>3 DEF Written, IntegerTypes
  <2>3. NotFinite \subseteq Held(type)
    BY <1>3 DEF Held, IntegerTypes
  <2> QED
    BY <1>3, <2>1, <2>2, <2>3 DEF Stored
<1>4. CASE type = "boolean"
  <2>1. Written(type) = {Null, Value("short", 0)} \cup {Value("boolean", b) : b \in BOOLEAN}
    BY <1>4 DEF Written, IntegerTypes
  <2>2. Held(type) = {Value("boolean", b) : b \in BOOLEAN}
    BY <1>4 DEF Held, IntegerTypes
  <2> QED
    BY <1>4, <2>1, <2>2 DEF Stored
<1>5. CASE type \in {"text", "uuid"}
  BY <1>5 DEF Written, Stored, Held, Texts, IntegerTypes
<1>6. CASE type = "other"
  BY <1>6 DEF Written, Stored, Held, IntegerTypes
<1> QED
  BY <1>1, <1>2, <1>3, <1>4, <1>5, <1>6 DEF Types

\* A value of a class is one of that class.
LEMMA RubyFacts ==
  /\ \A class \in {"Integer", "Float", "not finite", "Time"} : \A n \in Int : Value(class, n) \in Ruby
  /\ \A class \in {"nil", "true", "false", "Symbol"} : Value(class, 0) \in Ruby
  /\ \A s \in Texts : Value("String", s) \in Ruby
BY DEF Ruby, Value

LEMMA ColumnsInit ==
  ASSUME ColumnInit
  PROVE  ColumnsInv
<1>1. value_type \in Types /\ row = Unset
  BY DEF ColumnInit
<1>2. CASE column = Unset
  <2>1. bound = Unset \/ bound \in Ruby
    <3>1. CASE bound \in AnyValue
      <4>1. 90 * Parts \in Int /\ 5 \in Int /\ 3 \in Int /\ -3 \in Int /\ 0 \in Int
        BY ColumnTypesAssumption
      <4> QED
        BY <3>1, <4>1, RubyFacts DEF AnyValue, Texts, Null
    <3>2. CASE \E n \in Int : bound \in {Value("Integer", n), Value("Float", n), Value("Time", n)}
      BY <3>2, RubyFacts
    <3> QED
      BY <1>2, <3>1, <3>2, ColumnTypesAssumption DEF ColumnInit
  <2> QED
    BY <1>1, <1>2, <2>1 DEF ColumnsInv
<1>3. CASE bound = Unset /\ column \in Written(value_type)
  BY <1>1, <1>3, WrittenStored DEF ColumnsInv
<1> QED
  BY <1>2, <1>3 DEF ColumnInit

LEMMA ColumnsStep ==
  ASSUME ColumnsInv, [ColumnNext]_columnVars
  PROVE  ColumnsInv'
<1>1. CASE BindValue
  <2>1. /\ value_type' = value_type /\ bound' = bound /\ row' = Unset
        /\ bound \in Ruby /\ column' \in hash_cb_value(value_type, bound)
    BY <1>1 DEF BindValue, ColumnsInv
  <2>2. value_type \in Types
    BY DEF ColumnsInv
  <2>3. column'.class = "raise" \/ column' \in Stored(value_type)
    BY <2>1, <2>2, StoredOutcome
  <2>4. column' \in hash_cb_value(value_type', bound')
    BY <2>1
  <2> QED
    BY <2>1, <2>2, <2>3, <2>4 DEF ColumnsInv
<1>2. CASE ReadRow
  BY <1>2, NotStored DEF ReadRow, ColumnsInv, IsStored
<1>3. CASE TakeRow
  <2>1. /\ IsStored(row) /\ bound' = row /\ row' = Unset
        /\ value_type' = value_type /\ column' = column
    BY <1>3 DEF TakeRow
  <2>2. /\ value_type \in Types /\ column \in Stored(value_type)
        /\ row = result_convert_row_value(value_type, column)
    BY <2>1, NotStored DEF ColumnsInv
  <2>3. row \in Ruby
    BY <2>1, <2>2, RowRuby
  <2> QED
    BY <2>1, <2>2, <2>3 DEF ColumnsInv
<1>4. CASE UNCHANGED columnVars
  BY <1>4 DEF columnVars, ColumnsInv
<1> QED
  BY <1>1, <1>2, <1>3, <1>4 DEF ColumnNext

\* A column holds the outcome of the value that the program has, or that value
\* was read from it; whatever was bound and read before (BindValue, ReadRow).
THEOREM ColumnsInvariant == ColumnSpec => []ColumnsInv
BY ColumnsInit, ColumnsStep, PTL DEF ColumnSpec

-----------------------------------------------------------------------------
(* The theorems.                                                             *)

LEMMA IntegersKeptInv == ColumnsInv => IntegersKept
<1> SUFFICES ASSUME ColumnsInv, value_type \in IntegerTypes, bound.class = "Integer", column # Unset
             PROVE  IF Fits(bound.value, Bits[value_type])
                    THEN column = Value(value_type, bound.value) /\ row \in {Unset, bound}
                    ELSE column = Raise("RangeError")
  BY DEF IntegersKept
<1>1. bound \in Ruby /\ bound # Unset
  BY DEF ColumnsInv, Unset, Value
<1>2. bound.value \in Int /\ bound = Value("Integer", bound.value)
  BY <1>1 DEF Ruby, Value
<1>3. Held(value_type) = {Value(value_type, n) : n \in {m \in Int : Fits(m, Bits[value_type])}}
  BY DEF Held, IntegerTypes
<1>4. ASSUME NEW n \in Int, column = Value(value_type, n)
      PROVE  result_convert_row_value(value_type, column) = Value("Integer", n)
  BY <1>4 DEF result_convert_row_value, Value, IntegerTypes
<1>5. column = (IF Fits(bound.value, Bits[value_type]) THEN Value(value_type, bound.value)
                                                        ELSE Raise("RangeError"))
  <2>1. CASE column \in hash_cb_value(value_type, bound)
    <3>1. hash_cb_value(value_type, bound) = {BindInteger(value_type, bound)}
      BY DEF hash_cb_value, IntegerTypes
    <3>2. column = BindInteger(value_type, Value("Integer", bound.value))
      BY <1>2, <2>1, <3>1
    <3> QED
      BY <1>2, <3>2, IntegerFacts
  <2>2. CASE column \in Stored(value_type) /\ bound = result_convert_row_value(value_type, column)
                 /\ IsStored(bound)
    <3>1. CASE column = Null
      BY <2>2, <3>1 DEF result_convert_row_value, Null, Value
    <3>2. CASE column = Value("short", 0)
      BY <2>2, <3>2 DEF result_convert_row_value, Value, Raise, IsStored, IntegerTypes
    <3>3. CASE column \in Held(value_type)
      <4>1. PICK n \in Int : Fits(n, Bits[value_type]) /\ column = Value(value_type, n)
        BY <1>3, <3>3
      <4>2. bound = Value("Integer", n)
        BY <1>4, <2>2, <4>1
      <4>3. bound.value = n
        BY <4>2 DEF Value
      <4> QED
        BY <4>1, <4>3
    <3> QED
      BY <2>2, <3>1, <3>2, <3>3 DEF Stored
  <2> QED
    BY <1>1, <2>1, <2>2 DEF ColumnsInv
<1>6. CASE Fits(bound.value, Bits[value_type])
  BY <1>2, <1>4, <1>5, <1>6 DEF ColumnsInv
<1>7. CASE ~Fits(bound.value, Bits[value_type])
  BY <1>5, <1>7
<1> QED
  BY <1>6, <1>7

\* IntegersKept: for integers of any widths, an Integer is read back as it was
\* bound or bind raises RangeError; no cast to a narrower type (statement.c:60-97)
\* changes it, and binding what was read gives the same.
THEOREM ColumnIntegers == ColumnSpec => []IntegersKept
BY ColumnsInvariant, IntegersKeptInv, PTL

LEMMA FloatsKeptInv == ColumnsInv => FloatsKept
<1> SUFFICES ASSUME ColumnsInv, value_type = "float", bound.class = "Float", column # Unset
             PROVE  FloatsKept
  BY DEF FloatsKept
<1> DEFINE h == bound.value
           Closest(y) == \A x \in Floats : Magnitude(y - h) <= Magnitude(x - h)
<1>1. bound \in Ruby /\ bound # Unset
  BY DEF ColumnsInv, Unset, Value
<1>2. h \in Int /\ bound = Value("Float", h)
  BY <1>1 DEF Ruby, Value
<1>3. Floats \subseteq Int /\ \A y \in Floats : ~(Magnitude(y) > FLT_MAX)
  BY ColumnTypesAssumption DEF Floats, Magnitude, Signed
<1>4. IF Magnitude(h) > FLT_MAX THEN column = Raise("RangeError")
                                ELSE \E y \in Floats : column = Value("float", y) /\ Closest(y)
  <2>1. CASE column \in hash_cb_value(value_type, bound)
    <3>1. hash_cb_value(value_type, bound) = {BindFloat(bound)}
      BY DEF hash_cb_value, IntegerTypes
    <3>2. column = BindFloat(Value("Float", h))
      BY <1>2, <2>1, <3>1
    <3> QED
      BY <1>2, <3>2, FloatFacts
  <2>2. CASE column \in Stored("float") /\ bound = result_convert_row_value("float", column)
    <3>1. CASE column = Null
      BY <2>2, <3>1 DEF result_convert_row_value, Null, Value
    <3>2. CASE column = Value("short", 0)
      BY <2>2, <3>2 DEF result_convert_row_value, Value, Raise
    <3>3. CASE column \in NotFinite
      BY <2>2, <3>3 DEF result_convert_row_value, NotFinite, Value, IntegerTypes
    <3>4. CASE \E y \in Floats : column = Value("float", y)
      <4>1. PICK y \in Floats : column = Value("float", y)
        BY <3>4
      <4>2. bound = Value("Float", y)
        BY <2>2, <4>1 DEF result_convert_row_value, Value, IntegerTypes
      <4>3. h = y
        BY <4>2 DEF Value
      <4>4. Closest(y)
        BY <1>3, <4>3 DEF Magnitude, Signed
      <4> QED
        BY <1>3, <4>1, <4>3, <4>4
    <3>5. Held("float") = {Value("float", y) : y \in Floats} \cup NotFinite
      BY DEF Held, IntegerTypes
    <3> QED
      BY <2>2, <3>1, <3>2, <3>3, <3>4, <3>5 DEF Stored
  <2> QED
    BY <1>1, <2>1, <2>2 DEF ColumnsInv
<1>5. CASE Magnitude(h) > FLT_MAX
  BY <1>4, <1>5 DEF FloatsKept
<1>6. CASE ~(Magnitude(h) > FLT_MAX)
  <2>1. PICK y \in Floats : column = Value("float", y) /\ Closest(y)
    BY <1>4, <1>6
  <2>2. column.class = "float" /\ column.value = y
    BY <2>1 DEF Value
  <2>3. result_convert_row_value(value_type, column) = Value("Float", y)
    BY <2>1 DEF result_convert_row_value, Value, IntegerTypes
  <2>4. row \in {Unset, Value("Float", y)}
    BY <2>3 DEF ColumnsInv
  <2> QED
    BY <1>6, <2>1, <2>2, <2>4 DEF FloatsKept
<1> QED
  BY <1>5, <1>6

\* FloatsKept: for floats of any number of digits, a Float within FLT_MAX is stored
\* as the nearest float, finite, and read back as that; one beyond it is refused
\* (statement.c:103), so that the cast to float never makes it infinite.
THEOREM ColumnFloats == ColumnSpec => []FloatsKept
BY ColumnsInvariant, FloatsKeptInv, PTL

LEMMA TimesKeptInv == ColumnsInv => TimesKept
<1> SUFFICES ASSUME ColumnsInv, value_type = "timestamp", bound.class = "Time", column # Unset
             PROVE  TimesKept
  BY DEF TimesKept
<1>1. bound \in Ruby /\ bound # Unset
  BY DEF ColumnsInv, Unset, Value
<1>2. bound.value \in Int
  BY <1>1 DEF Ruby
<1>3. \E n \in Int : column = Value("timestamp", n) /\ Close(bound.value, n)
  <2>1. CASE column \in hash_cb_value(value_type, bound)
    <3>1. hash_cb_value(value_type, bound) = BindTime(bound.value)
      BY DEF hash_cb_value, IntegerTypes
    <3> QED
      BY <1>2, <2>1, <3>1, BindTimeFacts
  <2>2. CASE /\ column \in Stored("timestamp") /\ IsStored(bound)
             /\ bound = result_convert_row_value("timestamp", column)
    <3>1. CASE column = Null
      BY <2>2, <3>1 DEF result_convert_row_value, Null, Value
    <3>2. CASE column = Value("short", 0)
      BY <2>2, <3>2 DEF result_convert_row_value, Value, Raise
    <3>3. CASE column \in Held("timestamp")
      <4>1. PICK n \in Int : column = Value("timestamp", n)
        BY <3>3 DEF Held, IntegerTypes
      <4>2. bound = Value("Time", n * Parts) /\ Close(n * Parts, n)
        BY <2>2, <4>1, ReadTimeFacts
      <4>3. bound.value = n * Parts
        BY <4>2 DEF Value
      <4> QED
        BY <4>1, <4>2, <4>3
    <3> QED
      BY <2>2, <3>1, <3>2, <3>3 DEF Stored
  <2> QED
    BY <1>1, <2>1, <2>2 DEF ColumnsInv
<1>4. PICK n \in Int : column = Value("timestamp", n) /\ Close(bound.value, n)
  BY <1>3
<1>5. column.value = n
  BY <1>4 DEF Value
<1>6. row \in {Unset, Value("Time", n * Parts)}
  BY <1>4, ReadTimeFacts DEF ColumnsInv
<1> QED
  BY <1>4, <1>5, <1>6 DEF TimesKept, Close

\* TimesKept: with doubles of any number of digits and Times of any resolution, a
\* Time is read back at most a millisecond from its own, and a whole second exactly
\* as long as its count is exact as a double; before the epoch too (statement.c:128-137,
\* result.c:177-181).
THEOREM ColumnTimes == ColumnSpec => []TimesKept
BY ColumnsInvariant, TimesKeptInv, PTL

\* RowsBind: what was read from a column can be bound to it again, and the column
\* then holds what it held; only a text with a NUL and a column of no supported type
\* are refused.
THEOREM ColumnRows == ColumnSpec => RowsBind
<1> DEFINE Kept == IsStored(column) /\ value_type # "timestamp" => Again(value_type, column, column')
<1>1. ASSUME ColumnsInv, [ColumnNext]_columnVars
      PROVE  Kept
  <2>1. CASE BindValue /\ IsStored(column) /\ value_type # "timestamp"
    <3>1. /\ value_type \in Types \ {"timestamp"} /\ bound \in Ruby /\ bound # Unset
          /\ column # Unset /\ column' \in hash_cb_value(value_type, bound)
      BY <1>1, <2>1, NotStored DEF ColumnsInv, BindValue
    <3>2. CASE column \in hash_cb_value(value_type, bound)
      <4>1. hash_cb_value(value_type, bound) = {column}
        BY <3>1, <3>2, OneOutcome
      <4> QED
        BY <3>1, <4>1 DEF Again
    <3>3. CASE /\ column \in Stored(value_type) /\ IsStored(bound)
               /\ bound = result_convert_row_value(value_type, column)
      BY <3>1, <3>3, RowFacts
    <3> QED
      BY <1>1, <3>1, <3>2, <3>3 DEF ColumnsInv
  <2>2. CASE ReadRow \/ TakeRow \/ UNCHANGED columnVars
    BY <2>2 DEF ReadRow, TakeRow, columnVars, Again
  <2> QED
    BY <1>1, <2>1, <2>2 DEF ColumnNext
<1>2. ASSUME ColumnsInv, [ColumnNext]_columnVars
      PROVE  [IsStored(column) /\ value_type # "timestamp" =>
                \/ column' = column
                \/ /\ column'.class = "raise"
                   /\ \/ value_type = "other"
                      \/ value_type = "text" /\ column.class = "text" /\ column.value = "with NUL"]_columnVars
  BY <1>1, <1>2 DEF Again
<1> QED
  BY <1>2, ColumnsInvariant, PTL DEF ColumnSpec, RowsBind
=============================================================================
