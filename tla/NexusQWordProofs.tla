-------------------------- MODULE NexusQWordProofs --------------------------
(***************************************************************************)
(* The channel in a usize of any width: the mask of fast_mod is the        *)
(* remainder, and the ids serve the ring up to the last one.               *)
(***************************************************************************)
EXTENDS NexusQWord, Integers, SequenceTheorems, WellFoundedInduction, TLAPS

-----------------------------------------------------------------------------
(* The powers of two.                                                       *)

\* A set of numbers has a least element: the form of induction used below.
LEMMA LeastNat ==
  ASSUME NEW T, T \subseteq Nat, T # {}
  PROVE  \E x \in T : \A y \in T : x <= y
<1>1. PICK x \in T : \A y \in T : <<y, x>> \notin OpToRel(<, Nat)
  BY NatLessThanWellFounded, WFMin
<1>2. \A y \in T : ~(y < x)
  BY <1>1 DEF OpToRel
<1> QED
  BY <1>2

\* The tables of the first m + 1 powers of two.
Tables(m) == {g \in [0 .. m -> Nat \ {0}] :
                g[0] = 1 /\ \A k \in 0 .. m-1 : g[k+1] = 2 * g[k]}

\* There is one of every length.
LEMMA TableExists == \A m \in Nat : Tables(m) # {}
<1> DEFINE Bad == {m \in Nat : Tables(m) = {}}
<1>1. SUFFICES ASSUME Bad # {} PROVE FALSE
  OBVIOUS
<1>2. PICK m \in Bad : \A n \in Bad : m <= n
  <2>1. Bad \subseteq Nat
    OBVIOUS
  <2> HIDE DEF Bad
  <2> QED
    BY <1>1, <2>1, LeastNat
<1>3. CASE m = 0
  <2>1. [k \in 0 .. 0 |-> 1] \in Tables(0)
    BY DEF Tables
  <2> QED
    BY <1>2, <1>3, <2>1
<1>4. CASE m # 0
  <2>1. m-1 \in Nat /\ m-1 \notin Bad
    BY <1>2, <1>4
  <2>2. PICK g \in Tables(m-1) : TRUE
    BY <2>1
  <2> DEFINE h == [k \in 0 .. m |-> IF k = m THEN 2 * g[m-1] ELSE g[k]]
  <2>3. g \in [0 .. m-1 -> Nat \ {0}] /\ g[0] = 1
        /\ \A k \in 0 .. m-2 : g[k+1] = 2 * g[k]
    BY <2>1, <2>2 DEF Tables
  <2>4. h \in [0 .. m -> Nat \ {0}]
    <3> SUFFICES ASSUME NEW k \in 0 .. m
                 PROVE  (IF k = m THEN 2 * g[m-1] ELSE g[k]) \in Nat \ {0}
      OBVIOUS
    <3>1. g[m-1] \in Nat \ {0}
      BY <2>1, <2>3
    <3>2. CASE k = m
      BY <3>1, <3>2
    <3>3. CASE k # m
      BY <2>1, <2>3, <3>3
    <3> QED
      BY <3>2, <3>3
  <2>5. h[0] = 1
    BY <1>4, <2>1, <2>3
  <2>6. ASSUME NEW k \in 0 .. m-1 PROVE h[k+1] = 2 * h[k]
    <3>1. CASE k = m-1
      BY <2>1, <3>1
    <3>2. CASE k # m-1
      BY <2>1, <2>3, <3>2
    <3> QED
      BY <3>1, <3>2
  <2>7. h \in Tables(m)
    BY <2>4, <2>5, <2>6 DEF Tables
  <2> QED
    BY <1>2, <2>7
<1> QED
  BY <1>3, <1>4

\* Two tables agree as far as both go.
LEMMA TablesAgree ==
  ASSUME NEW m \in Nat, NEW n \in Nat, NEW g \in Tables(m), NEW h \in Tables(n),
         NEW i \in Nat, i <= m, i <= n
  PROVE  g[i] = h[i]
<1> DEFINE Bad == {k \in Nat : k <= m /\ k <= n /\ g[k] # h[k]}
<1>1. SUFFICES ASSUME Bad # {} PROVE FALSE
  OBVIOUS
<1>2. PICK k \in Bad : \A j \in Bad : k <= j
  <2>1. Bad \subseteq Nat
    OBVIOUS
  <2> HIDE DEF Bad
  <2> QED
    BY <1>1, <2>1, LeastNat
<1>3. k # 0
  BY <1>2 DEF Tables
<1>4. k-1 \in Nat /\ k-1 \in 0 .. m-1 /\ k-1 \in 0 .. n-1 /\ k-1 \notin Bad
  BY <1>2, <1>3
<1>5. g[k] = 2 * g[k-1] /\ h[k] = 2 * h[k-1]
  <2>1. g[(k-1)+1] = 2 * g[k-1] /\ h[(k-1)+1] = 2 * h[k-1]
    BY <1>4 DEF Tables
  <2>2. (k-1)+1 = k
    BY <1>4
  <2> QED
    BY <2>1, <2>2
<1> QED
  BY <1>2, <1>4, <1>5

\* pow2 is what its definition says.
LEMMA Pow2Def == pow2 = [k \in Nat |-> IF k = 0 THEN 1 ELSE 2 * pow2[k-1]]
<1> DEFINE T(k) == CHOOSE g \in Tables(k) : TRUE
           f    == [k \in Nat |-> T(k)[k]]
<1>1. \A k \in Nat : T(k) \in Tables(k)
  BY TableExists
<1>2. ASSUME NEW k \in Nat PROVE f[k] = IF k = 0 THEN 1 ELSE 2 * f[k-1]
  <2>1. CASE k = 0
    BY <1>1, <2>1 DEF Tables
  <2>2. CASE k # 0
    <3>1. k-1 \in Nat /\ k-1 \in 0 .. k-1 /\ (k-1)+1 = k
      BY <2>2
    <3>2. T(k)[k] = 2 * T(k)[k-1]
      <4>1. T(k)[(k-1)+1] = 2 * T(k)[k-1]
        BY <1>1, <3>1 DEF Tables
      <4> QED
        BY <3>1, <4>1
    <3>3. T(k)[k-1] = T(k-1)[k-1]
      <4> HIDE DEF T
      <4> QED
        BY <1>1, <3>1, TablesAgree
    <3> QED
      BY <2>2, <3>1, <3>2, <3>3
  <2> QED
    BY <2>1, <2>2
<1>3. f = [k \in Nat |-> IF k = 0 THEN 1 ELSE 2 * f[k-1]]
  <2> DEFINE F == [k \in Nat |-> IF k = 0 THEN 1 ELSE 2 * f[k-1]]
  <2>1. \A k \in Nat : f[k] = F[k]
    BY <1>2
  <2> QED
    BY <2>1
<1>4. \E g : g = [k \in Nat |-> IF k = 0 THEN 1 ELSE 2 * g[k-1]]
  <2> HIDE DEF f
  <2> QED
    BY <1>3
<1> QED
  BY <1>4 DEF pow2

\* Its values are positive and double.
LEMMA Pow2 ==
  /\ pow2[0] = 1
  /\ \A k \in Nat : pow2[k] \in Nat \ {0} /\ pow2[k+1] = 2 * pow2[k]
<1>1. pow2[0] = 1
  BY Pow2Def
<1>2. \A k \in Nat : pow2[k+1] = 2 * pow2[k]
  <2> SUFFICES ASSUME NEW k \in Nat PROVE pow2[k+1] = 2 * pow2[k]
    OBVIOUS
  <2>1. k+1 \in Nat /\ k+1 # 0 /\ (k+1)-1 = k
    OBVIOUS
  <2>2. pow2[k+1] = IF k+1 = 0 THEN 1 ELSE 2 * pow2[(k+1)-1]
    BY <2>1, Pow2Def
  <2> QED
    BY <2>1, <2>2
<1> DEFINE Bad == {k \in Nat : pow2[k] \notin Nat \ {0}}
<1>3. Bad = {}
  <2>1. SUFFICES ASSUME Bad # {} PROVE FALSE
    OBVIOUS
  <2>2. PICK k \in Bad : \A j \in Bad : k <= j
    <3>1. Bad \subseteq Nat
      OBVIOUS
    <3> HIDE DEF Bad
    <3> QED
      BY <2>1, <3>1, LeastNat
  <2>3. k # 0
    BY <1>1, <2>2
  <2>4. k-1 \in Nat /\ k-1 \notin Bad /\ (k-1)+1 = k
    BY <2>2, <2>3
  <2>5. pow2[k] = 2 * pow2[k-1]
    BY <1>2, <2>4
  <2> QED
    BY <2>2, <2>4, <2>5
<1> QED
  BY <1>1, <1>2, <1>3

\* A power of two is a multiple of every smaller one, by a factor that is even.
LEMMA Pow2Split ==
  ASSUME NEW k \in Nat, NEW j \in Nat, k < j
  PROVE  \E q \in Nat \ {0} : pow2[j] = pow2[k] * (2 * q)
<1> DEFINE Bad == {i \in Nat : k < i /\ \A q \in Nat \ {0} :
                                  pow2[i] # pow2[k] * (2 * q)}
<1>1. SUFFICES ASSUME Bad # {} PROVE FALSE
  OBVIOUS
<1>2. PICK i \in Bad : \A n \in Bad : i <= n
  <2>1. Bad \subseteq Nat
    OBVIOUS
  <2> HIDE DEF Bad
  <2> QED
    BY <1>1, <2>1, LeastNat
<1>3. i-1 \in Nat /\ (i-1)+1 = i /\ pow2[i] = 2 * pow2[i-1]
  <2>1. i-1 \in Nat /\ (i-1)+1 = i
    BY <1>2
  <2> QED
    BY <2>1, Pow2
<1>4. pow2[k] \in Nat \ {0}
  BY Pow2
<1>5. CASE i-1 = k
  <2>1. pow2[i] = pow2[k] * (2 * 1)
    BY <1>3, <1>4, <1>5
  <2> QED
    BY <1>2, <2>1
<1>6. CASE i-1 # k
  <2>1. k < i-1 /\ i-1 \notin Bad
    BY <1>2, <1>3, <1>6
  <2>2. PICK q \in Nat \ {0} : pow2[i-1] = pow2[k] * (2 * q)
    BY <1>3, <2>1
  <2>3. pow2[i] = pow2[k] * (2 * (2 * q)) /\ 2 * q \in Nat \ {0}
    BY <1>3, <1>4, <2>2
  <2> QED
    BY <1>2, <2>3
<1> QED
  BY <1>5, <1>6

\* They grow.
LEMMA Pow2Monotone ==
  ASSUME NEW k \in Nat, NEW j \in Nat, k < j
  PROVE  2 * pow2[k] <= pow2[j]
<1>1. PICK q \in Nat \ {0} : pow2[j] = pow2[k] * (2 * q)
  BY Pow2Split
<1>2. pow2[k] \in Nat \ {0}
  BY Pow2
<1>3. pow2[k] * (2 * q) = 2 * pow2[k] + pow2[k] * (2 * (q-1))
  BY <1>2
<1>4. pow2[k] * (2 * (q-1)) >= 0
  BY <1>2
<1> QED
  BY <1>1, <1>2, <1>3, <1>4

-----------------------------------------------------------------------------
(* Bits and the mask.                                                       *)

\* Shifting by one place more is halving.
LEMMA Halve ==
  ASSUME NEW a \in Nat, NEW p \in Nat \ {0}
  PROVE  (a \div p) \div 2 = a \div (2 * p)
  OBVIOUS

\* The bits of a number are 0 and 1.
LEMMA BitType ==
  ASSUME NEW a \in Nat, NEW k \in Nat
  PROVE  Bit(a, k) \in {0, 1}
<1>1. pow2[k] \in Nat \ {0}
  BY Pow2
<1>2. a \div pow2[k] \in Nat
  BY <1>1
<1> QED
  BY <1>2 DEF Bit

\* A usize is known by its bits.
LEMMA BitsDetermine ==
  ASSUME NEW r \in Usize, NEW s \in Usize,
         \A k \in 0 .. W-1 : Bit(r, k) = Bit(s, k)
  PROVE  r = s
<1> DEFINE Bad == {d \in Nat : d <= W /\ r \div pow2[W-d] # s \div pow2[W-d]}
<1>0. pow2[W] \in Nat \ {0} /\ r \in Nat /\ s \in Nat
      /\ r < pow2[W] /\ s < pow2[W]
  BY Pow2, WidthAssumption DEF Usize, USIZE_MAX
<1>1. Bad = {}
  <2>1. SUFFICES ASSUME Bad # {} PROVE FALSE
    OBVIOUS
  <2>2. PICK d \in Bad : \A e \in Bad : d <= e
    <3>1. Bad \subseteq Nat
      OBVIOUS
    <3> HIDE DEF Bad
    <3> QED
      BY <2>1, <3>1, LeastNat
  <2>3. CASE d = 0
    <3>1. r \div pow2[W] = 0 /\ s \div pow2[W] = 0
      BY <1>0
    <3> QED
      BY <2>2, <2>3, <3>1, WidthAssumption
  <2>4. CASE d # 0
    <3> DEFINE k == W - d
               x == r \div pow2[k]
               y == s \div pow2[k]
    <3>1. k \in 0 .. W-1 /\ k \in Nat /\ W - (d-1) = k+1 /\ d-1 \in Nat
          /\ d-1 <= W /\ d-1 \notin Bad
      BY <2>2, <2>4, WidthAssumption
    <3>2. r \div pow2[k+1] = s \div pow2[k+1]
      BY <3>1
    <3>3. pow2[k] \in Nat \ {0} /\ pow2[k+1] = 2 * pow2[k]
      BY <3>1, Pow2
    <3>4. x \div 2 = y \div 2
      BY <1>0, <3>2, <3>3, Halve
    <3>5. x % 2 = y % 2
      BY <3>1 DEF Bit
    <3>6. x \in Nat /\ y \in Nat
      BY <1>0, <3>3
    <3>7. x = 2 * (x \div 2) + (x % 2) /\ y = 2 * (y \div 2) + (y % 2)
      <4> HIDE DEF x, y
      <4> QED
        BY <3>6
    <3>8. x = y
      BY <3>4, <3>5, <3>7
    <3> QED
      BY <2>2, <3>8
  <2> QED
    BY <2>3, <2>4
<1>2. r \div pow2[0] = s \div pow2[0]
  <2>1. W \notin Bad /\ W - W = 0
    BY <1>1, WidthAssumption
  <2> QED
    BY <2>1, WidthAssumption
<1> QED
  BY <1>0, <1>2, Pow2

\* The number below a power of two has exactly the bits below that power.
LEMMA MaskBits ==
  ASSUME NEW j \in Nat, NEW k \in Nat
  PROVE  Bit(pow2[j] - 1, k) = IF k < j THEN 1 ELSE 0
<1>1. pow2[j] \in Nat \ {0} /\ pow2[k] \in Nat \ {0}
  BY Pow2
<1>2. CASE k < j
  <2>1. PICK q \in Nat \ {0} : pow2[j] = pow2[k] * (2 * q)
    BY <1>2, Pow2Split
  <2>2. (pow2[k] * (2 * q) - 1) \div pow2[k] = 2 * q - 1
    <3>1. ASSUME NEW p \in Nat \ {0}, NEW n \in Nat \ {0}
          PROVE  (p * n - 1) \div p = n - 1
      OBVIOUS
    <3> QED
      BY <1>1, <3>1
  <2>3. (2 * q - 1) % 2 = 1
    OBVIOUS
  <2> QED
    BY <1>2, <2>1, <2>2, <2>3 DEF Bit
<1>3. CASE ~(k < j)
  <2>1. pow2[j] <= pow2[k]
    <3>1. CASE j = k
      BY <1>1, <3>1
    <3>2. CASE j < k
      BY <1>1, <3>2, Pow2Monotone
    <3> QED
      BY <1>3, <3>1, <3>2
  <2>2. (pow2[j] - 1) \div pow2[k] = 0
    BY <1>1, <2>1
  <2> QED
    BY <1>3, <2>2 DEF Bit
<1> QED
  BY <1>2, <1>3

\* The remainder by a power of two has the bits below that power.
LEMMA RemainderBits ==
  ASSUME NEW i \in Nat, NEW j \in Nat, NEW k \in Nat
  PROVE  Bit(i % pow2[j], k) = IF k < j THEN Bit(i, k) ELSE 0
<1> DEFINE rem == i % pow2[j]
           quo == i \div pow2[j]
<1>1. pow2[j] \in Nat \ {0} /\ pow2[k] \in Nat \ {0}
  BY Pow2
<1>2. rem \in Nat /\ quo \in Nat /\ rem < pow2[j] /\ i = pow2[j] * quo + rem
  <2>1. ASSUME NEW p \in Nat \ {0}
        PROVE  i % p \in Nat /\ i \div p \in Nat /\ i % p < p
    OBVIOUS
  <2>2. ASSUME NEW p \in Nat \ {0} PROVE i = p * (i \div p) + (i % p)
    OBVIOUS
  <2> QED
    BY <1>1, <2>1, <2>2
<1> HIDE DEF rem, quo
<1>3. CASE k < j
  <2>1. PICK q \in Nat \ {0} : pow2[j] = pow2[k] * (2 * q)
    BY <1>3, Pow2Split
  <2>2. i = pow2[k] * (2 * (q * quo)) + rem
    <3>1. ASSUME NEW p \in Nat PROVE (p * (2 * q)) * quo = p * (2 * (q * quo))
      BY <1>2
    <3> QED
      BY <1>1, <1>2, <2>1, <3>1
  <2>3. i \div pow2[k] = 2 * (q * quo) + (rem \div pow2[k])
    <3>1. ASSUME NEW p \in Nat \ {0}, NEW n \in Nat, NEW m \in Nat
          PROVE  (p * n + m) \div p = n + (m \div p)
      OBVIOUS
    <3>2. 2 * (q * quo) \in Nat
      BY <1>2
    <3>3. (pow2[k] * (2 * (q * quo)) + rem) \div pow2[k]
            = 2 * (q * quo) + (rem \div pow2[k])
      BY <1>1, <1>2, <3>1, <3>2, Zenon
    <3> QED
      BY <2>2, <3>3
  <2>4. (2 * (q * quo) + (rem \div pow2[k])) % 2 = (rem \div pow2[k]) % 2
    <3>1. ASSUME NEW n \in Nat, NEW m \in Nat PROVE (2 * n + m) % 2 = m % 2
      OBVIOUS
    <3>2. q * quo \in Nat /\ rem \div pow2[k] \in Nat
      BY <1>1, <1>2
    <3> QED
      BY <3>1, <3>2
  <2> QED
    BY <1>3, <2>3, <2>4 DEF Bit, rem
<1>4. CASE ~(k < j)
  <2>1. pow2[j] <= pow2[k]
    <3>1. CASE j = k
      BY <1>1, <3>1
    <3>2. CASE j < k
      BY <1>1, <3>2, Pow2Monotone
    <3> QED
      BY <1>4, <3>1, <3>2
  <2>2. rem \div pow2[k] = 0
    BY <1>1, <1>2, <2>1
  <2> QED
    BY <1>4, <2>2 DEF Bit, rem
<1> QED
  BY <1>3, <1>4

\* With a power of two as its denominator fast_mod is the remainder.
LEMMA MaskLemma ==
  ASSUME NEW i \in Nat, NEW j \in 0 .. W
  PROVE  fast_mod(i, pow2[j]) = i % pow2[j]
<1> DEFINE n == pow2[j]
           r == i % n
<1> USE WidthAssumption
<1>1. n \in Nat \ {0} /\ pow2[W] \in Nat \ {0} /\ n <= pow2[W]
  <2>1. n \in Nat \ {0} /\ pow2[W] \in Nat \ {0}
    BY Pow2
  <2>2. CASE j = W
    BY <2>1, <2>2
  <2>3. CASE j # W
    <3>1. 2 * n <= pow2[W]
      BY <2>3, Pow2Monotone
    <3> QED
      BY <2>1, <3>1
  <2> QED
    BY <2>1, <2>2, <2>3
<1>2. r \in Usize
  <2>1. i % n \in Nat /\ i % n < n
    BY <1>1
  <2> QED
    BY <1>1, <2>1 DEF Usize, USIZE_MAX
<1>3. \A k \in 0 .. W-1 : Bit(r, k) = Bit(i, k) * Bit(n - 1, k)
  <2> SUFFICES ASSUME NEW k \in 0 .. W-1
               PROVE  Bit(r, k) = Bit(i, k) * Bit(n - 1, k)
    OBVIOUS
  <2>1. Bit(r, k) = IF k < j THEN Bit(i, k) ELSE 0
    BY <1>1, RemainderBits
  <2>2. Bit(n - 1, k) = IF k < j THEN 1 ELSE 0
    BY MaskBits
  <2>3. Bit(i, k) \in {0, 1}
    BY <1>1, BitType
  <2> QED
    BY <2>1, <2>2, <2>3
<1>4. ASSUME NEW s \in Usize,
             \A k \in 0 .. W-1 : Bit(s, k) = Bit(i, k) * Bit(n - 1, k)
      PROVE  s = r
  <2>1. \A k \in 0 .. W-1 : Bit(s, k) = Bit(r, k)
    BY <1>3, <1>4
  <2> HIDE DEF r
  <2> QED
    BY <1>2, <1>4, <2>1, BitsDetermine
<1> HIDE DEF n, r
<1>5. BitAnd(i, n - 1) = r
  BY <1>2, <1>3, <1>4 DEF BitAnd
<1> QED
  BY <1>5 DEF fast_mod, n, r

-----------------------------------------------------------------------------
(* The size of the ring.                                                    *)

\* The least power of two that is enough is less than twice as large.
LEMMA NextPowerOfTwo ==
  ASSUME NEW n \in Nat, 2 <= n, n <= ISIZE_MAX
  PROVE  \E k \in 1 .. W-1 : /\ maybe_next_power_of_two(n) = pow2[k]
                             /\ n <= pow2[k] /\ pow2[k] < 2 * n
<1> USE WidthAssumption
<1> DEFINE T == {k \in Nat : pow2[k] >= n}
<1>1. W-1 \in T
  <2>1. W-1 \in Nat /\ pow2[W-1] \in Nat
    BY Pow2
  <2> QED
    BY <2>1 DEF ISIZE_MAX
<1>2. PICK k \in T : \A m \in T : k <= m
  <2>1. T \subseteq Nat
    OBVIOUS
  <2> HIDE DEF T
  <2> QED
    BY <1>1, <2>1, LeastNat
<1>3. k # 0 /\ k \in 1 .. W-1
  BY <1>1, <1>2, Pow2
<1>4. n <= pow2[k] /\ pow2[k] < 2 * n
  <2>1. k-1 \in Nat /\ k-1 \notin T /\ (k-1)+1 = k
    BY <1>2, <1>3
  <2>2. pow2[k-1] \in Nat /\ pow2[k] = 2 * pow2[k-1]
    BY <2>1, Pow2
  <2> QED
    BY <1>2, <2>1, <2>2
<1> DEFINE S == {p \in {pow2[j] : j \in 0 .. W-1} : p >= n}
<1>5. pow2[k] \in S
  BY <1>2, <1>3
<1>6. ASSUME NEW p \in S PROVE p \in Nat /\ pow2[k] <= p
  <2>1. PICK j \in 0 .. W-1 : p = pow2[j] /\ pow2[j] >= n
    BY <1>6
  <2>2. k <= j
    BY <1>2, <2>1
  <2>3. pow2[j] \in Nat /\ pow2[k] \in Nat
    BY <1>3, <2>1, Pow2
  <2>4. CASE k = j
    BY <2>1, <2>3, <2>4
  <2>5. CASE k < j
    <3>1. 2 * pow2[k] <= pow2[j]
      BY <1>3, <2>1, <2>5, Pow2Monotone
    <3> QED
      BY <2>1, <2>3, <3>1
  <2> QED
    BY <1>3, <2>1, <2>2, <2>4, <2>5
<1>7. Min(S) = pow2[k]
  <2> HIDE DEF S
  <2>1. \A p \in S : (\A q \in S : p <= q) => p = pow2[k]
    BY <1>5, <1>6
  <2> QED
    BY <1>5, <1>6, <2>1 DEF Min
<1> QED
  BY <1>3, <1>4, <1>7 DEF maybe_next_power_of_two

\* Every accepted size gives a ring of 2^k cells, with room to spare below
\* usize::MAX.
RingOK == /\ size <= len /\ len < 2 * size
          /\ \E k \in 1 .. W-1 : len = pow2[k]
          /\ 2 <= len /\ len <= ISIZE_MAX

\* isize::MAX is about half of usize::MAX.
LEMMA HalfRange == /\ USIZE_MAX \in Nat /\ ISIZE_MAX \in Nat
                   /\ USIZE_MAX = 2 * ISIZE_MAX + 1 /\ ISIZE_MAX >= 3
<1>1. W-1 \in Nat /\ (W-1)+1 = W /\ W-2 \in Nat /\ (W-2)+1 = W-1
      /\ W-3 \in Nat /\ (W-3)+1 = W-2
  BY WidthAssumption
<1>2. pow2[W-1] \in Nat /\ pow2[W] = 2 * pow2[W-1]
  BY <1>1, Pow2
<1>3. pow2[W-1] = 2 * pow2[W-2] /\ pow2[W-2] = 2 * pow2[W-3]
      /\ pow2[W-3] \in Nat \ {0}
  BY <1>1, Pow2
<1> QED
  BY <1>2, <1>3 DEF USIZE_MAX, ISIZE_MAX

\* In such a ring the cell of an id is its remainder, whatever the id.
LEMMA RingMask ==
  ASSUME RingOK, len \in Nat, NEW i \in Nat
  PROVE  fast_mod(i, len) = i % len
<1>1. PICK k \in 1 .. W-1 : len = pow2[k]
  BY DEF RingOK
<1>2. k \in 0 .. W
  BY WidthAssumption
<1> QED
  BY <1>1, <1>2, MaskLemma

-----------------------------------------------------------------------------
(* Remainders.                                                              *)

\* Two ids less than a lap apart have different cells.
LEMMA RemainderDistinct ==
  ASSUME NEW n \in Nat \ {0}, NEW a \in Nat, NEW b \in Nat, a < b, b < a + n
  PROVE  a % n # b % n
<1> SUFFICES ASSUME a % n = b % n PROVE FALSE
  OBVIOUS
<1> DEFINE p == a \div n
           q == b \div n
<1>1. p \in Nat /\ a = n * p + (a % n) /\ a % n \in Nat
  OBVIOUS
<1>2. q \in Nat /\ b = n * q + (b % n)
  OBVIOUS
<1> HIDE DEF p, q
<1>3. b - a = n * (q - p)
  BY <1>1, <1>2
<1>4. ASSUME NEW d \in Int, 0 < n * d, n * d < n PROVE FALSE
  BY <1>4
<1>5. q - p \in Int /\ 0 < n * (q - p) /\ n * (q - p) < n
  BY <1>1, <1>2, <1>3
<1> QED
  BY <1>4, <1>5

\* Ids exactly a lap apart share their cell.
LEMMA RemainderLap ==
  ASSUME NEW n \in Nat \ {0}, NEW a \in Nat
  PROVE  (a + n) % n = a % n
<1>1. a \div n \in Nat /\ a = n * (a \div n) + (a % n) /\ a % n \in 0 .. n-1
  OBVIOUS
<1>2. a + n = n * ((a \div n) + 1) + (a % n) /\ (a \div n) + 1 \in Nat
  BY <1>1
<1>3. ASSUME NEW x \in Nat, NEW q \in Nat, NEW r \in 0 .. n-1, x = n * q + r
      PROVE  r = x % n
  BY <1>3
<1>4. a + n \in Nat
  OBVIOUS
<1> QED
  BY <1>1, <1>2, <1>3, <1>4, Zenon

\* Every cell of a ring has one of the ids from 1 to its length.
LEMMA RemainderOnto ==
  ASSUME NEW n \in Nat \ {0}, NEW c \in 0 .. n-1
  PROVE  \E i \in 1 .. n : i % n = c
<1>1. CASE c = 0
  <2>1. n % n = 0 /\ n \in 1 .. n
    OBVIOUS
  <2> QED
    BY <1>1, <2>1
<1>2. CASE c # 0
  <2>1. c % n = c /\ c \in 1 .. n
    BY <1>2
  <2> QED
    BY <2>1
<1> QED
  BY <1>1, <1>2

-----------------------------------------------------------------------------
(* The inductive invariant.                                                 *)

\* The head and the cursor are the ids after those used, and they do not wrap.
IdInv == /\ write_head = sent + 1 /\ cursor = received + 1
         /\ InOrder /\ sent < USIZE_MAX

\* The receiver keeps the cell of the message it read last, and only that one,
\* and the messages it has not read are less than a lap.
KeepInv == /\ previous_cell_index = received % len
           /\ \A c \in Cells :
                read_counter[c] = IF c = received % len THEN 1 ELSE 0
           /\ sent < received + len

\* The messages of the last lap are in their cells, and a cell that carries
\* the mark of a new one has had no message.
RingInv == /\ \A i \in 1 .. sent : sent < i + len =>
                current_id[i % len] = i /\ value[i % len] = i
           /\ \A c \in Cells :
                \/ current_id[c] \in 1 .. sent
                \/ /\ current_id[c] = USIZE_MAX
                   /\ \A i \in 1 .. sent : i % len # c

\* No channel, no messages.
NewInv == /\ sent = 0 /\ received = 0 /\ result = "none"
          /\ previous_cell_index = 0

WInv == /\ TypeOK
        /\ IdInv
        /\ made # "ok" => NewInv
        /\ made = "ok" => RingOK /\ KeepInv /\ RingInv /\ FullAtCapacity

\* What the types say of an open channel.
LEMMA OpenTypes ==
  ASSUME WInv, made = "ok"
  PROVE  /\ len \in Nat \ {0} /\ 2 <= len /\ 2 * len < USIZE_MAX
         /\ USIZE_MAX \in Nat /\ pow2[W] = USIZE_MAX + 1
         /\ sent \in Nat /\ received \in Nat
         /\ \A i \in Nat : i % len \in Cells
         /\ \A i \in Nat : fast_mod(i, len) = i % len
<1>1. len \in Nat \ {0} /\ 2 <= len /\ len <= ISIZE_MAX
  BY HalfRange DEF WInv, TypeOK, RingOK, Usize
<1>2. USIZE_MAX \in Nat /\ pow2[W] = USIZE_MAX + 1
  <2>1. pow2[W] \in Nat
    BY Pow2, WidthAssumption
  <2> QED
    BY <2>1, HalfRange DEF USIZE_MAX
<1>3. 2 * len < USIZE_MAX
  BY <1>1, HalfRange
<1>4. \A i \in Nat : i % len \in Cells
  BY <1>1 DEF Cells
<1>5. \A i \in Nat : fast_mod(i, len) = i % len
  BY <1>1, RingMask DEF WInv
<1> QED
  BY <1>1, <1>2, <1>3, <1>4, <1>5 DEF WInv, TypeOK

\* An id that is found published was sent and its message is there: the mark
\* of a new cell is not taken for an id.
LEMMA PublishedWasSent ==
  ASSUME WInv, made = "ok", NEW i \in 0 .. len-1, Published(i)
  PROVE  /\ cursor + i <= sent
         /\ value[(cursor + i) % len] = cursor + i
<1> DEFINE x == cursor + i
<1>1. /\ len \in Nat \ {0} /\ 2 <= len /\ 2 * len < USIZE_MAX
      /\ USIZE_MAX \in Nat /\ pow2[W] = USIZE_MAX + 1
      /\ sent \in Nat /\ received \in Nat
      /\ \A j \in Nat : j % len \in Cells
      /\ \A j \in Nat : fast_mod(j, len) = j % len
  BY OpenTypes
<1>2. cursor = received + 1 /\ received <= sent /\ sent < USIZE_MAX
      /\ sent < received + len
  BY DEF WInv, IdInv, InOrder, KeepInv
<1>3. x \in Nat /\ x >= 1
  BY <1>1, <1>2
<1> DEFINE c == x % len
<1>4. fast_mod(x, len) = c
  BY <1>1, <1>3
<1>5. c \in Cells /\ current_id[c] = x
  BY <1>1, <1>3, <1>4 DEF Published, CellAt
<1>6. x <= sent \/ x = USIZE_MAX
  BY <1>1, <1>5 DEF WInv, RingInv
<1>7. x # USIZE_MAX \/ x <= sent
  <2> SUFFICES ASSUME x = USIZE_MAX, x > sent PROVE FALSE
    BY <1>1, <1>3
  <2>1. len <= sent
    BY <1>1, <1>2
  <2>2. PICK j \in 1 .. len : j % len = c
    BY <1>1, <1>5, RemainderOnto DEF Cells
  <2>3. j \in 1 .. sent
    BY <1>1, <2>1
  <2> HIDE DEF c
  <2>4. current_id[c] \in 1 .. sent
    BY <1>5, <2>2, <2>3 DEF WInv, RingInv
  <2> QED
    BY <1>1, <1>5, <2>4
<1>8. x <= sent
  BY <1>6, <1>7
<1>9. x \in 1 .. sent /\ sent < x + len
  BY <1>1, <1>2, <1>3, <1>8
<1> HIDE DEF x
<1>10. value[x % len] = x
  BY <1>9 DEF WInv, RingInv
<1> QED
  BY <1>8, <1>10 DEF x

\* Making the channel, or failing to.
LEMMA MakeStep ==
  ASSUME WInv, MakeChannel
  PROVE  WInv'
<1> DEFINE n == IF size \in 2 .. ISIZE_MAX THEN maybe_next_power_of_two(size)
                                           ELSE 0
<1>1. /\ size' = size /\ write_head' = write_head /\ cursor' = cursor
      /\ previous_cell_index' = previous_cell_index /\ result' = result
      /\ sent' = sent /\ received' = received /\ last' = last
      /\ made = "none" /\ made' = Outcome(n)
      /\ len' = IF made' = "ok" THEN n ELSE 0
      /\ current_id'   = [c \in 0 .. len'-1 |-> USIZE_MAX]
      /\ read_counter' = [c \in 0 .. len'-1 |-> IF c = 0 THEN 1 ELSE 0]
      /\ value'        = [c \in 0 .. len'-1 |-> 0]
  BY DEF MakeChannel
<1>2. size \in Nat /\ USIZE_MAX \in Nat /\ ISIZE_MAX \in Nat
      /\ USIZE_MAX = 2 * ISIZE_MAX + 1 /\ ISIZE_MAX >= 3
  BY HalfRange DEF WInv, TypeOK, Usize
<1>3. NewInv /\ NewInv' /\ IdInv /\ IdInv'
  BY <1>1 DEF WInv, NewInv, IdInv, InOrder
<1>4. previous_cell_index = 0
  BY <1>3 DEF NewInv
<1>5. ASSUME made' = "ok" PROVE n \in Nat /\ RingOK'
  <2>2. size \in 2 .. ISIZE_MAX /\ ~(n > ISIZE_MAX)
    BY <1>1, <1>2, <1>5 DEF Outcome
  <2>3. PICK k \in 1 .. W-1 : n = pow2[k] /\ size <= pow2[k]
                              /\ pow2[k] < 2 * size
    BY <1>2, <2>2, NextPowerOfTwo
  <2>4. pow2[k] \in Nat
    BY Pow2, WidthAssumption
  <2> HIDE DEF n
  <2> QED
    BY <1>1, <1>2, <1>5, <2>2, <2>3, <2>4 DEF RingOK
<1> HIDE DEF n
<1>6. len' \in Nat /\ len' <= ISIZE_MAX
  BY <1>1, <1>2, <1>5 DEF RingOK
<1>7. made' \in {"ok", "too_small", "too_large", "panic"}
  BY <1>1 DEF Outcome
<1>8. TypeOK'
  <2>1. current_id' \in [Cells' -> Usize'] /\ value' \in [Cells' -> Nat]
        /\ read_counter' \in [Cells' -> 0 .. 1]
    BY <1>1, <1>2, <1>6 DEF Cells, Usize
  <2>2. len' \in Usize /\ size' \in Usize
    BY <1>1, <1>2, <1>6 DEF Usize, WInv, TypeOK
  <2> QED
    BY <1>1, <1>7, <2>1, <2>2 DEF WInv, TypeOK, Usize
<1>9. ASSUME made' = "ok" PROVE KeepInv' /\ RingInv' /\ FullAtCapacity'
  <2>1. len' \in Nat \ {0} /\ 2 <= len' /\ 0 % len' = 0
    <3>1. len' \in Nat \ {0} /\ 2 <= len'
      BY <1>5, <1>6, <1>9 DEF RingOK
    <3>2. \A m \in Nat \ {0} : 0 % m = 0
      OBVIOUS
    <3> QED
      BY <3>1, <3>2
  <2>2. KeepInv'
    BY <1>1, <1>3, <1>4, <2>1 DEF KeepInv, NewInv, Cells
  <2>3. RingInv'
    BY <1>1, <1>3, <2>1 DEF RingInv, NewInv, Cells
  <2>4. FullAtCapacity'
    BY <1>3 DEF FullAtCapacity, NewInv
  <2> QED
    BY <2>2, <2>3, <2>4
<1> QED
  BY <1>3, <1>5, <1>8, <1>9 DEF WInv

\* What was received stays in order when only more is sent.
LEMMA StillInOrder ==
  ASSUME InOrder, UNCHANGED <<received, last>>, received \in Nat,
         sent \in Nat, sent' \in Nat, sent <= sent'
  PROVE  InOrder'
<1>1. received' <= sent'
  BY DEF InOrder
<1>2. \E k \in 0 .. received : last = [i \in 1 .. k |-> received - k + i]
  BY DEF InOrder
<1>3. \E k \in 0 .. received' : last' = [i \in 1 .. k |-> received' - k + i]
  BY <1>2, Zenon
<1> QED
  BY <1>1, <1>3 DEF InOrder

\* A number is its own remainder by a larger one.
LEMMA SmallRemainder ==
  ASSUME NEW x \in Nat, NEW p \in Nat, x < p
  PROVE  x % p = x
  OBVIOUS

\* Sending, or finding the channel full.
LEMMA SendStep ==
  ASSUME WInv, TrySend
  PROVE  WInv'
<1> DEFINE id == write_head
           c  == fast_mod(id, len)
<1>0. /\ made = "ok" /\ size' = size /\ made' = made /\ len' = len
      /\ cursor' = cursor /\ previous_cell_index' = previous_cell_index
      /\ received' = received /\ last' = last
  BY DEF TrySend
<1>1. /\ len \in Nat \ {0} /\ 2 <= len /\ 2 * len < USIZE_MAX
      /\ USIZE_MAX \in Nat /\ pow2[W] = USIZE_MAX + 1
      /\ sent \in Nat /\ received \in Nat
      /\ \A i \in Nat : i % len \in Cells
      /\ \A i \in Nat : fast_mod(i, len) = i % len
  BY <1>0, OpenTypes
<1>2. /\ id = sent + 1 /\ cursor = received + 1
      /\ received <= sent /\ sent < USIZE_MAX /\ sent < received + len
  BY <1>0 DEF WInv, IdInv, InOrder, KeepInv
<1>3. id \in Usize /\ id \in Nat /\ c = id % len /\ c \in Cells
  BY <1>1, <1>2 DEF Usize
<1>4. Cells' = Cells /\ (RingOK => RingOK')
  BY <1>0 DEF Cells, RingOK
<1>5. CASE Taken \/ read_counter[c] # 0
  <2>1. result' = "full" /\ UNCHANGED <<channel, sent>>
    BY <1>5 DEF TrySend
  <2>2. UNCHANGED <<write_head, current_id, read_counter, value, sent>>
    BY <2>1 DEF channel
  <2>3. FullAtCapacity'
    <3>1. CASE Taken
      BY <1>0, <1>1, <1>2, <2>1, <3>1 DEF Taken, TAKEN, FullAtCapacity
    <3>2. CASE read_counter[c] # 0
      <4>1. c = received % len
        BY <1>0, <1>3, <3>2 DEF WInv, KeepInv
      <4>2. ~(id < received + len)
        <5>1. received < id /\ received % len = id % len
          BY <1>1, <1>2, <1>3, <4>1
        <5> HIDE DEF id, c
        <5> QED
          BY <1>1, <1>3, <5>1, RemainderDistinct
      <4> QED
        BY <1>0, <1>1, <1>2, <2>2, <4>2 DEF FullAtCapacity
    <3> QED
      BY <1>5, <3>1, <3>2
  <2>4. TypeOK' /\ IdInv'
    BY <1>0, <1>4, <2>1, <2>2 DEF WInv, TypeOK, IdInv, InOrder
  <2>5. KeepInv' /\ RingInv'
    BY <1>0, <1>4, <2>2 DEF WInv, KeepInv, RingInv
  <2> QED
    BY <1>0, <1>4, <2>3, <2>4, <2>5 DEF WInv
<1>6. CASE ~Taken /\ read_counter[c] = 0
  <2>1. /\ result' = "ok" /\ sent' = sent + 1
        /\ write_head' = wrapping_add(id, 1)
        /\ value'      = [value EXCEPT ![c] = sent + 1]
        /\ current_id' = [current_id EXCEPT ![c] = id]
        /\ read_counter' = read_counter
    BY <1>6 DEF TrySend
  <2>2. sent + 1 < USIZE_MAX
    BY <1>1, <1>2, <1>6 DEF Taken, TAKEN
  <2>3. write_head' = sent' + 1
    BY <1>1, <1>2, <2>1, <2>2 DEF wrapping_add
  <2>4. sent' < received + len
    <3>1. c # received % len
      BY <1>0, <1>3, <1>6 DEF WInv, KeepInv
    <3>2. (received + len) % len = received % len
      BY <1>1, RemainderLap
    <3>3. id # received + len
      BY <1>3, <3>1, <3>2
    <3> QED
      BY <1>1, <1>2, <2>1, <3>3
  <2>5. current_id \in [Cells -> Usize] /\ value \in [Cells -> Nat]
    BY DEF WInv, TypeOK
  <2>6. TypeOK'
    <3>1. current_id' \in [Cells -> Usize] /\ value' \in [Cells -> Nat]
      BY <1>1, <1>3, <2>1, <2>5
    <3>2. write_head' \in Usize /\ sent' \in Nat
      BY <1>1, <2>1, <2>2, <2>3 DEF Usize
    <3> QED
      BY <1>0, <1>4, <2>1, <3>1, <3>2 DEF WInv, TypeOK
  <2>7. IdInv'
    <3>1. InOrder'
      BY <1>0, <1>1, <1>2, <2>1, StillInOrder DEF WInv, IdInv
    <3> QED
      BY <1>0, <1>1, <1>2, <2>1, <2>2, <2>3, <3>1 DEF IdInv
  <2>8. KeepInv'
    BY <1>0, <1>4, <2>1, <2>4 DEF WInv, KeepInv
  <2>9. ASSUME NEW i \in 1 .. sent', sent' < i + len
        PROVE  current_id'[i % len] = i /\ value'[i % len] = i
    <3>1. CASE i = id
      BY <1>2, <1>3, <2>1, <2>5, <3>1
    <3>2. CASE i # id
      <4>1. i \in Nat /\ i \in 1 .. sent /\ i < id /\ id < i + len
        BY <1>1, <1>2, <2>1, <2>9, <3>2
      <4>2. i % len # c /\ i % len \in Cells
        BY <1>1, <1>3, <4>1, RemainderDistinct
      <4>3. current_id[i % len] = i /\ value[i % len] = i
        BY <1>0, <1>1, <1>2, <4>1 DEF WInv, RingInv
      <4> HIDE DEF c, id
      <4> QED
        BY <2>1, <2>5, <4>2, <4>3
    <3> QED
      BY <3>1, <3>2
  <2>10. ASSUME NEW d \in Cells
         PROVE  \/ current_id'[d] \in 1 .. sent'
                \/ /\ current_id'[d] = USIZE_MAX
                   /\ \A i \in 1 .. sent' : i % len # d
    <3>1. CASE d = c
      <4>1. current_id'[d] = sent + 1
        BY <1>2, <1>3, <2>1, <2>5, <3>1
      <4> QED
        BY <1>1, <2>1, <4>1
    <3>2. CASE d # c
      <4>1. current_id'[d] = current_id[d]
        BY <2>1, <2>5, <3>2
      <4>2. \A i \in 1 .. sent' : i \in 1 .. sent \/ i = id
        BY <1>1, <1>2, <2>1
      <4>3. 1 .. sent \subseteq 1 .. sent'
        BY <1>1, <2>1
      <4> QED
        BY <1>0, <1>3, <3>2, <4>1, <4>2, <4>3 DEF WInv, RingInv
    <3> QED
      BY <3>1, <3>2
  <2>11. RingInv'
    BY <1>0, <1>4, <2>9, <2>10 DEF RingInv
  <2>12. FullAtCapacity'
    BY <2>1 DEF FullAtCapacity
  <2> QED
    BY <1>0, <1>4, <2>6, <2>7, <2>8, <2>11, <2>12 DEF WInv
<1> QED
  BY <1>5, <1>6

\* Receiving k messages.  The new cursor is the sum if that is a usize, which
\* is for the proof to show.
LEMMA ReceiveStep ==
  ASSUME WInv, made = "ok", NEW k \in 1 .. len-1,
         \A i \in 0 .. k-1 : Published(i),
         NEW next, Receive(k, next), cursor + k <= USIZE_MAX => next = cursor + k
  PROVE  WInv'
<1> DEFINE c == (received + k) % len
<1>1. /\ len \in Nat \ {0} /\ 2 <= len /\ 2 * len < USIZE_MAX
      /\ USIZE_MAX \in Nat /\ pow2[W] = USIZE_MAX + 1
      /\ sent \in Nat /\ received \in Nat
      /\ \A i \in Nat : i % len \in Cells
      /\ \A i \in Nat : fast_mod(i, len) = i % len
  BY OpenTypes
<1>2. /\ write_head = sent + 1 /\ cursor = received + 1
      /\ received <= sent /\ sent < USIZE_MAX /\ sent < received + len
      /\ previous_cell_index = received % len
  BY DEF WInv, IdInv, InOrder, KeepInv
<1>3. ASSUME NEW i \in 0 .. k-1
      PROVE  /\ cursor + i <= sent
             /\ CellAt(i) = (cursor + i) % len
             /\ value[CellAt(i)] = cursor + i
  <2>1. i \in 0 .. len-1 /\ Published(i)
    BY <1>1
  <2>2. cursor + i <= sent /\ value[(cursor + i) % len] = cursor + i
    BY <2>1, PublishedWasSent
  <2>3. cursor + i \in Nat
    BY <1>1, <1>2
  <2> QED
    BY <1>1, <2>2, <2>3 DEF CellAt
<1>4. k-1 \in 0 .. k-1 /\ cursor + (k-1) = received + k
  BY <1>1, <1>2
<1>5. received + k <= sent /\ CellAt(k-1) = c
  BY <1>3, <1>4
<1>6. received + k \in Nat /\ c \in Cells /\ received % len \in Cells
      /\ c # received % len
  <2>1. received + k \in Nat /\ c \in Cells /\ received % len \in Cells
    BY <1>1
  <2>2. received < received + k /\ received + k < received + len
    BY <1>1
  <2> QED
    BY <1>1, <2>1, <2>2, RemainderDistinct
<1> HIDE DEF c
<1>7. /\ last' = [i \in 1 .. k |-> value[CellAt(i-1)]]
      /\ read_counter' = [read_counter EXCEPT ![c] = @ + 1,
                                              ![received % len] = @ - 1]
      /\ previous_cell_index' = c /\ received' = received + k
      /\ cursor' = next /\ result' = "none"
      /\ UNCHANGED <<size, made, len, write_head, current_id, value, sent>>
  BY <1>2, <1>5 DEF Receive
<1>8. Cells' = Cells /\ (RingOK => RingOK') /\ (RingInv => RingInv')
  BY <1>7 DEF Cells, RingOK, RingInv
<1>9. cursor' = received' + 1
  <2>1. cursor + k <= USIZE_MAX /\ cursor + k = received' + 1
    BY <1>1, <1>2, <1>5, <1>7
  <2> QED
    BY <1>7, <2>1
<1>10. \A d \in Cells : read_counter'[d] = IF d = c THEN 1 ELSE 0
  <2>1. \A d \in Cells : read_counter[d] = IF d = received % len THEN 1 ELSE 0
    BY DEF WInv, KeepInv
  <2>2. read_counter \in [Cells -> 0 .. 1]
    BY DEF WInv, TypeOK
  <2> QED
    BY <1>6, <1>7, <2>1, <2>2
<1>11. last' = [i \in 1 .. k |-> received' - k + i]
  <2>1. ASSUME NEW i \in 1 .. k PROVE value[CellAt(i-1)] = received' - k + i
    <3>1. i-1 \in 0 .. k-1 /\ cursor + (i-1) = received' - k + i
      BY <1>1, <1>2, <1>7
    <3> QED
      BY <1>3, <3>1
  <2> QED
    BY <1>7, <2>1
<1>12. TypeOK'
  <2>1. read_counter' \in [Cells -> 0 .. 1]
    <3>0. read_counter \in [Cells -> 0 .. 1]
      BY DEF WInv, TypeOK
    <3>1. read_counter' \in [Cells -> Int]
      BY <1>6, <1>7, <3>0
    <3> QED
      BY <1>10, <3>1
  <2>2. cursor' \in Usize /\ previous_cell_index' \in Usize
    <3>1. c \in Usize
      BY <1>1, <1>6 DEF Cells, Usize
    <3>2. cursor' \in Nat /\ cursor' <= USIZE_MAX
      <4>1. cursor' = received + k + 1 /\ received + k <= sent
        BY <1>5, <1>7, <1>9
      <4>2. received + k \in Nat /\ sent \in Nat /\ sent < USIZE_MAX
        BY <1>1, <1>2, <1>6
      <4> HIDE DEF c
      <4> QED
        BY <1>1, <4>1, <4>2
    <3> QED
      BY <1>1, <1>7, <3>1, <3>2 DEF Usize
  <2>3. received' \in Nat /\ last' \in Seq(Nat)
    <3>1. \A i \in 1 .. k : received' - k + i \in Nat
      BY <1>1, <1>7
    <3>2. k \in Nat /\ received' \in Nat
      BY <1>6, <1>7
    <3>3. last' \in [1 .. k -> Nat]
      BY <1>11, <3>1
    <3> QED
      BY <3>2, <3>3, SeqDef
  <2> QED
    BY <1>7, <1>8, <2>1, <2>2, <2>3 DEF WInv, TypeOK
<1>13. IdInv'
  <2>1. k \in 0 .. received' /\ received' <= sent'
    BY <1>1, <1>5, <1>7
  <2>2. InOrder'
    BY <1>11, <2>1 DEF InOrder
  <2> QED
    BY <1>2, <1>7, <1>9, <2>2 DEF IdInv
<1>14. KeepInv'
  <2>1. received' % len = c
    BY <1>7 DEF c
  <2>2. sent < received' + len
    BY <1>1, <1>2, <1>7
  <2> QED
    BY <1>7, <1>8, <1>10, <2>1, <2>2 DEF KeepInv
<1>15. FullAtCapacity'
  BY <1>7 DEF FullAtCapacity
<1> QED
  BY <1>7, <1>8, <1>12, <1>13, <1>14, <1>15 DEF WInv

-----------------------------------------------------------------------------
(***************************************************************************)
(* WInv holds in every reachable state, for a usize of any width from 3    *)
(* bits on and every requested size.                                       *)
(***************************************************************************)
THEOREM WordInductive == Spec => []WInv
<1>1. Init => WInv
  <2> SUFFICES ASSUME Init PROVE WInv
    OBVIOUS
  <2>1. len = 0 /\ Cells = {}
    BY DEF Init, Cells
  <2>2. current_id \in [Cells -> Usize] /\ value \in [Cells -> Nat]
        /\ read_counter \in [Cells -> 0 .. 1]
    BY <2>1 DEF Init
  <2>3. InOrder /\ last \in Seq(Nat)
    <3>1. last = <<>> /\ received = 0 /\ sent = 0 /\ 0 \in 0 .. received
      BY DEF Init
    <3>2. <<>> = [i \in 1 .. 0 |-> received - 0 + i]
      OBVIOUS
    <3> QED
      BY <3>1, <3>2 DEF InOrder
  <2> QED
    BY <2>1, <2>2, <2>3, HalfRange
       DEF Init, WInv, TypeOK, IdInv, NewInv, Usize
<1>2. ASSUME WInv, TryRecv PROVE WInv'
  <2>1. len \in Nat \ {0} /\ 2 <= len
    BY <1>2, OpenTypes DEF TryRecv
  <2>2. 1 \in 1 .. len-1
    BY <2>1
  <2>3. \A i \in 0 .. 1-1 : Published(i)
    BY <1>2 DEF TryRecv
  <2>4. cursor + 1 <= USIZE_MAX => wrapping_add(cursor, 1) = cursor + 1
    <3>1. cursor \in Nat /\ pow2[W] = USIZE_MAX + 1 /\ USIZE_MAX \in Nat
      BY <1>2, OpenTypes DEF TryRecv, WInv, TypeOK, Usize
    <3>2. cursor + 1 <= USIZE_MAX => cursor + 1 < pow2[W]
      BY <3>1
    <3> QED
      BY <3>1, <3>2, SmallRemainder DEF wrapping_add
  <2> QED
    BY <1>2, <2>2, <2>3, <2>4, ReceiveStep DEF TryRecv
<1>3. ASSUME WInv, TryRecvBatch PROVE WInv'
  <2>1. len \in Nat \ {0} /\ 2 <= len
    BY <1>3, OpenTypes DEF TryRecvBatch
  <2>2. PICK m \in BatchSizes \ {0} : \E k \in 1 .. Min({m, len - 1}) :
               LoopReads(k, Min({m, len - 1})) /\ Receive(k, cursor + k)
    BY <1>3 DEF TryRecvBatch
  <2>3. PICK k \in 1 .. Min({m, len - 1}) :
               LoopReads(k, Min({m, len - 1})) /\ Receive(k, cursor + k)
    BY <2>2
  <2>4. Min({m, len - 1}) \in Nat /\ Min({m, len - 1}) <= len - 1
    <3>1. m \in Nat
      BY BatchAssumption
    <3>2. \E x \in {m, len - 1} : \A y \in {m, len - 1} : x =< y
      BY <2>1, <3>1
    <3> QED
      BY <2>1, <3>1, <3>2 DEF Min
  <2>5. k \in 1 .. len-1
    BY <2>1, <2>4
  <2>6. \A i \in 0 .. k-1 : Published(i)
    BY <2>3 DEF LoopReads
  <2> QED
    BY <1>3, <2>3, <2>5, <2>6, ReceiveStep DEF TryRecvBatch
<1>4. WInv /\ UNCHANGED vars => WInv'
  <2> SUFFICES ASSUME WInv, UNCHANGED vars PROVE WInv'
    OBVIOUS
  <2>1. InOrder'
    BY StillInOrder DEF WInv, TypeOK, IdInv, vars
  <2> QED
    BY <2>1 DEF WInv, TypeOK, IdInv, NewInv, RingOK, KeepInv, RingInv,
         FullAtCapacity, Cells, vars, channel
<1>5. WInv /\ [Next]_vars => WInv'
  BY <1>2, <1>3, <1>4, MakeStep, SendStep DEF Next
<1> QED
  BY <1>1, <1>5, PTL DEF Spec

(***************************************************************************)
(* Types, in particular that head, cursor and indices stay within a usize. *)
(***************************************************************************)
THEOREM WordTypeCorrect == Spec => []TypeOK
<1>1. WInv => TypeOK
  BY DEF WInv
<1> QED
  BY <1>1, WordInductive, PTL

(***************************************************************************)
(* fast_mod is the remainder in every ring that make_channel builds, and   *)
(* the ring has at least the requested size and less than twice as much.   *)
(***************************************************************************)
THEOREM MaskCorrect == Spec => []MaskIsRemainder
<1>1. WInv => MaskIsRemainder
  BY OpenTypes DEF WInv, MaskIsRemainder, RingOK, Usize
<1> QED
  BY <1>1, WordInductive, PTL

(***************************************************************************)
(* Messages are received in the order of sending up to the last id.        *)
(***************************************************************************)
THEOREM OrderCorrect == Spec => []InOrder
<1>1. WInv => InOrder
  BY DEF WInv, IdInv
<1> QED
  BY <1>1, WordInductive, PTL

(***************************************************************************)
(* No sum that try_recv_batch computes exceeds a usize: neither cursor + i *)
(* in its loop nor cursor += num_read for the longest batch there is.      *)
(***************************************************************************)
THEOREM BatchCorrect == Spec => []BatchInRange
<1>1. WInv => BatchInRange
  <2> SUFFICES ASSUME WInv, made = "ok", NEW k \in 0 .. len - 1,
                      \A i \in 0 .. k-1 : Published(i)
               PROVE  cursor + k <= USIZE_MAX
    BY DEF BatchInRange
  <2>1. /\ len \in Nat \ {0} /\ USIZE_MAX \in Nat
        /\ sent \in Nat /\ received \in Nat
    BY OpenTypes
  <2>2. cursor = received + 1 /\ received <= sent /\ sent < USIZE_MAX
    BY DEF WInv, IdInv, InOrder
  <2>3. CASE k = 0
    BY <2>1, <2>2, <2>3
  <2>4. CASE k # 0
    <3>1. k-1 \in 0 .. k-1 /\ k-1 \in 0 .. len-1
      BY <2>1, <2>4
    <3>2. cursor + (k-1) <= sent
      BY <3>1, PublishedWasSent
    <3> QED
      BY <2>1, <2>2, <3>1, <3>2
  <2> QED
    BY <2>3, <2>4
<1> QED
  BY <1>1, WordInductive, PTL

(***************************************************************************)
(* While ids last, try_send fails only if len - 1 messages are unread.     *)
(***************************************************************************)
THEOREM CapacityCorrect == Spec => []FullAtCapacity
<1>1. WInv => FullAtCapacity
  BY DEF WInv, NewInv, FullAtCapacity
<1> QED
  BY <1>1, WordInductive, PTL
=============================================================================
