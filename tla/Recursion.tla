------------------------------ MODULE Recursion ------------------------------
(***************************************************************************)
(* Induction on numbers, and the solutions of recursive definitions.  A    *)
(* recursive function, and so a fold, means the solution of its equation;  *)
(* before it can be reasoned about, one must be shown to exist.  The step  *)
(* of the recursion is given as a function h.                              *)
(***************************************************************************)
EXTENDS Integers, SequencesExt, WellFoundedInduction, TLAPS

\* A set of numbers that is not empty has a least element.
LEMMA LeastElement ==
  ASSUME NEW S, S \subseteq Nat, S # {}
  PROVE  \E n \in S : \A k \in S : n <= k
<1> DEFINE R == {s \in Nat \X Nat : s[1] < s[2]}
<1>1. IsWellFoundedOn(R, Nat)
  BY NatLessThanWellFounded DEF OpToRel
<1>2. PICK n \in S : \A k \in S : <<k, n>> \notin R
  BY <1>1, WFMin
<1>3. ASSUME NEW k \in S
      PROVE  n <= k
  <2>1. <<k, n>> \in Nat \X Nat /\ <<k, n>> \notin R
    BY <1>2
  <2>2. ~(<<k, n>>[1] < <<k, n>>[2])
    BY <2>1
  <2> QED
    BY <2>2
<1> QED
  BY <1>3

\* Induction up to n, the induction hypothesis given as a set.
LEMMA Induction ==
  ASSUME NEW S, NEW n \in Nat, 0 \in S, \A m \in 0 .. n - 1 : m \in S => m + 1 \in S
  PROVE  \A m \in 0 .. n : m \in S
<1> DEFINE Bad == {m \in 0 .. n : m \notin S}
<1> SUFFICES ASSUME Bad # {} PROVE FALSE
  OBVIOUS
<1>1. PICK m \in Bad : \A k \in Bad : m <= k
  <2>1. Bad \subseteq Nat
    OBVIOUS
  <2> HIDE DEF Bad
  <2> QED
    BY <2>1, LeastElement
<1>2. m # 0 /\ m - 1 \in 0 .. n - 1
  BY <1>1
<1>3. m - 1 \in S
  BY <1>1, <1>2
<1> QED
  BY <1>1, <1>2, <1>3

\* A set of numbers below a bound has a greatest element.
LEMMA Greatest ==
  ASSUME NEW n \in Nat, NEW s \in SUBSET (1 .. n), s # {}
  PROVE  Max(s) \in s /\ \A y \in s : Max(s) >= y
<1> DEFINE R == {n - x : x \in s}
<1>1. \A x \in s : x \in Int /\ n - x \in Nat /\ n - x \in R
  OBVIOUS
<1>2. R \subseteq Nat /\ R # {}
  BY <1>1
<1>3. PICK z \in R : \A y \in R : z <= y
  <2> HIDE DEF R
  <2> QED
    BY <1>2, LeastElement
<1>4. PICK x \in s : z = n - x
  OBVIOUS
<1>5. \A y \in s : x >= y
  <2> HIDE DEF R
  <2> TAKE y \in s
  <2>1. n - x <= n - y /\ x \in Int /\ y \in Int
    BY <1>1, <1>3, <1>4
  <2> QED
    BY <2>1
<1> QED
  BY <1>5 DEF Max

LEMMA GreatestOfPrefix ==
  ASSUME NEW m \in Nat \ {0}
  PROVE  Max(1 .. m) = m /\ (1 .. m) \ {m} = 1 .. m - 1
<1> DEFINE s == 1 .. m
<1>1. m \in Nat /\ s \in SUBSET (1 .. m) /\ s # {} /\ m \in s
  OBVIOUS
<1>2. Max(s) \in s /\ Max(s) >= m
  <2> HIDE DEF s
  <2> QED
    BY <1>1, Greatest
<1> QED
  BY <1>2

-----------------------------------------------------------------------------
(* Recursion on numbers *)

\* The step h stays in T up to n, and f is the solution that starts with b.
StepsIn(T, n, h) == \A m \in 1 .. n, x \in T : h[<<m, x>>] \in T
Recurs(f, n, b, h) == f[0] = b /\ \A m \in 1 .. n : f[m] = h[<<m, f[m - 1]>>]

LEMMA RecursionExists ==
  ASSUME NEW T, NEW b \in T, NEW n \in Nat, NEW h, StepsIn(T, n, h)
  PROVE  \E f \in [0 .. n -> T] : Recurs(f, n, b, h)
<1> USE DEF StepsIn, Recurs
<1> DEFINE Solves(f, k) == /\ f \in [0 .. k -> T] /\ f[0] = b
                           /\ \A m \in 1 .. k : f[m] = h[<<m, f[m - 1]>>]
           S == {k \in 0 .. n : \E f : Solves(f, k)}
<1>1. 0 \in S
  <2>1. Solves([m \in 0 .. 0 |-> b], 0)
    OBVIOUS
  <2>2. \E f : Solves(f, 0)
    BY <2>1
  <2> HIDE DEF Solves
  <2> QED
    BY <2>2
<1>2. ASSUME NEW k \in 0 .. n - 1, k \in S
      PROVE  k + 1 \in S
  <2>1. PICK f : Solves(f, k)
    BY <1>2
  <2> DEFINE g == [m \in 0 .. k + 1 |-> IF m = k + 1 THEN h[<<m, f[k]>>] ELSE f[m]]
  <2>2. h[<<k + 1, f[k]>>] \in T
    BY <2>1
  <2>3. Solves(g, k + 1)
    BY <2>1, <2>2
  <2>4. \E e : Solves(e, k + 1)
    BY <2>3
  <2> HIDE DEF Solves
  <2> QED
    BY <2>4
<1>3. n \in S
  <2> HIDE DEF S
  <2>1. \A m \in 0 .. n : m \in S
    BY <1>1, <1>2, Induction
  <2> QED
    BY <2>1
<1> QED
  BY <1>3

\* The same without an end.
AlwaysStepsIn(T, h) == \A m \in Nat \ {0}, x \in T : h[<<m, x>>] \in T
AlwaysRecurs(f, b, h) == f[0] = b /\ \A m \in Nat \ {0} : f[m] = h[<<m, f[m - 1]>>]

LEMMA RecursionOnNat ==
  ASSUME NEW T, NEW b \in T, NEW h, AlwaysStepsIn(T, h)
  PROVE  \E f \in [Nat -> T] : AlwaysRecurs(f, b, h)
<1> USE DEF AlwaysStepsIn, AlwaysRecurs
<1> DEFINE Solves(f, k) == /\ f \in [0 .. k -> T] /\ f[0] = b
                           /\ \A m \in 1 .. k : f[m] = h[<<m, f[m - 1]>>]
           g(k) == CHOOSE f : Solves(f, k)
<1>1. ASSUME NEW k \in Nat
      PROVE  Solves(g(k), k)
  <2>1. StepsIn(T, k, h)
    <3> SUFFICES ASSUME NEW m \in 1 .. k, NEW x \in T
                 PROVE  h[<<m, x>>] \in T
      BY DEF StepsIn
    <3>1. m \in Nat \ {0}
      OBVIOUS
    <3> QED
      BY <3>1
  <2>2. \E f \in [0 .. k -> T] : Recurs(f, k, b, h)
    <3> HIDE DEF Solves, g
    <3> QED
      BY <2>1, RecursionExists
  <2>3. \E f : Solves(f, k)
    BY <2>2 DEF Recurs
  <2> QED
    BY <2>3
<1> HIDE DEF g
<1>2. ASSUME NEW k \in Nat
      PROVE  \A m \in 0 .. k : g(k + 1)[m] = g(k)[m]
  <2> DEFINE S == {m \in 0 .. k : g(k + 1)[m] = g(k)[m]}
  <2>1. Solves(g(k), k) /\ Solves(g(k + 1), k + 1)
    BY <1>1
  <2>2. 0 \in S
    BY <2>1
  <2>3. ASSUME NEW m \in 0 .. k - 1, m \in S
        PROVE  m + 1 \in S
    <3>1. m + 1 \in 1 .. k /\ m + 1 \in 1 .. k + 1 /\ (m + 1) - 1 = m /\ m + 1 \in 0 .. k
      OBVIOUS
    <3>2. g(k)[m + 1] = h[<<m + 1, g(k)[(m + 1) - 1]>>]
      BY <2>1, <3>1
    <3>3. g(k + 1)[m + 1] = h[<<m + 1, g(k + 1)[(m + 1) - 1]>>]
      BY <2>1, <3>1
    <3> QED
      BY <2>3, <3>1, <3>2, <3>3
  <2>4. \A m \in 0 .. k : m \in S
    <3> HIDE DEF S
    <3> QED
      BY <2>2, <2>3, Induction
  <2> QED
    BY <2>4
<1> DEFINE f == [m \in Nat |-> g(m)[m]]
<1>3. f \in [Nat -> T] /\ f[0] = b
  BY <1>1
<1>4. ASSUME NEW m \in Nat \ {0}
      PROVE  f[m] = h[<<m, f[m - 1]>>]
  <2>1. g(m)[m] = h[<<m, g(m)[m - 1]>>]
    BY <1>1
  <2>2. g(m)[m - 1] = g(m - 1)[m - 1]
    <3>1. m - 1 \in Nat /\ (m - 1) + 1 = m /\ m - 1 \in 0 .. m - 1
      OBVIOUS
    <3>2. \A i \in 0 .. m - 1 : g((m - 1) + 1)[i] = g(m - 1)[i]
      BY <3>1, <1>2
    <3> QED
      BY <3>1, <3>2
  <2> QED
    BY <2>1, <2>2
<1> QED
  BY <1>3, <1>4

-----------------------------------------------------------------------------
(* Folds *)

\* f is what FoldLeft recurs with, from b by h over t: sets of indices, greatest first.
IsFold(f, b, h, t) ==
  \A s \in SUBSET DOMAIN t :
    f[s] = IF s = {} THEN b ELSE h[<<f[s \ {Max(s)}], t[Max(s)]>>]

StaysIn(f, T, E, t) ==
  /\ f \in [SUBSET DOMAIN t -> T]
  /\ \A s \in SUBSET DOMAIN t :
       s # {} => f[s \ {Max(s)}] \in T /\ t[Max(s)] \in E

LEMMA FoldExists ==
  ASSUME NEW T, NEW E, NEW b \in T, NEW h \in [T \X E -> T], NEW t \in Seq(E)
  PROVE  \E f : IsFold(f, b, h, t) /\ StaysIn(f, T, E, t)
<1> DEFINE n == Len(t)
           Solves(f, k) == /\ f \in [SUBSET (1 .. k) -> T]
                           /\ \A s \in SUBSET (1 .. k) :
                                f[s] = IF s = {} THEN b ELSE h[<<f[s \ {Max(s)}], t[Max(s)]>>]
           S == {k \in 0 .. n : \E f : Solves(f, k)}
<1>1. n \in Nat /\ DOMAIN t = 1 .. n /\ \A i \in 1 .. n : t[i] \in E
  OBVIOUS
<1> HIDE DEF n
<1>2. 0 \in S
  <2>1. SUBSET (1 .. 0) = {{}}
    OBVIOUS
  <2>2. Solves([s \in SUBSET (1 .. 0) |-> b], 0)
    BY <2>1
  <2>3. \E f : Solves(f, 0)
    BY <2>2
  <2> HIDE DEF Solves
  <2> QED
    BY <1>1, <2>3
<1>3. ASSUME NEW k \in 0 .. n - 1, k \in S
      PROVE  k + 1 \in S
  <2>1. PICK f : Solves(f, k)
    BY <1>3
  <2> DEFINE Rest(s) == s \ {k + 1}
             g == [s \in SUBSET (1 .. k + 1) |->
                     IF k + 1 \in s THEN h[<<f[Rest(s)], t[k + 1]>>] ELSE f[s]]
  <2>2. \A s \in SUBSET (1 .. k + 1) : Rest(s) \in SUBSET (1 .. k)
    BY <1>1
  <2>3. t[k + 1] \in E /\ k + 1 \in 1 .. n
    BY <1>1
  <2>4. \A s \in SUBSET (1 .. k + 1) : k + 1 \notin s => s \in SUBSET (1 .. k)
    BY <1>1
  <2>5. g \in [SUBSET (1 .. k + 1) -> T]
    BY <2>1, <2>2, <2>3, <2>4
  <2>6. ASSUME NEW s \in SUBSET (1 .. k + 1)
        PROVE  g[s] = IF s = {} THEN b ELSE h[<<g[s \ {Max(s)}], t[Max(s)]>>]
    <3>1. CASE k + 1 \in s
      <4>1. Max(s) = k + 1
        <5>1. k + 1 \in Nat /\ s # {}
          BY <1>1, <3>1
        <5>2. Max(s) \in s /\ Max(s) >= k + 1
          BY <3>1, <5>1, Greatest
        <5>3. Max(s) \in 1 .. k + 1
          BY <5>2
        <5> QED
          BY <1>1, <5>2, <5>3
      <4>2. g[Rest(s)] = f[Rest(s)]
        BY <2>2
      <4> QED
        BY <3>1, <4>1, <4>2
    <3>2. CASE k + 1 \notin s
      <4>1. s \in SUBSET (1 .. k) /\ g[s] = f[s]
        BY <2>4, <3>2
      <4>2. s \ {Max(s)} \in SUBSET (1 .. k) /\ s \ {Max(s)} \in SUBSET (1 .. k + 1)
            /\ k + 1 \notin s \ {Max(s)}
        BY <3>2, <4>1
      <4>3. g[s \ {Max(s)}] = f[s \ {Max(s)}]
        BY <4>2
      <4> QED
        BY <2>1, <4>1, <4>3
    <3> QED
      BY <3>1, <3>2
  <2>7. Solves(g, k + 1)
    <3> HIDE DEF g
    <3> QED
      BY <2>5, <2>6
  <2>8. \E e : Solves(e, k + 1)
    BY <2>7
  <2>9. k + 1 \in 0 .. n
    BY <1>1
  <2> HIDE DEF Solves
  <2> QED
    BY <2>8, <2>9
<1>4. n \in S
  <2> HIDE DEF S
  <2>1. \A m \in 0 .. n : m \in S
    BY <1>1, <1>2, <1>3, Induction
  <2> QED
    BY <1>1, <2>1
<1>5. PICK f : Solves(f, n)
  BY <1>4
<1>6. IsFold(f, b, h, t)
  BY <1>1, <1>5 DEF IsFold
<1>7. ASSUME NEW s \in SUBSET DOMAIN t, s # {}
      PROVE  f[s \ {Max(s)}] \in T /\ t[Max(s)] \in E
  <2>1. Max(s) \in s
    BY <1>1, <1>7, Greatest
  <2> QED
    BY <1>1, <1>5, <2>1
<1> QED
  BY <1>1, <1>5, <1>6, <1>7 DEF StaysIn

\* What such a solution says of the indices up to m.
LEMMA FoldByPrefix ==
  ASSUME NEW t, NEW n \in Nat, DOMAIN t = 1 .. n, NEW f, NEW b, NEW h,
         IsFold(f, b, h, t)
  PROVE  f[1 .. 0] = b /\ \A m \in 1 .. n : f[1 .. m] = h[<<f[1 .. m - 1], t[m]>>]
<1> USE DEF IsFold
<1>1. f[1 .. 0] = b
  <2>1. 1 .. 0 = {}
    OBVIOUS
  <2> QED
    BY <2>1
<1>2. ASSUME NEW m \in 1 .. n
      PROVE  f[1 .. m] = h[<<f[1 .. m - 1], t[m]>>]
  <2>1. Max(1 .. m) = m /\ (1 .. m) \ {m} = 1 .. m - 1
    BY GreatestOfPrefix
  <2>2. 1 .. m \in SUBSET DOMAIN t /\ 1 .. m # {}
    OBVIOUS
  <2> QED
    BY <2>1, <2>2
<1> QED
  BY <1>1, <1>2

-----------------------------------------------------------------------------
(* Quotients and remainders *)

LEMMA DivModBasics ==
  ASSUME NEW a \in Int, NEW b \in Int, b > 0
  PROVE  /\ a \div b \in Int /\ a % b \in 0 .. b - 1
         /\ a = b * (a \div b) + (a % b)
BY Z3

\* Quotient and remainder are what they add up to.
LEMMA DivModUnique ==
  ASSUME NEW a \in Int, NEW b \in Int, NEW q \in Int, NEW r \in 0 .. b - 1, b > 0, a = b * q + r
  PROVE  a \div b = q /\ a % b = r
<1> DEFINE p == a \div b
           s == a % b
<1>1. p \in Int /\ s \in 0 .. b - 1 /\ a = b * p + s
  BY DivModBasics
<1> HIDE DEF p, s
<1>2. b * (p - q) = r - s
  BY <1>1
<1>3. p - q = 0
  <2> DEFINE k == p - q
  <2>1. k \in Int /\ b * k = r - s /\ r - s < b /\ r - s > -b
    BY <1>1, <1>2
  <2> HIDE DEF k
  <2>2. ASSUME k >= 1 PROVE FALSE
    <3>1. b * k >= b
      BY <2>1, <2>2
    <3> QED
      BY <2>1, <3>1
  <2>3. ASSUME k <= -1 PROVE FALSE
    <3>1. b * k <= -b
      BY <2>1, <2>3
    <3> QED
      BY <2>1, <3>1
  <2>4. k = 0
    BY <2>1, <2>2, <2>3
  <2> QED
    BY <2>4 DEF k
<1>4. p = q /\ s = r
  BY <1>1, <1>2, <1>3
<1> QED
  BY <1>4 DEF p, s

\* One more place of a number written to base b.
LEMMA NextPlace ==
  ASSUME NEW v \in Int, NEW b \in Nat \ {0}, NEW w \in Nat \ {0}
  PROVE  v % (b * w) = (v % w) + ((v \div w) % b) * w
<1> DEFINE q == v \div w
           x == v % w
           e == q \div b
           d == q % b
<1>1. q \in Int /\ x \in 0 .. w - 1 /\ v = w * q + x
  BY DivModBasics
<1> HIDE DEF q, x
<1>2. e \in Int /\ d \in 0 .. b - 1 /\ q = b * e + d
  BY <1>1, DivModBasics
<1> HIDE DEF e, d
<1> DEFINE m == b * w
           r == x + d * w
<1>3. m \in Int /\ m > 0
  BY Z3
<1>4. r \in 0 .. m - 1
  <2>1. d * w >= 0 /\ d * w <= (b - 1) * w
    BY <1>2, Z3
  <2>2. (b - 1) * w = m - w
    BY Z3
  <2>3. d * w \in Int
    BY <1>2
  <2> QED
    BY <1>1, <1>3, <2>1, <2>2, <2>3
<1>5. v = m * e + r
  <2>1. w * q = w * (b * e) + w * d
    BY <1>2, Z3
  <2>2. w * (b * e) = m * e /\ w * d = d * w
    BY <1>2, Z3
  <2>3. w * q \in Int /\ m * e \in Int /\ d * w \in Int
    BY <1>1, <1>2, <1>3
  <2> QED
    BY <1>1, <2>1, <2>2, <2>3
<1> HIDE DEF m, r
<1>6. v % m = r
  BY <1>2, <1>3, <1>4, <1>5, DivModUnique
<1> QED
  BY <1>6 DEF m, r, d, q, x

\* A number is larger than its quotient.
LEMMA QuotientIsLess ==
  ASSUME NEW base \in Nat \ {0, 1}, NEW n \in Nat, n >= base
  PROVE  n \div base \in 1 .. n - 1
<1> DEFINE q == n \div base
           r == n % base
<1>1. q \in Int /\ r \in 0 .. base - 1 /\ n = base * q + r
  BY DivModBasics
<1> HIDE DEF q, r
<1>2. q >= 1
  <2> SUFFICES ASSUME q <= 0 PROVE FALSE
    BY <1>1
  <2>1. base * q <= 0
    BY <1>1
  <2> QED
    BY <1>1, <2>1
<1>3. base * q >= 2 * q
  BY <1>1, <1>2
<1> QED
  BY <1>1, <1>2, <1>3 DEF q

\* Dividing twice is dividing by the product.
LEMMA DividingTwice ==
  ASSUME NEW v \in Int, NEW b \in Nat \ {0}, NEW w \in Nat \ {0}
  PROVE  (v \div w) \div b = v \div (b * w)
<1> DEFINE q == v \div w
           x == v % w
           e == q \div b
           d == q % b
<1>1. q \in Int /\ x \in 0 .. w - 1 /\ v = w * q + x
  BY DivModBasics
<1> HIDE DEF q, x
<1>2. e \in Int /\ d \in 0 .. b - 1 /\ q = b * e + d
  BY <1>1, DivModBasics
<1> HIDE DEF e, d
<1> DEFINE m == b * w
           r == x + d * w
<1>3. m \in Int /\ m > 0
  BY Z3
<1>4. r \in 0 .. m - 1
  <2>1. d * w >= 0 /\ d * w <= (b - 1) * w
    BY <1>2, Z3
  <2>2. (b - 1) * w = m - w
    BY Z3
  <2>3. d * w \in Int
    BY <1>2
  <2> QED
    BY <1>1, <1>3, <2>1, <2>2, <2>3
<1>5. v = m * e + r
  <2>1. w * q = w * (b * e) + w * d
    BY <1>2, Z3
  <2>2. w * (b * e) = m * e /\ w * d = d * w
    BY <1>2, Z3
  <2>3. w * q \in Int /\ m * e \in Int /\ d * w \in Int
    BY <1>1, <1>2, <1>3
  <2> QED
    BY <1>1, <2>1, <2>2, <2>3
<1> HIDE DEF m, r
<1>6. v \div m = e
  BY <1>2, <1>3, <1>4, <1>5, DivModUnique
<1> QED
  BY <1>6 DEF m, e, q

=============================================================================
