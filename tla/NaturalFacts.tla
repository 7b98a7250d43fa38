---------------------------- MODULE NaturalFacts ----------------------------
(***************************************************************************)
(* What several proofs need of numbers: the remainders of a division; and  *)
(* induction over the natural numbers, stated for sets, with what it gives *)
(* for recursive functions: that the values one goes through exist, and    *)
(* that their first one and their steps determine them.                    *)
(***************************************************************************)
EXTENDS Integers, FiniteSetTheorems, WellFoundedInduction, TLAPS

\* The only multiple of a number that is smaller is zero.
LEMMA SmallMultiple ==
  ASSUME NEW M \in Nat \ {0}, NEW t \in Int, M * t < M, -M < M * t
  PROVE  t = 0
<1>1. CASE t >= 1
  BY <1>1
<1>2. CASE t <= -1
  BY <1>2
<1>3. QED  BY <1>1, <1>2

\* Numbers that are nearer than the modulus are told apart.
LEMMA ModEqual ==
  ASSUME NEW M \in Nat \ {0}, NEW a \in Int, NEW b \in Int, a % M = b % M, a - b < M, b - a < M
  PROVE  a = b
<1> DEFINE p == a \div M
           q == b \div M
           r == a % M
<1>1. p \in Int /\ q \in Int /\ r \in Int /\ a = M * p + r /\ b = M * q + r
  OBVIOUS
<1>. HIDE DEF p, q, r
<1>2. a - b = M * (p - q)
  BY <1>1
<1>3. p - q = 0
  BY <1>1, <1>2, SmallMultiple
<1>4. QED  BY <1>2, <1>3

\* A remainder is a remainder.
LEMMA ModRange ==
  ASSUME NEW M \in Nat \ {0}, NEW a \in Int
  PROVE  a % M \in 0 .. M - 1
OBVIOUS

\* It is what is left of a multiple of the divisor.
LEMMA ModIs ==
  ASSUME NEW M \in Nat \ {0}, NEW q \in Int, NEW r \in 0 .. M - 1
  PROVE  (M * q + r) % M = r
<1> DEFINE a == M * q + r
           p == a \div M
           s == a % M
<1>1. a \in Int /\ p \in Int /\ s \in 0 .. M - 1 /\ a = M * p + s
  OBVIOUS
<1>2. a = M * q + r
  OBVIOUS
<1>. HIDE DEF a, p, s
<1>3. M * (p - q) = r - s
  BY <1>1, <1>2
<1>4. p - q = 0
  <2>1. p - q \in Int /\ r - s < M /\ -M < r - s
    BY <1>1
  <2>2. QED  BY <1>3, <2>1, SmallMultiple
<1>5. s = r
  BY <1>1, <1>3, <1>4
<1>6. QED  BY <1>5 DEF s, a

\* It may be taken before or after adding.
LEMMA ModPlus ==
  ASSUME NEW M \in Nat \ {0}, NEW a \in Int, NEW k \in Int
  PROVE  ((a % M) + k) % M = (a + k) % M
<1> DEFINE p == a \div M
           r == a % M
           q == (a + k) \div M
           s == (a + k) % M
           u == (r + k) \div M
           v == (r + k) % M
<1>1. p \in Int /\ r \in Int /\ a = M * p + r
  OBVIOUS
<1>2. q \in Int /\ s \in 0 .. M - 1 /\ a + k = M * q + s
  OBVIOUS
<1>3. u \in Int /\ v \in 0 .. M - 1 /\ r + k = M * u + v
  BY <1>1
<1>. HIDE DEF p, q, r, s, u, v
<1>4. M * (q - p - u) = v - s
  BY <1>1, <1>2, <1>3
<1>5. v = s
  <2>1. q - p - u \in Int /\ v - s < M /\ -M < v - s
    BY <1>1, <1>2, <1>3
  <2>2. q - p - u = 0
    BY <1>4, <2>1, SmallMultiple
  <2>3. QED  BY <1>2, <1>3, <1>4, <2>2
<1>6. QED  BY <1>5 DEF s, v, r

----------------------------------------------------------------------------
\* Some number of a set is its least.
LEMMA LeastMember ==
  ASSUME NEW T, T \subseteq Nat, T # {}
  PROVE  \E x \in T : \A y \in T : x <= y
<1> DEFINE R == StrictSubsetOrdering(Nat)
           F == FiniteSubsetsOf(Nat)
           U == {0 .. n : n \in T}
<1>1. IsWellFoundedOn(R, F)
  BY FS_StrictSubsetOrderingWellFounded
<1>2. U # {} /\ U \subseteq F
  <2>1. \A n \in T : 0 .. n \in SUBSET Nat /\ IsFiniteSet(0 .. n)
    BY FS_Interval
  <2>2. \A n \in T : 0 .. n \in F
    BY <2>1 DEF FiniteSubsetsOf
  <2>. HIDE DEF F
  <2>3. QED  BY <2>2
<1>3. PICK u \in U : \A v \in U : ~(<<v, u>> \in R)
  <2>. HIDE DEF U, R, F
  <2>1. QED  BY <1>1, <1>2, WFMin
<1>4. PICK x \in T : u = 0 .. x
  OBVIOUS
<1>5. ASSUME NEW y \in T, ~(x <= y)
      PROVE  FALSE
  <2>1. x \in Nat /\ y \in Nat /\ y < x
    BY <1>5
  <2>2. 0 .. y \subseteq 0 .. x /\ x \in 0 .. x /\ x \notin 0 .. y
    BY <2>1
  <2>3. <<0 .. y, 0 .. x>> \in R
    BY <2>1, <2>2 DEF StrictSubsetOrdering
  <2>4. QED  BY <1>3, <1>4, <2>3
<1>6. QED  BY <1>5

\* A set that has 0, and with a number the next one, has them all.
LEMMA SetInduction ==
  ASSUME NEW I, 0 \in I, \A n \in Nat : n \in I => n + 1 \in I
  PROVE  Nat \subseteq I
<1> DEFINE T == Nat \ I
<1>1. SUFFICES ASSUME T # {} PROVE FALSE
  OBVIOUS
<1>2. PICK x \in T : \A y \in T : x <= y
  BY <1>1, LeastMember
<1>3. x # 0 /\ x - 1 \in Nat /\ x - 1 \notin T
  BY <1>2
<1>4. QED  BY <1>3

\* The values of an iteration of n steps, each of which maps its number and the value before
\* it to the next value.
Iterates(f, n, a, step) == f[0] = a /\ \A i \in 1 .. n : f[i] = step[<<i, f[i - 1]>>]

\* They exist.
LEMMA IterationExists ==
  ASSUME NEW S, NEW a \in S, NEW n \in Nat, NEW step \in [(1 .. n) \X S -> S]
  PROVE  \E f \in [0 .. n -> S] : Iterates(f, n, a, step)
<1> DEFINE I == {k \in Nat : k <= n => \E f \in [0 .. k -> S] : Iterates(f, k, a, step)}
<1>1. 0 \in I
  <2> DEFINE f == [i \in 0 .. 0 |-> a]
  <2>1. f \in [0 .. 0 -> S] /\ Iterates(f, 0, a, step)
    BY DEF Iterates
  <2>2. QED  BY <2>1
<1>2. ASSUME NEW k \in Nat, k \in I
      PROVE  k + 1 \in I
  <2> SUFFICES ASSUME k + 1 <= n
               PROVE  \E f \in [0 .. k + 1 -> S] : Iterates(f, k + 1, a, step)
    OBVIOUS
  <2>1. PICK f \in [0 .. k -> S] : Iterates(f, k, a, step)
    BY <1>2
  <2> DEFINE next == step[<<k + 1, f[k]>>]
             g    == [i \in 0 .. k + 1 |-> IF i = k + 1 THEN next ELSE f[i]]
  <2>2. next \in S
    <3>1. k + 1 \in 1 .. n /\ f[k] \in S
      OBVIOUS
    <3>2. <<k + 1, f[k]>> \in (1 .. n) \X S
      BY <3>1
    <3>3. QED  BY <3>2
  <2>3. g \in [0 .. k + 1 -> S]
    <3>. HIDE DEF next
    <3>1. QED  BY <2>2
  <2>4. /\ g[0] = a /\ g[k + 1] = next
        /\ \A i \in 0 .. k : g[i] = f[i]
    <3>. HIDE DEF next
    <3>1. QED  BY <2>1 DEF Iterates
  <2>. HIDE DEF g
  <2>5. ASSUME NEW i \in 1 .. k + 1
        PROVE  g[i] = step[<<i, g[i - 1]>>]
    <3>1. CASE i = k + 1
      <4>1. g[i - 1] = f[k]
        BY <2>4, <3>1
      <4>2. QED  BY <2>4, <3>1, <4>1
    <3>2. CASE i \in 1 .. k
      <4>1. g[i] = f[i] /\ g[i - 1] = f[i - 1]
        BY <2>4, <3>2
      <4>2. QED  BY <2>1, <3>2, <4>1 DEF Iterates
    <3>3. QED  BY <3>1, <3>2
  <2>6. Iterates(g, k + 1, a, step)
    BY <2>4, <2>5 DEF Iterates
  <2>7. QED  BY <2>3, <2>6
<1>3. n \in I
  <2>. HIDE DEF I
  <2>1. QED  BY <1>1, <1>2, SetInduction
<1>4. QED  BY <1>3

\* A set that has the first value, and with each value the next one, has them all.
LEMMA IterationStays ==
  ASSUME NEW S, NEW n \in Nat, NEW f, f[0] \in S, \A i \in 1 .. n : f[i - 1] \in S => f[i] \in S
  PROVE  \A i \in 0 .. n : f[i] \in S
<1> DEFINE I == {k \in Nat : k <= n => f[k] \in S}
<1>1. 0 \in I
  OBVIOUS
<1>2. ASSUME NEW k \in Nat, k \in I
      PROVE  k + 1 \in I
  <2>1. CASE k + 1 <= n
    <3>1. k + 1 \in 1 .. n /\ (k + 1) - 1 = k /\ f[k] \in S
      BY <1>2, <2>1
    <3>2. QED  BY <3>1
  <2>2. CASE ~(k + 1 <= n)
    BY <2>2
  <2>3. QED  BY <2>1, <2>2
<1>. HIDE DEF I
<1>3. Nat \subseteq I
  BY <1>1, <1>2, SetInduction
<1>4. QED  BY <1>3 DEF I

\* Two iterations that start alike and step alike
StepAlike(f, g, n) == f[0] = g[0] /\ \A i \in 1 .. n : f[i - 1] = g[i - 1] => f[i] = g[i]

\* are alike.
LEMMA IterationsAgree ==
  ASSUME NEW n \in Nat, NEW f, NEW g, StepAlike(f, g, n)
  PROVE  \A i \in 0 .. n : f[i] = g[i]
<1> DEFINE I == {k \in Nat : k <= n => f[k] = g[k]}
<1>1. 0 \in I
  BY DEF StepAlike
<1>2. ASSUME NEW k \in Nat, k \in I
      PROVE  k + 1 \in I
  <2>1. CASE k + 1 <= n
    <3>1. k + 1 \in 1 .. n /\ (k + 1) - 1 = k /\ f[k] = g[k]
      BY <1>2, <2>1
    <3>2. QED  BY <3>1 DEF StepAlike
  <2>2. CASE ~(k + 1 <= n)
    BY <2>2
  <2>3. QED  BY <2>1, <2>2
<1>. HIDE DEF I
<1>3. Nat \subseteq I
  BY <1>1, <1>2, SetInduction
<1>4. QED  BY <1>3 DEF I
=============================================================================
