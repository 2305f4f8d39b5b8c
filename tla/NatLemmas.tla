------------------------------ MODULE NatLemmas ------------------------------
(***************************************************************************)
(* Facts about natural numbers that the proofs of this project share:      *)
(* least and greatest elements, induction over a set, and functions that   *)
(* are defined by recursion.                                               *)
(***************************************************************************)
EXTENDS Naturals, FiniteSetsExt, WellFoundedInduction, TLAPS

\* A non-empty set of natural numbers has a least element, and Min is it.
LEMMA MinIsLeast ==
    ASSUME NEW S, S \subseteq Nat, S # {}
    PROVE  Min(S) \in S /\ \A y \in S : Min(S) <= y
<1> DEFINE R == {ss \in Nat \X Nat : ss[1] < ss[2]}
<1>1. IsWellFoundedOn(R, Nat)
    BY NatLessThanWellFounded DEF OpToRel
<1>2. \E x \in S : \A y \in S : ~ (<<y, x>> \in R)
    <2> HIDE DEF R
    <2> QED BY <1>1, WFMin
<1>3. PICK x \in S : \A y \in S : ~ (<<y, x>> \in R)
    BY <1>2
<1> SUFFICES \A y \in S : x <= y
    BY DEF Min
<1> SUFFICES ASSUME NEW y \in S PROVE x <= y
    OBVIOUS
<1>4. <<y, x>> \in Nat \X Nat /\ <<y, x>>[1] = y /\ <<y, x>>[2] = x
    OBVIOUS
<1>5. ~ (y < x)
    BY <1>3, <1>4
<1> QED BY <1>5

\* A non-empty bounded set of natural numbers has a greatest element, Max.
LEMMA MaxIsGreatest ==
    ASSUME NEW S, NEW n \in Nat, S \subseteq 0 .. n, S # {}
    PROVE  Max(S) \in S /\ \A y \in S : y <= Max(S)
<1> DEFINE T == {k \in 0 .. n : n - k \in S}
<1>1. T \subseteq Nat /\ T # {}
    <2>1. PICK x \in S : TRUE
        OBVIOUS
    <2>2. n - x \in T
        BY <2>1
    <2>3. T \subseteq Nat
        OBVIOUS
    <2> HIDE DEF T
    <2> QED BY <2>2, <2>3
<1>2. Min(T) \in T /\ \A k \in T : Min(T) <= k
    <2> HIDE DEF T
    <2> QED BY <1>1, MinIsLeast
<1>3. \A y \in S : n - y \in T
    OBVIOUS
<1>4. \A y \in S : n - Min(T) >= y
    BY <1>2, <1>3
<1> QED BY <1>2, <1>4 DEF Max

\* Induction: a set that has 0, and with a number the next one, has all of them.
LEMMA SetInduction ==
    ASSUME NEW S, 0 \in S, \A n \in Nat : n \in S => n + 1 \in S
    PROVE  Nat \subseteq S
<1> DEFINE T == Nat \ S
<1> SUFFICES ASSUME T # {} PROVE FALSE
    OBVIOUS
<1>1. Min(T) \in T /\ \A y \in T : Min(T) <= y
    <2>1. T \subseteq Nat
        OBVIOUS
    <2> HIDE DEF T
    <2> QED BY <2>1, MinIsLeast
<1>2. Min(T) \in Nat /\ Min(T) # 0 /\ Min(T) \notin S
    BY <1>1
<1>3. Min(T) - 1 \in Nat /\ (Min(T) - 1) + 1 = Min(T) /\ ~ (Min(T) <= Min(T) - 1)
    <2> HIDE DEF T
    <2> QED BY <1>2
<1>4. Min(T) - 1 \in S
    <2>1. Min(T) - 1 \notin T
        <3> HIDE DEF T
        <3> QED BY <1>1, <1>3
    <2> QED BY <1>3, <2>1
<1>5. Min(T) \in S
    <2> HIDE DEF T
    <2> QED BY <1>3, <1>4
<1> QED BY <1>2, <1>5

\* The functions on 0 .. n that start with x and go on with g.
Runs(S, x, g, n) ==
    {f \in [0 .. n -> S] : f[0] = x /\ \A i \in 0 .. n : i < n => f[i + 1] = g[<<i, f[i]>>]}

\* There is one, ...
LEMMA RunExists ==
    ASSUME NEW S, NEW x \in S, NEW g \in [Nat \X S -> S], NEW n \in Nat
    PROVE  \E f : f \in Runs(S, x, g, n)
<1> DEFINE T == {m \in Nat : \E f : f \in Runs(S, x, g, m)}
<1>1. 0 \in T
    <2> DEFINE f == [i \in 0 .. 0 |-> x]
    <2>1. f \in Runs(S, x, g, 0)
        BY DEF Runs
    <2> QED BY <2>1
<1>2. ASSUME NEW m \in Nat, m \in T PROVE m + 1 \in T
    <2>1. PICK f : f \in Runs(S, x, g, m)
        BY <1>2
    <2> DEFINE h == [i \in 0 .. m + 1 |-> IF i <= m THEN f[i] ELSE g[<<m, f[m]>>]]
    <2>2. f \in [0 .. m -> S] /\ f[0] = x /\ m \in 0 .. m
          /\ \A i \in 0 .. m : i < m => f[i + 1] = g[<<i, f[i]>>]
        BY <2>1 DEF Runs
    <2>3. f[m] \in S /\ g[<<m, f[m]>>] \in S
        BY <2>2
    <2>4. h \in [0 .. m + 1 -> S]
        BY <2>2, <2>3
    <2>5. h[0] = x
        BY <2>2
    <2>6. ASSUME NEW i \in 0 .. m + 1, i < m + 1 PROVE h[i + 1] = g[<<i, h[i]>>]
        <3>1. i \in 0 .. m /\ i + 1 \in 0 .. m + 1 /\ h[i] = f[i]
            BY <2>6
        <3>2. CASE i < m
            <4>1. h[i + 1] = f[i + 1]
                BY <3>1, <3>2
            <4> QED BY <2>2, <3>1, <3>2, <4>1
        <3>3. CASE i = m
            BY <3>1, <3>3
        <3> QED BY <3>1, <3>2, <3>3
    <2>7. h \in Runs(S, x, g, m + 1)
        <3> HIDE DEF h
        <3> QED BY <2>4, <2>5, <2>6 DEF Runs
    <2> QED BY <2>7
<1>3. Nat \subseteq T
    <2> HIDE DEF T
    <2> QED BY <1>1, <1>2, SetInduction
<1> QED BY <1>3

\* ... and a longer one begins with it.
LEMMA RunsAgree ==
    ASSUME NEW S, NEW x, NEW g, NEW n \in Nat, NEW m \in Nat, n <= m,
           NEW f \in Runs(S, x, g, n), NEW h \in Runs(S, x, g, m),
           NEW i \in 0 .. n
    PROVE  f[i] = h[i]
<1> DEFINE T == {j \in Nat : j <= n => f[j] = h[j]}
<1>1. /\ f[0] = x /\ \A j \in 0 .. n : j < n => f[j + 1] = g[<<j, f[j]>>]
      /\ h[0] = x /\ \A j \in 0 .. m : j < m => h[j + 1] = g[<<j, h[j]>>]
    BY DEF Runs
<1>2. 0 \in T
    BY <1>1
<1>3. ASSUME NEW j \in Nat, j \in T PROVE j + 1 \in T
    <2> SUFFICES ASSUME j + 1 <= n PROVE f[j + 1] = h[j + 1]
        OBVIOUS
    <2>1. j \in 0 .. n /\ j < n /\ j \in 0 .. m /\ j < m /\ f[j] = h[j]
        BY <1>3
    <2> QED BY <1>1, <2>1
<1>4. Nat \subseteq T
    <2> HIDE DEF T
    <2> QED BY <1>2, <1>3, SetInduction
<1> QED BY <1>4

\* F starts with x and goes on with g for ever.
Recursion(S, x, g, F) ==
    /\ F \in [Nat -> S] /\ F[0] = x
    /\ \A n \in Nat : F[n + 1] = g[<<n, F[n]>>]

\* A function on the natural numbers can be defined by recursion.
LEMMA RecursionOnNat ==
    ASSUME NEW S, NEW x \in S, NEW g \in [Nat \X S -> S]
    PROVE  \E F : Recursion(S, x, g, F)
<1> DEFINE R(n) == CHOOSE f : f \in Runs(S, x, g, n)
           F == [n \in Nat |-> R(n)[n]]
<1>1. \A n \in Nat : R(n) \in Runs(S, x, g, n)
    BY RunExists
<1> HIDE DEF R
<1>2. \A n \in Nat : R(n)[n] \in S
    BY <1>1 DEF Runs
<1>3. F \in [Nat -> S]
    BY <1>2
<1>4. F[0] = x
    BY <1>1 DEF Runs
<1>5. ASSUME NEW n \in Nat PROVE F[n + 1] = g[<<n, F[n]>>]
    <2>1. F[n + 1] = R(n + 1)[n + 1] /\ F[n] = R(n)[n]
        OBVIOUS
    <2>2. R(n + 1)[n + 1] = g[<<n, R(n + 1)[n]>>]
        BY <1>1 DEF Runs
    <2>3. R(n)[n] = R(n + 1)[n]
        BY <1>1, RunsAgree
    <2> QED BY <2>1, <2>2, <2>3
<1> HIDE DEF F
<1> QED BY <1>3, <1>4, <1>5 DEF Recursion

\* f starts with x and goes on with g up to n.
RecursionTo(S, x, g, n, f) ==
    /\ f \in [0 .. n -> S] /\ f[0] = x
    /\ \A i \in 1 .. n : f[i] = g[<<i, f[i - 1]>>]

\* A function on 0 .. n can be defined like this as well.
LEMMA RecursionUpTo ==
    ASSUME NEW S, NEW x \in S, NEW n \in Nat, NEW g \in [(1 .. n) \X S -> S]
    PROVE  \E f : RecursionTo(S, x, g, n, f)
<1> DEFINE G == [is \in Nat \X S |-> IF is[1] + 1 \in 1 .. n
                                     THEN g[<<is[1] + 1, is[2]>>] ELSE is[2]]
<1>1. G \in [Nat \X S -> S]
    <2> SUFFICES ASSUME NEW i \in Nat, NEW s \in S
                 PROVE  (IF i + 1 \in 1 .. n THEN g[<<i + 1, s>>] ELSE s) \in S
        OBVIOUS
    <2> QED OBVIOUS
<1>2. \A i \in 1 .. n, s \in S : G[<<i - 1, s>>] = g[<<i, s>>]
    <2> SUFFICES ASSUME NEW i \in 1 .. n, NEW s \in S
                 PROVE  G[<<i - 1, s>>] = g[<<i, s>>]
        OBVIOUS
    <2>1. i - 1 \in Nat /\ (i - 1) + 1 = i /\ <<i - 1, s>> \in Nat \X S
          /\ <<i - 1, s>>[1] = i - 1 /\ <<i - 1, s>>[2] = s
        OBVIOUS
    <2> QED BY <2>1
<1> HIDE DEF G
<1>3. PICK F : Recursion(S, x, G, F)
    BY <1>1, RecursionOnNat
<1> DEFINE f == [i \in 0 .. n |-> F[i]]
<1>4. f \in [0 .. n -> S] /\ f[0] = x
    BY <1>3 DEF Recursion
<1>5. ASSUME NEW i \in 1 .. n PROVE f[i] = g[<<i, f[i - 1]>>]
    <2>1. i - 1 \in Nat /\ (i - 1) + 1 = i /\ f[i] = F[i] /\ f[i - 1] = F[i - 1]
          /\ F[i - 1] \in S
        BY <1>3 DEF Recursion
    <2>2. F[i] = G[<<i - 1, F[i - 1]>>]
        BY <1>3, <2>1 DEF Recursion
    <2> QED BY <1>2, <2>1, <2>2
<1> HIDE DEF f
<1> QED BY <1>4, <1>5 DEF RecursionTo

\* Quotients of natural numbers.
LEMMA QuotientType ==
    ASSUME NEW a \in Nat, NEW b \in Nat \ {0}
    PROVE  a \div b \in Nat /\ (a \div b) * b <= a /\ a < (a \div b) * b + b
BY Z3

\* A quotient is below what times the divisor is above the dividend.
LEMMA QuotientBelow ==
    ASSUME NEW a \in Nat, NEW b \in Nat \ {0}, NEW c \in Nat, a < c * b
    PROVE  a \div b < c
BY QuotientType

\* The quotient of a multiple.
LEMMA QuotientExact ==
    ASSUME NEW c \in Nat, NEW b \in Nat \ {0}
    PROVE  (c * b) \div b = c
BY Z3

\* The remainder of a number below the modulus is the number.
LEMMA SmallRemainder ==
    ASSUME NEW n \in Nat \ {0}, NEW a \in 0 .. n - 1
    PROVE  a % n = a
BY Z3

\* One modulus more does not change it.
LEMMA WrappedRemainder ==
    ASSUME NEW n \in Nat \ {0}, NEW a \in 0 .. n - 1
    PROVE  (a + n) % n = a
BY Z3

\* The modulus has remainder 0.
LEMMA NoRemainder ==
    ASSUME NEW n \in Nat \ {0}
    PROVE  n % n = 0
BY Z3

\* A remainder is below the modulus.
LEMMA RemainderType ==
    ASSUME NEW a \in Nat, NEW b \in Nat \ {0}
    PROVE  a % b \in 0 .. b - 1
BY Z3

\* A multiple and what is added to it: quotient and remainder.
LEMMA QuotientAndRemainder ==
    ASSUME NEW c \in Nat, NEW b \in Nat \ {0}, NEW r \in 0 .. b - 1
    PROVE  (c * b + r) \div b = c /\ (c * b + r) % b = r
BY Z3

=============================================================================
