----------------------------- MODULE Recursion ------------------------------
(***************************************************************************)
(* Induction over the natural numbers, division, and functions defined by  *)
(* recursion, with sets and functions in the place of operator parameters; *)
(* and what FlattenSeq, which is defined by recursion, computes.           *)
(***************************************************************************)
EXTENDS Integers, Sequences, SequencesExt, SequenceTheorems, WellFoundedInduction, TLAPS

\* Every set of natural numbers that is not empty has a least element.
LEMMA LeastNatural ==
    ASSUME NEW S, S \subseteq Nat, S # {}
    PROVE  \E m \in S : \A n \in S : m <= n
<1> DEFINE R == {ss \in Nat \X Nat : ss[1] < ss[2]}
<1>1. IsWellFoundedOn(R, Nat)  BY NatLessThanWellFounded DEF OpToRel
<1> HIDE DEF R
<1>2. \E x \in S : \A y \in S : ~(<<y, x>> \in R)  BY <1>1, WFMin
<1>3. PICK x \in S : \A y \in S : ~(<<y, x>> \in R)  BY <1>2
<1>4. \A y \in S : ~(<<y, x>>[1] < <<y, x>>[2])  BY <1>3 DEF R
<1>5. \A y \in S : x <= y  BY <1>4
<1> QED  BY <1>5

\* A set that holds 0 and with a number the next one holds all.
LEMMA Induction ==
    ASSUME NEW S, 0 \in S, \A n \in Nat : n \in S => n + 1 \in S
    PROVE  Nat \subseteq S
<1>1. SUFFICES ASSUME Nat \ S # {} PROVE FALSE  OBVIOUS
<1>2. PICK m \in Nat \ S : \A n \in Nat \ S : m <= n  BY <1>1, LeastNatural
<1>3. m # 0 /\ m - 1 \in Nat  OBVIOUS
<1>4. m - 1 \in S  BY <1>2, <1>3
<1>5. (m - 1) + 1 \in S  BY <1>3, <1>4
<1> QED  BY <1>5, <1>2

\* A set that holds a number when it holds all smaller ones holds all.
LEMMA CompleteInduction ==
    ASSUME NEW S, \A n \in Nat : (0..(n - 1)) \subseteq S => n \in S
    PROVE  Nat \subseteq S
<1>1. SUFFICES ASSUME Nat \ S # {} PROVE FALSE  OBVIOUS
<1>2. PICK m \in Nat \ S : \A n \in Nat \ S : m <= n  BY <1>1, LeastNatural
<1>3. (0..(m - 1)) \subseteq S  BY <1>2
<1> QED  BY <1>2, <1>3

-----------------------------------------------------------------------------
(* Division *)

\* What % and \div give.
LEMMA DivMod ==
    ASSUME NEW D \in Nat \ {0}, NEW a \in Int
    PROVE  /\ a % D \in 0..(D - 1) /\ a \div D \in Int /\ (a \in Nat => a \div D \in Nat)
           /\ a = D * (a \div D) + (a % D)
OBVIOUS

\* Multiples of D are at least D apart.
LEMMA Apart ==
    ASSUME NEW D \in Nat \ {0}, NEW q \in Int, NEW p \in Int, q < p
    PROVE  D * q + D <= D * p
<1>1. PICK d \in Nat : p = q + 1 + d
  <2>1. p - q - 1 \in Nat /\ p = q + 1 + (p - q - 1)
    OBVIOUS
  <2> QED BY <2>1
<1>2. D * p = D * q + D + D * d
  BY <1>1
<1>3. D * d >= 0 /\ D * p \in Int /\ D * q \in Int /\ D * d \in Int
  BY <1>1
<1> QED BY <1>2, <1>3

\* Quotient and remainder are unique.
LEMMA Unique ==
    ASSUME NEW D \in Nat \ {0}, NEW q \in Int, NEW p \in Int,
           NEW r \in 0..(D - 1), NEW s \in 0..(D - 1), D * q + r = D * p + s
    PROVE  q = p /\ r = s
<1>1. D * q \in Int /\ D * p \in Int
  OBVIOUS
<1>2. CASE q < p
  BY <1>1, <1>2, Apart
<1>3. CASE p < q
  BY <1>1, <1>3, Apart
<1>4. CASE p = q
  BY <1>1, <1>4
<1> QED BY <1>2, <1>3, <1>4

\* The remainder of the next number.
LEMMA NextRemainder ==
    ASSUME NEW D \in Nat \ {0}, NEW n \in Nat
    PROVE  (n + 1) % D = IF (n % D) + 1 >= D THEN 0 ELSE (n % D) + 1
<1> DEFINE q == n \div D
           r == n % D
           p == (n + 1) \div D
           s == (n + 1) % D
<1>1. q \in Int /\ r \in 0..(D - 1) /\ n = D * q + r  BY DivMod
<1>2. p \in Int /\ s \in 0..(D - 1) /\ n + 1 = D * p + s
  <2>1. n + 1 \in Nat  OBVIOUS
  <2> QED  BY <2>1, DivMod
<1> HIDE DEF q, r, p, s
<1>3. D * q \in Int /\ D * (q + 1) = D * q + D  BY <1>1
<1>4. r + 1 >= D => s = 0
  <2> SUFFICES ASSUME r + 1 >= D PROVE s = 0  OBVIOUS
  <2>1. D * (q + 1) + 0 = D * p + s /\ 0 \in 0..(D - 1)  BY <1>1, <1>2, <1>3
  <2> QED  BY <1>1, <1>2, <2>1, Unique
<1>5. ~(r + 1 >= D) => s = r + 1
  <2> SUFFICES ASSUME ~(r + 1 >= D) PROVE s = r + 1  OBVIOUS
  <2>1. D * q + (r + 1) = D * p + s /\ r + 1 \in 0..(D - 1)  BY <1>1, <1>2, <1>3
  <2> QED  BY <1>1, <1>2, <2>1, Unique
<1> QED  BY <1>4, <1>5 DEF r, s

-----------------------------------------------------------------------------
(* Recursion.  A step G[n] takes the values below n to the value at n.      *)

Below(f, n) == [i \in 0..(n - 1) |-> f[i]]

\* G is a family of steps between values of V, and f a function that follows them.
AreSteps(G, V) == \A n \in Nat : G[n] \in [[0..(n - 1) -> V] -> V]
Solves(f, G, V) == f \in [Nat -> V] /\ \A n \in Nat : f[n] = G[n][Below(f, n)]

\* h follows the steps G up to n.
Follows(h, G, V, n) ==
    /\ h \in [0..n -> V]
    /\ \A i \in 0..n : h[i] = G[i][Below(h, i)]

\* Two functions that follow the same steps agree as far as both go.
LEMMA FollowsUnique ==
    ASSUME NEW V, NEW G, NEW m \in Nat, NEW n \in Nat, m <= n,
           NEW g, NEW h, Follows(g, G, V, m), Follows(h, G, V, n)
    PROVE  \A i \in 0..m : g[i] = h[i]
<1> DEFINE S == {i \in Nat : i <= m => g[i] = h[i]}
<1>1. ASSUME NEW i \in Nat, (0..(i - 1)) \subseteq S PROVE i \in S
  <2>1. SUFFICES ASSUME i <= m PROVE g[i] = h[i]  OBVIOUS
  <2>2. \A j \in 0..(i - 1) : g[j] = h[j]  BY <1>1, <2>1
  <2>3. Below(g, i) = Below(h, i)  BY <2>2 DEF Below
  <2>4. i \in 0..m /\ i \in 0..n  BY <2>1
  <2> QED  BY <2>3, <2>4 DEF Follows
<1> HIDE DEF S
<1>2. Nat \subseteq S  BY <1>1, CompleteInduction
<1> QED  BY <1>2 DEF S

\* Such a function exists for every n ...
LEMMA FollowsExists ==
    ASSUME NEW V, NEW G, AreSteps(G, V)
    PROVE  \A n \in Nat : \E h : Follows(h, G, V, n)
<1> USE DEF AreSteps
<1> DEFINE S == {n \in Nat : \E h : Follows(h, G, V, n)}
<1>1. 0 \in S
  <2> DEFINE e == [i \in 0..(0 - 1) |-> 0]
             h == [i \in 0..0 |-> G[0][e]]
  <2>1. e \in [0..(0 - 1) -> V]  OBVIOUS
  <2>2. G[0][e] \in V  BY <2>1
  <2>3. h \in [0..0 -> V]  BY <2>2
  <2>4. Below(h, 0) = e  BY DEF Below
  <2>5. h[0] = G[0][Below(h, 0)]  BY <2>4
  <2>6. Follows(h, G, V, 0)  BY <2>3, <2>5 DEF Follows
  <2> QED  BY <2>6
<1>2. ASSUME NEW n \in Nat, n \in S PROVE n + 1 \in S
  <2>1. PICK h : Follows(h, G, V, n)  BY <1>2
  <2> DEFINE b == Below(h, n + 1)
             k == [i \in 0..(n + 1) |-> IF i <= n THEN h[i] ELSE G[n + 1][b]]
  <2>2. h \in [0..n -> V]  BY <2>1 DEF Follows
  <2>3. b \in [0..((n + 1) - 1) -> V]  BY <2>2 DEF Below
  <2>4. G[n + 1][b] \in V
    <3>1. PICK m \in Nat : m = n + 1  OBVIOUS
    <3>2. G[m] \in [[0..(m - 1) -> V] -> V]  BY <3>1
    <3> HIDE DEF b
    <3> QED  BY <3>1, <3>2, <2>3
  <2>5. k \in [0..(n + 1) -> V]  BY <2>2, <2>4
  <2>6. ASSUME NEW i \in 0..(n + 1) PROVE Below(k, i) = Below(h, i)
    <3>1. \A j \in 0..(i - 1) : k[j] = h[j]  OBVIOUS
    <3> QED  BY <3>1 DEF Below
  <2>7. ASSUME NEW i \in 0..(n + 1) PROVE k[i] = G[i][Below(k, i)]
    <3>1. CASE i <= n
      <4>1. h[i] = G[i][Below(h, i)]  BY <2>1, <3>1 DEF Follows
      <4> QED  BY <4>1, <3>1, <2>6
    <3>2. CASE i = n + 1
      <4>1. k[n + 1] = G[n + 1][b]  OBVIOUS
      <4> QED  BY <4>1, <3>2, <2>6
    <3> QED  BY <3>1, <3>2
  <2> HIDE DEF k
  <2>8. Follows(k, G, V, n + 1)  BY <2>5, <2>7 DEF Follows
  <2> QED  BY <2>8
<1> HIDE DEF S
<1>3. Nat \subseteq S  BY <1>1, <1>2, Induction
<1> QED  BY <1>3 DEF S

\* ... and one for all natural numbers: what a recursive definition describes exists.
THEOREM RecursiveFunction ==
    ASSUME NEW V, NEW G, AreSteps(G, V)
    PROVE  \E f : Solves(f, G, V)
<1> DEFINE H(n) == CHOOSE h : Follows(h, G, V, n)
           f == [n \in Nat |-> H(n)[n]]
<1>1. \A n \in Nat : Follows(H(n), G, V, n)  BY FollowsExists
<1> HIDE DEF H
<1>2. f \in [Nat -> V]
  <2>1. \A n \in Nat : H(n)[n] \in V  BY <1>1 DEF Follows
  <2> QED  BY <2>1
<1>3. ASSUME NEW n \in Nat PROVE f[n] = G[n][Below(f, n)]
  <2>1. ASSUME NEW i \in 0..(n - 1) PROVE f[i] = H(n)[i]
    <3>1. i \in Nat /\ i <= n /\ i \in 0..i  OBVIOUS
    <3>2. Follows(H(i), G, V, i) /\ Follows(H(n), G, V, n)  BY <1>1, <3>1
    <3>3. \A j \in 0..i : H(i)[j] = H(n)[j]  BY <3>1, <3>2, FollowsUnique
    <3> QED  BY <3>1, <3>3
  <2>2. Below(f, n) = Below(H(n), n)  BY <2>1 DEF Below
  <2>3. n \in 0..n /\ Follows(H(n), G, V, n)  BY <1>1
  <2> QED  BY <2>2, <2>3 DEF Follows
<1> HIDE DEF f
<1> QED  BY <1>2, <1>3 DEF Solves

\* The partial sums of natural numbers.
LEMMA PartialSums ==
    ASSUME NEW w \in [Nat -> Nat]
    PROVE  \E f \in [Nat -> Nat] : \A n \in Nat : f[n] = IF n = 0 THEN 0 ELSE f[n - 1] + w[n]
<1> DEFINE Next(n, h) == IF n = 0 THEN 0 ELSE h[n - 1] + w[n]
           G == [n \in Nat |-> [h \in [0..(n - 1) -> Nat] |-> Next(n, h)]]
<1>1. ASSUME NEW n \in Nat, NEW h \in [0..(n - 1) -> Nat] PROVE Next(n, h) \in Nat
  <2>1. w[n] \in Nat  OBVIOUS
  <2>2. n # 0 => h[n - 1] \in Nat  OBVIOUS
  <2>3. \A a, b \in Nat : a + b \in Nat  OBVIOUS
  <2> QED  BY <2>1, <2>2, <2>3
<1> HIDE DEF Next
<1>2. AreSteps(G, Nat)  BY <1>1 DEF AreSteps
<1>3. \A n \in Nat : \A h \in [0..(n - 1) -> Nat] : G[n][h] = Next(n, h)  OBVIOUS
<1> HIDE DEF G
<1>4. PICK f : Solves(f, G, Nat)  BY <1>2, RecursiveFunction
<1>5. ASSUME NEW n \in Nat PROVE f[n] = IF n = 0 THEN 0 ELSE f[n - 1] + w[n]
  <2>1. Below(f, n) \in [0..(n - 1) -> Nat]  BY <1>4 DEF Solves, Below
  <2>2. f[n] = Next(n, Below(f, n))  BY <1>3, <1>4, <2>1 DEF Solves
  <2>3. n # 0 => Below(f, n)[n - 1] = f[n - 1]  BY DEF Below
  <2> QED  BY <2>2, <2>3 DEF Next
<1> QED  BY <1>4, <1>5 DEF Solves

-----------------------------------------------------------------------------
(* Folds.  f holds the values after each of L steps g from base.            *)

Folds(f, base, g, L, V) ==
    f \in [0..L -> V] /\ f[0] = base /\ \A i \in 1..L : f[i] = g[i][f[i - 1]]

\* A fold can be computed ...
LEMMA FoldExists ==
    ASSUME NEW V, NEW base \in V, NEW L \in Nat, NEW g \in [1..L -> [V -> V]]
    PROVE  \E f : Folds(f, base, g, L, V)
<1> DEFINE Step(n, h) == IF n \in 1..L THEN g[n][h[n - 1]] ELSE base
           G == [n \in Nat |-> [h \in [0..(n - 1) -> V] |-> Step(n, h)]]
<1>1. ASSUME NEW n \in Nat, NEW h \in [0..(n - 1) -> V] PROVE Step(n, h) \in V
  <2>1. CASE n \in 1..L
    <3>1. h[n - 1] \in V /\ g[n] \in [V -> V]  BY <2>1
    <3> QED  BY <2>1, <3>1
  <2> QED  BY <2>1
<1>2. ASSUME NEW f, NEW n \in Nat PROVE Step(n, Below(f, n)) = Step(n, f)
  <2>1. n # 0 => Below(f, n)[n - 1] = f[n - 1]  BY DEF Below
  <2> QED  BY <2>1
<1>3. \A f : Step(0, f) = base /\ \A i \in 1..L : Step(i, f) = g[i][f[i - 1]]  OBVIOUS
<1> HIDE DEF Step
<1>4. AreSteps(G, V)  BY <1>1 DEF AreSteps
<1>5. \A n \in Nat : \A h \in [0..(n - 1) -> V] : G[n][h] = Step(n, h)  OBVIOUS
<1> HIDE DEF G
<1>6. PICK f : Solves(f, G, V)  BY <1>4, RecursiveFunction
<1>7. ASSUME NEW n \in Nat PROVE f[n] = Step(n, f)
  <2>1. Below(f, n) \in [0..(n - 1) -> V]  BY <1>6 DEF Solves, Below
  <2> QED  BY <1>2, <1>5, <1>6, <2>1 DEF Solves
<1> DEFINE k == [i \in 0..L |-> f[i]]
<1>8. k \in [0..L -> V]  BY <1>6 DEF Solves
<1>9. k[0] = base  BY <1>3, <1>7
<1>10. ASSUME NEW i \in 1..L PROVE k[i] = g[i][k[i - 1]]
  <2>1. i \in Nat /\ i \in 0..L /\ i - 1 \in 0..L  OBVIOUS
  <2>2. f[i] = g[i][f[i - 1]]  BY <1>3, <1>7, <2>1
  <2> QED  BY <2>1, <2>2
<1> HIDE DEF k
<1> QED  BY <1>8, <1>9, <1>10 DEF Folds

\* Whatever follows the steps as long as it agrees with the fold is the fold.
Agrees(k, f, base, g, L) ==
    k[0] = base /\ \A i \in 1..L : k[i - 1] = f[i - 1] => k[i] = g[i][f[i - 1]]

\* ... and gives one result.
LEMMA FoldUnique ==
    ASSUME NEW V, NEW base, NEW L \in Nat, NEW g, NEW f, Folds(f, base, g, L, V),
           NEW k, Agrees(k, f, base, g, L)
    PROVE  \A i \in 0..L : k[i] = f[i]
<1> DEFINE T == {n \in Nat : n <= L => k[n] = f[n]}
<1>1. 0 \in T  BY DEF Folds, Agrees
<1>2. ASSUME NEW n \in Nat, n \in T PROVE n + 1 \in T
  <2> SUFFICES ASSUME n + 1 <= L PROVE k[n + 1] = f[n + 1]  OBVIOUS
  <2>1. n + 1 \in 1..L /\ (n + 1) - 1 = n  OBVIOUS
  <2>2. k[n] = f[n]  BY <1>2
  <2>3. k[n + 1] = g[n + 1][f[n]]  BY <2>1, <2>2 DEF Agrees
  <2> QED  BY <2>1, <2>3 DEF Folds
<1> HIDE DEF T
<1>3. Nat \subseteq T  BY <1>1, <1>2, Induction
<1> QED  BY <1>3 DEF T

-----------------------------------------------------------------------------
(* Sequences of sequences *)

\* f holds the concatenations of the first sequences of ss.
Flattens(f, ss, S) ==
    /\ f \in [1..Len(ss) -> Seq(S)]
    /\ \A i \in 1..Len(ss) : f[i] = IF i = 1 THEN ss[i] ELSE f[i - 1] \o ss[i]

\* The recursion in FlattenSeq has a solution, and FlattenSeq is its last value.
LEMMA FlattenSeqEquation ==
    ASSUME NEW S, NEW ss \in Seq(Seq(S)), ss # <<>>
    PROVE  \E f : Flattens(f, ss, S) /\ FlattenSeq(ss) = f[Len(ss)]
<1> DEFINE L == Len(ss)
           V == Seq(S)
           Step(n, h) == IF n \in 1..L
                         THEN IF n = 1 THEN ss[n] ELSE h[n - 1] \o ss[n]
                         ELSE <<>>
           G == [n \in Nat |-> [h \in [0..(n - 1) -> V] |-> Step(n, h)]]
           Eq(f) == f = [i \in 1..L |-> IF i = 1 THEN ss[i] ELSE f[i - 1] \o ss[i]]
<1>1. L \in Nat \ {0}  BY EmptySeq
<1>2. \A i \in 1..L : ss[i] \in V  BY ElementOfSeq
<1>3. \A s, t \in V : s \o t \in V  BY ConcatProperties
<1>4. <<>> \in V  OBVIOUS
<1>5. FlattenSeq(ss) = (CHOOSE f : Eq(f))[L]  BY <1>1 DEF FlattenSeq
<1> HIDE DEF L, V
<1>6. ASSUME NEW n \in Nat, NEW h \in [0..(n - 1) -> V] PROVE Step(n, h) \in V
  <2>1. n # 0 => h[n - 1] \in V  OBVIOUS
  <2> QED  BY <1>2, <1>3, <1>4, <2>1
<1>7. ASSUME NEW f, NEW n \in Nat PROVE Step(n, Below(f, n)) = Step(n, f)
  <2>1. n # 0 => Below(f, n)[n - 1] = f[n - 1]  BY DEF Below
  <2> QED  BY <2>1
<1>8. \A f : \A i \in 1..L :
         Step(i, f) = IF i = 1 THEN ss[i] ELSE f[i - 1] \o ss[i]
  OBVIOUS
<1> HIDE DEF Step
<1>9. AreSteps(G, V)  BY <1>6 DEF AreSteps
<1>10. \A n \in Nat : \A h \in [0..(n - 1) -> V] : G[n][h] = Step(n, h)  OBVIOUS
<1> HIDE DEF G
<1>11. PICK f : Solves(f, G, V)  BY <1>9, RecursiveFunction
<1>12. ASSUME NEW n \in Nat PROVE f[n] = Step(n, f)
  <2>1. Below(f, n) \in [0..(n - 1) -> V]  BY <1>11 DEF Solves, Below
  <2> QED  BY <1>7, <1>10, <1>11, <2>1 DEF Solves
<1> DEFINE g == [i \in 1..L |-> f[i]]
<1>13. Eq(g)
  <2>1. ASSUME NEW i \in 1..L PROVE f[i] = IF i = 1 THEN ss[i] ELSE g[i - 1] \o ss[i]
    <3>1. f[i] = IF i = 1 THEN ss[i] ELSE f[i - 1] \o ss[i]
      <4>1. i \in Nat  BY <1>1
      <4> QED  BY <1>8, <1>12, <4>1
    <3>2. i # 1 => g[i - 1] = f[i - 1]  BY <1>1
    <3> QED  BY <3>1, <3>2
  <2> QED  BY <2>1
<1> HIDE DEF Eq
<1>14. Eq(CHOOSE k : Eq(k))  BY <1>13
<1>15. PICK k : Eq(k) /\ FlattenSeq(ss) = k[L]  BY <1>5, <1>14
<1>16. \A i \in 1..L : k[i] = IF i = 1 THEN ss[i] ELSE k[i - 1] \o ss[i]
  BY <1>15 DEF Eq
<1> DEFINE T == {n \in Nat : n + 1 <= L => k[n + 1] \in V}
<1>17. 0 \in T
  <2>1. 1 \in 1..L  BY <1>1
  <2>2. k[1] \in V  BY <1>2, <1>16, <2>1
  <2> QED  BY <2>2
<1>18. ASSUME NEW n \in Nat, n \in T PROVE n + 1 \in T
  <2> SUFFICES ASSUME (n + 1) + 1 <= L PROVE k[(n + 1) + 1] \in V  OBVIOUS
  <2>1. (n + 1) + 1 \in 1..L /\ (n + 1) + 1 # 1 /\ ((n + 1) + 1) - 1 = n + 1  BY <1>1
  <2>2. k[n + 1] \in V  BY <1>18, <1>1
  <2>3. k[(n + 1) + 1] = k[n + 1] \o ss[(n + 1) + 1]  BY <1>16, <2>1
  <2> QED  BY <1>2, <1>3, <2>1, <2>2, <2>3
<1> HIDE DEF T
<1>19. Nat \subseteq T  BY <1>17, <1>18, Induction
<1>20. ASSUME NEW i \in 1..L PROVE k[i] \in V
  <2>1. i - 1 \in Nat /\ (i - 1) + 1 = i /\ i <= L  BY <1>1
  <2>2. i - 1 \in T  BY <1>19, <2>1
  <2> QED  BY <2>1, <2>2 DEF T
<1>21. k = [i \in 1..L |-> k[i]]  BY <1>15 DEF Eq
<1>22. k \in [1..L -> V]  BY <1>20, <1>21
<1>23. Flattens(k, ss, S)  BY <1>16, <1>22 DEF Flattens, L, V
<1> QED  BY <1>15, <1>23 DEF L

\* One more sequence is appended.
LEMMA FlattenAppend ==
    ASSUME NEW S, NEW ss \in Seq(Seq(S)), NEW e \in Seq(S)
    PROVE  /\ FlattenSeq(ss) \in Seq(S)
           /\ FlattenSeq(Append(ss, e)) = FlattenSeq(ss) \o e
<1> DEFINE tt == Append(ss, e)
           L == Len(ss)
<1>1. /\ tt \in Seq(Seq(S)) /\ tt # <<>> /\ Len(tt) = L + 1 /\ L \in Nat
      /\ tt[L + 1] = e /\ \A i \in 1..L : tt[i] = ss[i]
  BY AppendProperties
<1> HIDE DEF tt
<1>2. PICK f : Flattens(f, tt, S) /\ FlattenSeq(tt) = f[Len(tt)]  BY <1>1, FlattenSeqEquation
<1>3. /\ f[L + 1] = IF L + 1 = 1 THEN e ELSE f[(L + 1) - 1] \o e
      /\ FlattenSeq(tt) = f[L + 1]
      /\ \A i \in 1..L : f[i] = IF i = 1 THEN ss[i] ELSE f[i - 1] \o ss[i]
  <2>1. L + 1 \in 1..(L + 1) /\ 1..L \subseteq 1..(L + 1)  BY <1>1
  <2>2. \A i \in 1..(L + 1) : f[i] = IF i = 1 THEN tt[i] ELSE f[i - 1] \o tt[i]
    BY <1>1, <1>2 DEF Flattens
  <2>3. FlattenSeq(tt) = f[L + 1]  BY <1>1, <1>2
  <2> QED  BY <1>1, <2>1, <2>2, <2>3
<1>4. CASE L = 0
  <2>1. ss = <<>>  BY <1>4, EmptySeq
  <2>2. FlattenSeq(ss) = <<>>  BY <2>1 DEF FlattenSeq
  <2>3. FlattenSeq(tt) = e  BY <1>3, <1>4
  <2> QED  BY <2>2, <2>3, ConcatEmptySeq, EmptySeq DEF tt
<1>5. CASE L # 0
  <2>1. ss # <<>>  BY <1>5
  <2>2. PICK k : Flattens(k, ss, S) /\ FlattenSeq(ss) = k[L]  BY <2>1, FlattenSeqEquation
  <2>3. /\ k \in [1..L -> Seq(S)]
        /\ \A i \in 1..L : k[i] = IF i = 1 THEN ss[i] ELSE k[i - 1] \o ss[i]
    BY <2>2 DEF Flattens
  <2> DEFINE T == {n \in Nat : n + 1 <= L => f[n + 1] = k[n + 1]}
  <2>4. 0 \in T
    <3>1. 1 \in 1..L  BY <1>1, <1>5
    <3>2. f[1] = ss[1] /\ k[1] = ss[1]  BY <1>3, <2>3, <3>1
    <3> QED  BY <3>2
  <2>5. ASSUME NEW n \in Nat, n \in T PROVE n + 1 \in T
    <3> SUFFICES ASSUME (n + 1) + 1 <= L PROVE f[(n + 1) + 1] = k[(n + 1) + 1]  OBVIOUS
    <3>1. (n + 1) + 1 \in 1..L /\ (n + 1) + 1 # 1 /\ ((n + 1) + 1) - 1 = n + 1  BY <1>1
    <3>2. f[n + 1] = k[n + 1]  BY <1>1, <2>5
    <3>3. PICK m : m = (n + 1) + 1  OBVIOUS
    <3>4. m \in 1..L /\ m # 1 /\ m - 1 = n + 1  BY <3>1, <3>3
    <3>5. f[m] = f[m - 1] \o ss[m] /\ k[m] = k[m - 1] \o ss[m]  BY <1>3, <2>3, <3>4
    <3> QED  BY <3>2, <3>3, <3>4, <3>5
  <2> HIDE DEF T
  <2>6. Nat \subseteq T  BY <2>4, <2>5, Induction
  <2>7. f[L] = k[L] /\ k[L] \in Seq(S)
    <3>1. L - 1 \in Nat /\ (L - 1) + 1 = L /\ L \in 1..L  BY <1>1, <1>5
    <3>2. L - 1 \in T  BY <2>6, <3>1
    <3>3. f[(L - 1) + 1] = k[(L - 1) + 1]
      <4>1. (L - 1) + 1 <= L  BY <3>1
      <4> HIDE DEF L
      <4> QED  BY <3>2, <4>1 DEF T
    <3>4. k[L] \in Seq(S)  BY <2>3, <3>1
    <3>5. f[L] = k[L]
      <4> HIDE DEF L
      <4> QED  BY Zenon, <3>1, <3>3
    <3> QED  BY <3>4, <3>5
  <2>8. FlattenSeq(tt) = f[L] \o e
    <3>1. L + 1 # 1 /\ (L + 1) - 1 = L  BY <1>1, <1>5
    <3> QED  BY <1>3, <3>1
  <2> QED  BY <2>2, <2>7, <2>8 DEF tt
<1> QED  BY <1>4, <1>5
=============================================================================
