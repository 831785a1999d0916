--------------------------- MODULE Datasets_proofs --------------------------
(***************************************************************************)
(* Proofs about datasets: a loop has each item once and in order, and the  *)
(* keys of seeded datasets differ and are of the size asked for.           *)
(*                                                                         *)
(* A key is the seed and some repetitions of a string with the index       *)
(* behind it.  That two indices give two keys is shown in three steps:     *)
(*   - the digits of two numbers differ;                                   *)
(*   - two keys that are equal have repetitions of the same length, for    *)
(*     with two lengths a character of the string would have to be a       *)
(*     digit of the other index;                                           *)
(*   - so the first repetition of both is the same, hence the index.       *)
(* The loop then needs only what its iterator is at, by the number of      *)
(* items it had (IteratorAt), and that those are right (ItemsExact).       *)
(***************************************************************************)
EXTENDS Datasets, Recursion, SequenceTheorems, TLAPS

-----------------------------------------------------------------------------
(* Numbers in decimal *)

\* Every digit is a decimal character, each another one.
LEMMA DigitFacts ==
    /\ \A n \in 0..9 : Digit[n + 1] \in Decimal
    /\ \A m, n \in 0..9 : Digit[m + 1] = Digit[n + 1] => m = n
<1>1. DOMAIN Digit = 1..10  BY DEF Digit
<1>2. \A n \in 0..9 : n + 1 \in 1..10  OBVIOUS
<1>3. \A n \in 0..9 : Digit[n + 1] \in Decimal
  BY <1>1, <1>2 DEF Decimal, Range
<1>4. ASSUME NEW i \in 1..10, NEW j \in 1..10, Digit[i] = Digit[j] PROVE i = j
  <2>1. Digit[1] = "0" /\ Digit[2] = "1" /\ Digit[3] = "2" /\ Digit[4] = "3"
        /\ Digit[5] = "4" /\ Digit[6] = "5" /\ Digit[7] = "6" /\ Digit[8] = "7"
        /\ Digit[9] = "8" /\ Digit[10] = "9"
    BY DEF Digit
  <2>2. i \in {1, 2, 3, 4, 5, 6, 7, 8, 9, 10} /\ j \in {1, 2, 3, 4, 5, 6, 7, 8, 9, 10}
    OBVIOUS
  <2> QED  BY <1>4, <2>1, <2>2
<1>5. \A m, n \in 0..9 : Digit[m + 1] = Digit[n + 1] => m = n
  <2> SUFFICES ASSUME NEW m \in 0..9, NEW n \in 0..9, Digit[m + 1] = Digit[n + 1]
               PROVE  m = n
    OBVIOUS
  <2>1. m + 1 = n + 1  BY <1>2, <1>4
  <2> QED  BY <2>1
<1> QED  BY <1>3, <1>5

\* The quotient and the remainder by ten.
LEMMA ByTen ==
    ASSUME NEW n \in Nat
    PROVE  /\ n \div 10 \in Nat /\ n % 10 \in 0..9 /\ n = 10 * (n \div 10) + (n % 10)
           /\ n >= 10 => n \div 10 \in 0..(n - 1)
OBVIOUS

\* The recursion has a solution.
LEMMA DigitsEquation ==
    \A n \in Nat :
        /\ n < 10 => Digits[n] = <<Digit[n + 1]>>
        /\ n >= 10 => Digits[n] = Append(Digits[n \div 10], Digit[(n % 10) + 1])
        /\ Digits[n] \in Seq(Decimal)
<1> DEFINE Step(n, h) == IF n < 10 THEN <<Digit[n + 1]>>
                         ELSE Append(h[n \div 10], Digit[(n % 10) + 1])
           V == Seq(Decimal)
           G == [n \in Nat |-> [h \in [0..(n - 1) -> V] |-> Step(n, h)]]
           Eq(f) == f = [n \in Nat |-> Step(n, f)]
<1>1. ASSUME NEW n \in Nat, NEW h \in [0..(n - 1) -> V] PROVE Step(n, h) \in V
  <2>1. CASE n < 10
    <3>1. n \in 0..9  BY <2>1
    <3>2. Digit[n + 1] \in Decimal  BY <3>1, DigitFacts
    <3>3. <<Digit[n + 1]>> \in Seq(Decimal)  BY <3>2
    <3> QED  BY <2>1, <3>3
  <2>2. CASE ~(n < 10)
    <3>1. h[n \div 10] \in Seq(Decimal)  BY <2>2, ByTen
    <3>2. Digit[(n % 10) + 1] \in Decimal  BY ByTen, DigitFacts
    <3>3. Append(h[n \div 10], Digit[(n % 10) + 1]) \in Seq(Decimal)
      BY <3>1, <3>2, AppendProperties
    <3> QED  BY <2>2, <3>3
  <2> QED  BY <2>1, <2>2
<1>2. ASSUME NEW f, NEW n \in Nat PROVE Step(n, Below(f, n)) = Step(n, f)
  <2>1. n >= 10 => Below(f, n)[n \div 10] = f[n \div 10]  BY ByTen DEF Below
  <2> QED  BY <2>1
<1> HIDE DEF Step, V
<1>3. AreSteps(G, V)  BY <1>1 DEF AreSteps
<1>4. \A n \in Nat : \A h \in [0..(n - 1) -> V] : G[n][h] = Step(n, h)  OBVIOUS
<1> HIDE DEF G
<1>5. PICK f : Solves(f, G, V)  BY <1>3, RecursiveFunction
<1>6. \A n \in Nat : f[n] = Step(n, f)
  <2> SUFFICES ASSUME NEW n \in Nat PROVE f[n] = Step(n, f)  OBVIOUS
  <2>1. Below(f, n) \in [0..(n - 1) -> V]  BY <1>5 DEF Solves, Below
  <2> QED  BY <1>2, <1>4, <1>5, <2>1 DEF Solves
<1>7. Eq(f)  BY <1>5, <1>6 DEF Solves
<1>8. Digits = CHOOSE g : Eq(g)  BY DEF Digits, Step
<1> HIDE DEF Eq
<1>9. Eq(Digits)  BY <1>7, <1>8
<1>10. \A n \in Nat : Digits[n] = Step(n, Digits)  BY <1>9 DEF Eq
<1> DEFINE S == {n \in Nat : Digits[n] \in V}
<1>11. ASSUME NEW n \in Nat, (0..(n - 1)) \subseteq S PROVE n \in S
  <2>1. \A i \in 0..(n - 1) : Digits[i] \in V  BY <1>11
  <2>2. Below(Digits, n) \in [0..(n - 1) -> V]  BY <2>1 DEF Below
  <2>3. Step(n, Below(Digits, n)) \in V  BY <1>1, <2>2
  <2> QED  BY <1>2, <1>10, <2>3
<1> HIDE DEF S
<1>12. Nat \subseteq S  BY <1>11, CompleteInduction
<1>13. \A n \in Nat : Digits[n] \in V  BY <1>12 DEF S
<1>14. ASSUME NEW n \in Nat
       PROVE  /\ n < 10 => Digits[n] = <<Digit[n + 1]>>
              /\ n >= 10 => Digits[n] = Append(Digits[n \div 10], Digit[(n % 10) + 1])
  <2>1. Digits[n] = Step(n, Digits)  BY <1>10
  <2>2. n < 10 \/ (n >= 10 /\ ~(n < 10))  OBVIOUS
  <2>3. n < 10 => ~(n >= 10)  OBVIOUS
  <2> QED  BY Zenon, <2>1, <2>2, <2>3 DEF Step
<1> QED  BY <1>13, <1>14 DEF V

\* A number has at least one digit.
LEMMA DigitsType ==
    ASSUME NEW n \in Nat
    PROVE  Digits[n] \in Seq(Decimal) /\ Len(Digits[n]) \in Nat \ {0}
<1>1. Digits[n] \in Seq(Decimal)  BY DigitsEquation
<1>2. CASE n < 10
  <2>1. Len(<<Digit[n + 1]>>) = 1  OBVIOUS
  <2>2. Digits[n] = <<Digit[n + 1]>>  BY <1>2, DigitsEquation
  <2> QED  BY <1>1, <2>1, <2>2
<1>3. CASE n >= 10
  <2>1. Digits[n] = Append(Digits[n \div 10], Digit[(n % 10) + 1])  BY <1>3, DigitsEquation
  <2>2. Digits[n \div 10] \in Seq(Decimal) /\ Digit[(n % 10) + 1] \in Decimal
    BY ByTen, DigitsEquation, DigitFacts
  <2>3. Digits[n] # <<>>  BY <2>1, <2>2, AppendProperties
  <2> QED  BY <1>1, <2>3, EmptySeq
<1> QED  BY <1>2, <1>3

\* Different numbers have different digits.
LEMMA DigitsInjective ==
    ASSUME NEW a \in Nat, NEW b \in Nat, Digits[a] = Digits[b]
    PROVE  a = b
<1> DEFINE S == {m \in Nat : \A n \in Nat : Digits[m] = Digits[n] => m = n}
<1>1. ASSUME NEW m \in Nat, m < 10
      PROVE  Digits[m] = <<Digit[m + 1]>> /\ Len(Digits[m]) = 1
  <2>1. Digits[m] = <<Digit[m + 1]>>  BY <1>1, DigitsEquation
  <2>2. Len(<<Digit[m + 1]>>) = 1  OBVIOUS
  <2> QED  BY <2>1, <2>2
<1>2. ASSUME NEW m \in Nat, m >= 10
      PROVE  /\ Digits[m] = Append(Digits[m \div 10], Digit[(m % 10) + 1])
             /\ Len(Digits[m]) >= 2
             /\ Digits[m \div 10] \in Seq(Decimal) /\ Digit[(m % 10) + 1] \in Decimal
  <2>1. Digits[m] = Append(Digits[m \div 10], Digit[(m % 10) + 1])  BY <1>2, DigitsEquation
  <2>2. /\ Digits[m \div 10] \in Seq(Decimal) /\ Digit[(m % 10) + 1] \in Decimal
        /\ Len(Digits[m \div 10]) \in Nat \ {0}
    BY ByTen, DigitsType, DigitFacts
  <2>3. Len(Digits[m]) = Len(Digits[m \div 10]) + 1  BY <2>1, <2>2, AppendProperties
  <2> QED  BY <2>1, <2>2, <2>3
<1>3. ASSUME NEW m \in Nat, (0..(m - 1)) \subseteq S PROVE m \in S
  <2> SUFFICES ASSUME NEW n \in Nat, Digits[m] = Digits[n] PROVE m = n  OBVIOUS
  <2>1. CASE m < 10
    <3>1. n < 10
      <4>1. Len(Digits[n]) = 1  BY <1>1, <2>1
      <4>2. ~(n >= 10)  BY <1>2, <4>1
      <4> QED  BY <4>2
    <3>2. Digit[m + 1] = Digit[n + 1]
      <4>1. <<Digit[m + 1]>> = <<Digit[n + 1]>>  BY <1>1, <2>1, <3>1
      <4> QED  BY <4>1
    <3> QED  BY <2>1, <3>1, <3>2, DigitFacts
  <2>2. CASE m >= 10
    <3>1. n >= 10
      <4>1. Len(Digits[n]) >= 2 /\ Len(Digits[n]) \in Nat  BY <1>2, <2>2, DigitsType
      <4>2. n < 10 => Len(Digits[n]) = 1  BY <1>1
      <4> DEFINE l == Len(Digits[n])
      <4>3. l \in Nat /\ l >= 2 /\ (n < 10 => l = 1)  BY <4>1, <4>2
      <4> HIDE DEF l
      <4>4. ~(n < 10)  BY <4>3
      <4> QED  BY <4>4
    <3>2. Append(Digits[m \div 10], Digit[(m % 10) + 1]) = Append(Digits[n \div 10], Digit[(n % 10) + 1])
      BY <1>2, <2>2, <3>1
    <3>3. /\ Digits[m \div 10] \in Seq(Decimal) /\ Digit[(m % 10) + 1] \in Decimal
          /\ Digits[n \div 10] \in Seq(Decimal) /\ Digit[(n % 10) + 1] \in Decimal
      BY <1>2, <2>2, <3>1
    <3>4. Digits[m \div 10] = Digits[n \div 10] /\ Digit[(m % 10) + 1] = Digit[(n % 10) + 1]
      <4> DEFINE e == Digit[(m % 10) + 1]
                 f == Digit[(n % 10) + 1]
                 s == Digits[m \div 10]
                 t == Digits[n \div 10]
      <4>1. Append(s, e) = Append(t, f)  BY <3>2
      <4>2. e \in Decimal /\ f \in Decimal /\ s \in Seq(Decimal) /\ t \in Seq(Decimal)
        BY <3>3
      <4> HIDE DEF e, f, s, t
      <4>3. s = t /\ e = f  BY <4>1, <4>2, AppendInjective
      <4> QED  BY <4>3 DEF e, f, s, t
    <3>5. m \div 10 \in S /\ n \div 10 \in Nat  BY <1>3, <2>2, <3>1, ByTen
    <3>6. m \div 10 = n \div 10  BY <3>4, <3>5
    <3>7. m % 10 = n % 10  BY <3>4, ByTen, DigitFacts
    <3> QED  BY <3>6, <3>7, ByTen
  <2> QED  BY <2>1, <2>2
<1> HIDE DEF S
<1>4. Nat \subseteq S  BY <1>3, CompleteInduction
<1> QED  BY <1>4 DEF S

-----------------------------------------------------------------------------
(* Repetition *)

\* A sequence repeated m times: its length, and the first two repetitions.
LEMMA Repeated ==
    ASSUME NEW S, NEW e \in Seq(S), NEW m \in Nat \ {0}
    PROVE  LET w == FlattenSeq([i \in 1..m |-> e])
               p == Len(e)
           IN  /\ w \in Seq(S) /\ Len(w) = m * p
               /\ \A i \in 1..p : w[i] = e[i]
               /\ m >= 2 => \A i \in 1..p : w[p + i] = e[i]
<1> DEFINE ss == [i \in 1..m |-> e]
           p == Len(e)
<1>1. /\ ss \in Seq(Seq(S)) /\ Len(ss) = m /\ ss # <<>>
      /\ \A i \in 1..m : ss[i] = e
  OBVIOUS
<1> HIDE DEF ss
<1>2. PICK f : Flattens(f, ss, S) /\ FlattenSeq(ss) = f[Len(ss)]
  BY <1>1, FlattenSeqEquation
<1>3. /\ f \in [1..m -> Seq(S)]
      /\ \A i \in 1..m : f[i] = IF i = 1 THEN e ELSE f[i - 1] \o e
  BY <1>1, <1>2 DEF Flattens
<1>4. p \in Nat /\ e \in Seq(S) /\ p = Len(e)  OBVIOUS
<1> HIDE DEF p
<1> DEFINE Good(n) == /\ Len(f[n]) = n * p
                      /\ \A i \in 1..p : f[n][i] = e[i]
                      /\ n >= 2 => \A i \in 1..p : f[n][p + i] = e[i]
           T == {n \in Nat : n + 1 <= m => Good(n + 1)}
<1>5. 0 \in T
  <2>1. f[1] = e  BY <1>3
  <2>2. Good(1)  BY <1>4, <2>1
  <2> HIDE DEF Good
  <2> QED  BY <2>2
<1>6. ASSUME NEW k \in Nat, k \in T PROVE k + 1 \in T
  <2> DEFINE n == k + 1
  <2> SUFFICES ASSUME n + 1 <= m PROVE Good(n + 1)  OBVIOUS
  <2>1. n \in Nat \ {0} /\ n \in 1..m /\ n + 1 \in 1..m /\ (n + 1) - 1 = n /\ n + 1 # 1
    OBVIOUS
  <2>2. Good(n)  BY <1>6, <2>1
  <2> HIDE DEF n
  <2>3. f[n] \in Seq(S) /\ f[n + 1] = f[n] \o e  BY <1>3, <2>1
  <2> DEFINE a == f[n]
             b == f[n + 1]
  <2>4. Len(a) = n * p /\ a \in Seq(S) /\ b = a \o e  BY <2>2, <2>3
  <2>5. \A i \in 1..p : a[i] = e[i]  BY <2>2
  <2>6. n >= 2 => \A i \in 1..p : a[p + i] = e[i]  BY <2>2
  <2>7. f[n + 1] = b  OBVIOUS
  <2> HIDE DEF a, b
  <2>8. /\ Len(b) = n * p + p
        /\ \A i \in 1..(n * p + p) : b[i] = IF i <= n * p THEN a[i] ELSE e[i - n * p]
    <3>1. /\ Len(a \o e) = Len(a) + Len(e)
          /\ \A i \in 1..(Len(a) + Len(e)) :
                (a \o e)[i] = IF i <= Len(a) THEN a[i] ELSE e[i - Len(a)]
      BY <1>4, <2>4, ConcatProperties
    <3> QED  BY Zenon, <1>4, <2>4, <3>1
  <2>9. n * p + p = (n + 1) * p  BY <1>4, <2>1
  <2>10. n * p \in Nat /\ n * p >= p  BY <1>4, <2>1
  <2>11. n >= 2 => n * p >= 2 * p  BY <1>4, <2>1
  <2>12. n = 1 => n * p = p  BY <1>4
  <2> DEFINE q == n * p
  <2>13. /\ q \in Nat /\ q >= p /\ (n >= 2 => q >= 2 * p) /\ (n = 1 => q = p)
         /\ \A i \in 1..(q + p) : b[i] = IF i <= q THEN a[i] ELSE e[i - q]
    BY <2>8, <2>10, <2>11, <2>12
  <2> HIDE DEF q
  <2>14. \A i \in 1..p : b[i] = e[i]
    <3> SUFFICES ASSUME NEW i \in 1..p PROVE b[i] = e[i]  OBVIOUS
    <3>1. i \in 1..(q + p) /\ i <= q  BY <1>4, <2>13
    <3> QED  BY <2>5, <2>13, <3>1
  <2>15. \A i \in 1..p : b[p + i] = e[i]
    <3> SUFFICES ASSUME NEW i \in 1..p PROVE b[p + i] = e[i]  OBVIOUS
    <3>1. p + i \in 1..(q + p)  BY <1>4, <2>13
    <3>2. CASE n >= 2
      <4>1. p + i <= q  BY <1>4, <2>13, <3>2
      <4> QED  BY <2>6, <2>13, <3>1, <3>2, <4>1
    <3>3. CASE n = 1
      <4>1. ~(p + i <= q) /\ (p + i) - q = i  BY <1>4, <2>13, <3>3
      <4> QED  BY <2>13, <3>1, <4>1
    <3> QED  BY <2>1, <3>2, <3>3
  <2> QED  BY <2>7, <2>8, <2>9, <2>14, <2>15
<1> HIDE DEF T
<1>7. Nat \subseteq T  BY <1>5, <1>6, Induction
<1>8. Good(m)
  <2> HIDE DEF Good
  <2>1. m - 1 \in Nat /\ (m - 1) + 1 = m /\ m <= m  OBVIOUS
  <2>2. m - 1 \in T  BY <1>7, <2>1
  <2> QED  BY <2>1, <2>2 DEF T
<1>9. FlattenSeq(ss) = f[m] /\ f[m] \in Seq(S)  BY <1>1, <1>2, <1>3
<1> QED  BY <1>8, <1>9 DEF ss, p

\* There is a least number of repetitions that reaches the size.
LEMMA CopiesFacts ==
    ASSUME NEW base \in Seq(Chars), NEW limit \in 0..(Width - 1),
           NEW ext \in Seq(Chars), ext # <<>>
    PROVE  LET m == Copies(base, limit, ext)
               target == (limit - 1) % Width
           IN  /\ m \in 1..Width
               /\ Len(base) + m * Len(ext) >= target
               /\ m = 1 \/ Len(base) + (m - 1) * Len(ext) < target
<1> DEFINE t == (limit - 1) % Width
           l == Len(base)
           p == Len(ext)
           Reaches(k) == l + k * p >= t
           Least(k) == Reaches(k) /\ (k = 1 \/ l + (k - 1) * p < t)
<1>1. Width \in Nat \ {0}  BY DatasetsAssumption
<1>2. t \in 0..(Width - 1)
  <2>1. limit - 1 \in Int  BY <1>1
  <2> DEFINE a == limit - 1
  <2> HIDE DEF a
  <2>2. \A x \in Int, d \in Nat \ {0} : x % d \in 0..(d - 1)  OBVIOUS
  <2>3. a % Width \in 0..(Width - 1)  BY <1>1, <2>1, <2>2 DEF a
  <2> QED  BY <2>3 DEF a
<1>3. l \in Nat /\ p \in Nat \ {0}  BY EmptySeq
<1>4. Copies(base, limit, ext) = CHOOSE k \in 1..Width : Least(k)  BY DEF Copies
<1> HIDE DEF t, l, p
<1>5. Width * p >= Width
  <2>1. \A w \in Nat, x \in Nat \ {0} : w * x >= w  OBVIOUS
  <2> QED  BY <1>1, <1>3, <2>1
<1> DEFINE R == {k \in 1..Width : Reaches(k)}
<1>6. Width \in R
  <2>1. Width * p \in Nat  BY <1>1, <1>3
  <2>2. l + Width * p >= t  BY <1>1, <1>2, <1>3, <1>5, <2>1
  <2> QED  BY <1>1, <2>2
<1>7. PICK k \in R : \A j \in R : k <= j
  <2>1. R \subseteq Nat /\ R # {}  BY <1>1, <1>6
  <2> HIDE DEF R
  <2> QED  BY <2>1, LeastNatural
<1>8. k \in 1..Width /\ Least(k)
  <2>1. k \in 1..Width /\ Reaches(k)  OBVIOUS
  <2>2. CASE k # 1
    <3>1. k - 1 \in 1..Width /\ ~(k <= k - 1)  BY <1>1, <2>1, <2>2
    <3>2. ~Reaches(k - 1)  BY <1>7, <3>1
    <3>3. (k - 1) * p \in Int  BY <1>3, <2>1
    <3>4. l + (k - 1) * p < t  BY <1>2, <1>3, <3>2, <3>3
    <3> QED  BY <2>1, <3>4
  <2> QED  BY <2>1, <2>2
<1> HIDE DEF Least
<1>9. Copies(base, limit, ext) \in 1..Width /\ Least(Copies(base, limit, ext))
  BY <1>4, <1>8
<1> QED  BY <1>9 DEF Least, Reaches, t, l, p

\* What is repeated is not empty.
LEMMA ExtFacts ==
    ASSUME NEW r \in Seq(Chars), NEW idx \in Nat
    PROVE  /\ Ext(r, idx) \in Seq(Chars) /\ Ext(r, idx) # <<>>
           /\ Len(Ext(r, idx)) = Len(r) + Len(Digits[idx])
           /\ Len(r) \in Nat /\ Len(Digits[idx]) \in Nat \ {0}
           /\ \A i \in 1..Len(r) : Ext(r, idx)[i] = r[i]
           /\ \A i \in 1..Len(Digits[idx]) :
                 /\ Ext(r, idx)[Len(r) + i] = Digits[idx][i]
                 /\ Digits[idx][i] \in Decimal
<1> DEFINE d == Digits[idx]
           e == Ext(r, idx)
<1>1. d \in Seq(Decimal) /\ Len(d) \in Nat \ {0}  BY DigitsType
<1>2. d \in Seq(Chars)  BY <1>1, SeqMonotonic, DatasetsAssumption
<1>3. e = r \o d  BY DEF Ext
<1> HIDE DEF d, e
<1>4. /\ e \in Seq(Chars) /\ Len(e) = Len(r) + Len(d)
      /\ \A i \in 1..(Len(r) + Len(d)) : e[i] = IF i <= Len(r) THEN r[i] ELSE d[i - Len(r)]
  BY <1>2, <1>3, ConcatProperties
<1>5. Len(r) \in Nat  OBVIOUS
<1>6. \A i \in 1..Len(r) : e[i] = r[i]  BY <1>1, <1>4, <1>5
<1>7. ASSUME NEW i \in 1..Len(d) PROVE e[Len(r) + i] = d[i] /\ d[i] \in Decimal
  <2>1. d[i] \in Decimal  BY <1>1, ElementOfSeq
  <2>2. Len(r) + i \in 1..(Len(r) + Len(d)) /\ ~(Len(r) + i <= Len(r))
        /\ (Len(r) + i) - Len(r) = i
    BY <1>1, <1>5
  <2> QED  BY <1>4, <2>1, <2>2
<1>8. e # <<>>
  <2>1. Len(e) # 0  BY <1>1, <1>4, <1>5
  <2> QED  BY <2>1
<1> QED  BY <1>1, <1>4, <1>5, <1>6, <1>7, <1>8 DEF d, e

\* A key is the seed and the repetitions of the string with the index.
LEMMA KeyFacts ==
    ASSUME NEW r \in Seq(Chars), NEW idx \in Nat, NEW limit \in 0..(Width - 1)
    PROVE  LET e == Ext(r, idx)
               p == Len(e)
               l == Len(KSeed)
               m == Copies(KSeed, limit, e)
               key == FillRepeat(KSeed, limit, r, idx)
           IN  /\ key \in Seq(Chars) /\ m \in Nat \ {0} /\ Len(key) = l + m * p
               /\ l + m * p >= (limit - 1) % Width
               /\ m = 1 \/ l + (m - 1) * p < (limit - 1) % Width
               /\ \A i \in 1..p : key[l + i] = e[i]
               /\ m >= 2 => \A i \in 1..p : key[l + (p + i)] = e[i]
<1> DEFINE e == Ext(r, idx)
           p == Len(e)
           l == Len(KSeed)
           m == Copies(KSeed, limit, e)
           w == FlattenSeq([i \in 1..m |-> e])
           key == FillRepeat(KSeed, limit, r, idx)
<1>1. KSeed \in Seq(Chars) /\ l \in Nat  BY DatasetsAssumption
<1>2. e \in Seq(Chars) /\ e # <<>> /\ p \in Nat \ {0}  BY ExtFacts, EmptySeq
<1>3. /\ m \in 1..Width /\ l + m * p >= (limit - 1) % Width
      /\ m = 1 \/ l + (m - 1) * p < (limit - 1) % Width
  <2> HIDE DEF e
  <2> QED  BY <1>1, <1>2, CopiesFacts
<1>4. m \in Nat \ {0}  BY <1>3, DatasetsAssumption
<1>5. key = KSeed \o w  BY DEF FillRepeat
<1> HIDE DEF e, m
<1>6. /\ w \in Seq(Chars) /\ Len(w) = m * p
      /\ \A i \in 1..p : w[i] = e[i]
      /\ m >= 2 => \A i \in 1..p : w[p + i] = e[i]
  BY <1>2, <1>4, Repeated
<1> HIDE DEF w, p, l, key
<1>7. /\ key \in Seq(Chars) /\ Len(key) = l + m * p
      /\ \A i \in 1..(l + m * p) : key[i] = IF i <= l THEN KSeed[i] ELSE w[i - l]
  <2>1. /\ KSeed \o w \in Seq(Chars) /\ Len(KSeed \o w) = Len(KSeed) + Len(w)
        /\ \A i \in 1..(Len(KSeed) + Len(w)) :
              (KSeed \o w)[i] = IF i <= Len(KSeed) THEN KSeed[i] ELSE w[i - Len(KSeed)]
    BY <1>1, <1>6, ConcatProperties
  <2>2. l = Len(KSeed)  BY DEF l
  <2> QED  BY Zenon, <1>5, <1>6, <2>1, <2>2
<1>8. m * p \in Nat /\ m * p >= p /\ (m >= 2 => m * p >= 2 * p)
  <2>1. \A x \in Nat \ {0}, y \in Nat :
            x * y \in Nat /\ x * y >= y /\ (x >= 2 => x * y >= 2 * y)
    OBVIOUS
  <2> QED  BY <1>2, <1>4, <2>1
<1> DEFINE q == m * p
<1>9. /\ q \in Nat /\ q >= p /\ (m >= 2 => q >= 2 * p)
      /\ \A i \in 1..(l + q) : key[i] = IF i <= l THEN KSeed[i] ELSE w[i - l]
  BY <1>7, <1>8
<1> HIDE DEF q
<1>10. ASSUME NEW j \in 1..q PROVE key[l + j] = w[j]
  <2>1. l + j \in 1..(l + q) /\ ~(l + j <= l) /\ (l + j) - l = j  BY <1>1, <1>9
  <2> QED  BY <1>9, <2>1
<1>11. \A i \in 1..p : key[l + i] = e[i]
  <2> SUFFICES ASSUME NEW i \in 1..p PROVE key[l + i] = e[i]  OBVIOUS
  <2>1. i \in 1..q  BY <1>2, <1>9
  <2> QED  BY <1>6, <1>10, <2>1
<1>12. ASSUME m >= 2, NEW i \in 1..p PROVE key[l + (p + i)] = e[i]
  <2>1. p + i \in 1..q  BY <1>2, <1>9, <1>12
  <2> QED  BY <1>6, <1>10, <1>12, <2>1
<1> QED  BY <1>3, <1>4, <1>7, <1>11, <1>12 DEF e, p, l, m, key

-----------------------------------------------------------------------------
(* Keys *)

\* From position l on, key repeats e m times, and f n times: both begin with r, of length
\* c, the rest of f is in D, and f is the longer one.
BothRepeat(key, e, f, r, D, l, c, p, q, m, n) ==
    /\ m * p = n * q /\ c < p /\ p < q
    /\ m >= 2 => \A i \in 1..p : key[l + (p + i)] = e[i]
    /\ n >= 2 => \A i \in 1..q : key[l + (q + i)] = f[i]
    /\ \A i \in 1..q : key[l + i] = f[i]
    /\ \A i \in 1..c : e[i] = r[i] /\ f[i] = r[i]
    /\ \A i \in (c + 1)..q : f[i] \in D

\* The first element of r that is not in D.
FirstNotIn(j, r, D, c) ==
    j \in 1..c /\ r[j] \notin D /\ \A i \in 1..c : i < j => r[i] \in D

\* It cannot be both: where the first element of r not in D is in the second e, f has an
\* element of D.
LEMMA NoTwoRepetitions ==
    ASSUME NEW key, NEW e, NEW f, NEW r, NEW D,
           NEW l \in Nat, NEW c \in Nat, NEW p \in Nat, NEW q \in Nat,
           NEW m \in Nat \ {0}, NEW n \in Nat \ {0},
           BothRepeat(key, e, f, r, D, l, c, p, q, m, n),
           NEW j, FirstNotIn(j, r, D, c)
    PROVE  FALSE
<1> USE DEF BothRepeat, FirstNotIn
<1>1. m >= 2
  <2>1. \A u \in Nat \ {0}, v \in Nat : u * v \in Nat /\ u * v >= v  OBVIOUS
  <2>2. n * q >= q /\ n * q \in Nat  BY <2>1
  <2>3. m = 1 => m * p = p  OBVIOUS
  <2> QED  BY <2>2, <2>3
<1>2. n = 1 => q >= 2 * p
  <2>1. \A u \in Nat, v \in Nat : u >= 2 => u * v \in Nat /\ u * v >= 2 * v  OBVIOUS
  <2>2. m * p >= 2 * p /\ m * p \in Nat  BY <1>1, <2>1
  <2>3. n = 1 => n * q = q  OBVIOUS
  <2> QED  BY <2>2, <2>3
<1>3. key[l + (p + j)] \notin D
  <2>1. j \in 1..p  OBVIOUS
  <2>2. key[l + (p + j)] = e[j]  BY <1>1, <2>1
  <2> QED  BY <2>2
<1>4. CASE p + j <= q
  <2>1. p + j \in (c + 1)..q /\ p + j \in 1..q  BY <1>4
  <2>2. key[l + (p + j)] = f[p + j]  BY <2>1
  <2> QED  BY <1>3, <2>1, <2>2
<1>5. CASE ~(p + j <= q)
  <2> DEFINE i == (p + j) - q
  <2>1. i \in 1..c /\ i < j /\ q + i = p + j /\ i \in 1..q  BY <1>5
  <2> HIDE DEF i
  <2>2. n >= 2  BY <1>2, <1>5
  <2>3. key[l + (q + i)] = f[i]  BY <2>1, <2>2
  <2>4. f[i] = r[i] /\ r[i] \in D  BY <2>1
  <2> QED  BY <1>3, <2>1, <2>3, <2>4
<1> QED  BY <1>4, <1>5

\* What a key of a seeded dataset is made of.
MadeOf(key, r, idx) ==
    \E m \in Nat \ {0} :
        /\ Len(key) = Len(KSeed) + m * Len(Ext(r, idx))
        /\ \A i \in 1..Len(Ext(r, idx)) : key[Len(KSeed) + i] = Ext(r, idx)[i]
        /\ m >= 2 => \A i \in 1..Len(Ext(r, idx)) :
                        key[Len(KSeed) + (Len(Ext(r, idx)) + i)] = Ext(r, idx)[i]

\* _fill_repeat makes such keys.
LEMMA KeyMadeOf ==
    ASSUME NEW r \in Seq(Chars), NEW idx \in Nat, NEW limit \in 0..(Width - 1)
    PROVE  MadeOf(FillRepeat(KSeed, limit, r, idx), r, idx)
<1> DEFINE key == FillRepeat(KSeed, limit, r, idx)
           m == Copies(KSeed, limit, Ext(r, idx))
<1>1. /\ m \in Nat \ {0} /\ Len(key) = Len(KSeed) + m * Len(Ext(r, idx))
      /\ \A i \in 1..Len(Ext(r, idx)) : key[Len(KSeed) + i] = Ext(r, idx)[i]
      /\ m >= 2 => \A i \in 1..Len(Ext(r, idx)) :
                        key[Len(KSeed) + (Len(Ext(r, idx)) + i)] = Ext(r, idx)[i]
  BY Zenon, KeyFacts
<1> HIDE DEF key, m
<1>2. MadeOf(key, r, idx)  BY <1>1 DEF MadeOf
<1> QED  BY <1>2 DEF key

\* Two indices with as many digits each have different keys.
LEMMA KeysOfSameLength ==
    ASSUME NEW r \in Seq(Chars), NEW a \in Nat, NEW b \in Nat, NEW key,
           MadeOf(key, r, a), MadeOf(key, r, b), Len(Digits[a]) = Len(Digits[b])
    PROVE  a = b
<1>1. PICK e : e = Ext(r, a)  OBVIOUS
<1>2. PICK f : f = Ext(r, b)  OBVIOUS
<1>3. PICK x : x = Digits[a]  OBVIOUS
<1>4. PICK y : y = Digits[b]  OBVIOUS
<1>5. PICK c : c = Len(r)  OBVIOUS
<1>6. /\ Len(e) = c + Len(x) /\ c \in Nat /\ Len(x) \in Nat
      /\ \A i \in 1..Len(x) : e[c + i] = x[i]
  BY <1>1, <1>3, <1>5, ExtFacts
<1>7. Len(f) = c + Len(y) /\ \A i \in 1..Len(y) : f[c + i] = y[i]
  BY <1>2, <1>4, <1>5, ExtFacts
<1>8. /\ \A i \in 1..Len(e) : key[Len(KSeed) + i] = e[i]
      /\ \A i \in 1..Len(f) : key[Len(KSeed) + i] = f[i]
  BY <1>1, <1>2 DEF MadeOf
<1>9. x \in Seq(Decimal) /\ y \in Seq(Decimal) /\ Len(x) = Len(y)
  BY <1>3, <1>4, DigitsType
<1>10. ASSUME NEW i \in 1..Len(x) PROVE x[i] = y[i]
  <2>1. c + i \in 1..Len(e) /\ c + i \in 1..Len(f)  BY <1>6, <1>7, <1>9
  <2>2. e[c + i] = f[c + i]  BY <1>8, <2>1
  <2> QED  BY <1>6, <1>7, <1>9, <2>2
<1>11. x = y  BY <1>9, <1>10, SeqEqual
<1> QED  BY <1>3, <1>4, <1>11, DigitsInjective

\* An index with fewer digits has another key.
LEMMA KeysOfOtherLength ==
    ASSUME NEW r \in Seq(Chars), NEW a \in Nat, NEW b \in Nat, NEW key,
           MadeOf(key, r, a), MadeOf(key, r, b), Range(r) \ Decimal # {},
           Len(Digits[a]) < Len(Digits[b])
    PROVE  FALSE
<1>1. PICK e : e = Ext(r, a)  OBVIOUS
<1>2. PICK f : f = Ext(r, b)  OBVIOUS
<1>3. PICK y : y = Digits[b]  OBVIOUS
<1>4. PICK c : c = Len(r)  OBVIOUS
<1>5. PICK p : p = Len(e)  OBVIOUS
<1>6. PICK q : q = Len(f)  OBVIOUS
<1>7. PICK l : l = Len(KSeed)  OBVIOUS
<1>8. l \in Nat /\ c \in Nat  BY <1>4, <1>7, DatasetsAssumption
<1>9. p = c + Len(Digits[a]) /\ Len(Digits[a]) \in Nat \ {0} /\ \A i \in 1..c : e[i] = r[i]
  BY <1>1, <1>4, <1>5, ExtFacts
<1>10. /\ q = c + Len(y) /\ Len(y) \in Nat \ {0}
       /\ \A i \in 1..c : f[i] = r[i]
       /\ \A i \in 1..Len(y) : f[c + i] = y[i] /\ y[i] \in Decimal
  BY <1>2, <1>3, <1>4, <1>6, ExtFacts
<1>11. p \in Nat /\ q \in Nat /\ c < p /\ p < q  BY <1>3, <1>8, <1>9, <1>10
<1>12. \A i \in (c + 1)..q : f[i] \in Decimal
  <2> SUFFICES ASSUME NEW i \in (c + 1)..q PROVE f[i] \in Decimal  OBVIOUS
  <2>1. i - c \in 1..Len(y) /\ c + (i - c) = i  BY <1>8, <1>10, <1>11
  <2> QED  BY <1>10, <2>1
<1>13. PICK m \in Nat \ {0} : /\ Len(key) = l + m * p
                              /\ m >= 2 => \A i \in 1..p : key[l + (p + i)] = e[i]
  BY <1>1, <1>5, <1>7 DEF MadeOf
<1>14. PICK n \in Nat \ {0} : /\ Len(key) = l + n * q
                              /\ \A i \in 1..q : key[l + i] = f[i]
                              /\ n >= 2 => \A i \in 1..q : key[l + (q + i)] = f[i]
  BY <1>2, <1>6, <1>7 DEF MadeOf
<1>15. m * p = n * q
  <2>1. \A u, v \in Nat : u * v \in Nat  OBVIOUS
  <2>2. m * p \in Nat /\ n * q \in Nat  BY <1>11, <2>1
  <2>3. l + m * p = l + n * q  BY <1>13, <1>14
  <2> QED  BY <1>8, <2>2, <2>3
<1> DEFINE J == {i \in 1..c : r[i] \notin Decimal}
<1>16. J \subseteq Nat /\ J # {}
  <2>1. PICK i \in DOMAIN r : r[i] \notin Decimal  BY DEF Range
  <2>2. DOMAIN r = 1..c  BY <1>4, LenProperties
  <2> QED  BY <2>1, <2>2
<1>17. PICK j \in J : \A i \in J : j <= i
  <2> HIDE DEF J
  <2> QED  BY <1>16, LeastNatural
<1>18. FirstNotIn(j, r, Decimal, c)
  <2>1. j \in 1..c /\ r[j] \notin Decimal  OBVIOUS
  <2>2. ASSUME NEW i \in 1..c, i < j PROVE r[i] \in Decimal
    <3>1. ~(j <= i)  BY <1>8, <2>1, <2>2
    <3> QED  BY <1>17, <3>1
  <2> QED  BY <2>1, <2>2 DEF FirstNotIn
<1>19. BothRepeat(key, e, f, r, Decimal, l, c, p, q, m, n)
  BY Zenon, <1>9, <1>10, <1>11, <1>12, <1>13, <1>14, <1>15 DEF BothRepeat
<1> QED  BY <1>8, <1>11, <1>13, <1>14, <1>18, <1>19, NoTwoRepetitions

\* With a character that is no digit in the repeated string, different indices have
\* different keys.
LEMMA SeededKeysDiffer ==
    ASSUME NEW r \in Seq(Chars), NEW a \in Nat, NEW b \in Nat, NEW limit \in 0..(Width - 1),
           FillRepeat(KSeed, limit, r, a) = FillRepeat(KSeed, limit, r, b),
           Range(r) \ Decimal # {}
    PROVE  a = b
<1>1. PICK key : key = FillRepeat(KSeed, limit, r, a)  OBVIOUS
<1>2. MadeOf(key, r, a) /\ MadeOf(key, r, b)  BY <1>1, KeyMadeOf
<1>3. PICK x \in Nat : x = Len(Digits[a])  BY DigitsType
<1>4. PICK y \in Nat : y = Len(Digits[b])  BY DigitsType
<1>5. ~(x < y)  BY <1>2, <1>3, <1>4, KeysOfOtherLength
<1>6. ~(y < x)  BY <1>2, <1>3, <1>4, KeysOfOtherLength
<1>7. x = y  BY <1>5, <1>6
<1> QED  BY <1>2, <1>3, <1>4, <1>7, KeysOfSameLength

-----------------------------------------------------------------------------
(* Iteration *)

\* The index the loop is at after n items.
PlaceOf(s, n) ==
    IF s.continuous /\ s.count > 0 THEN n % s.count ELSE IF s.continuous THEN 0 ELSE n

\* The key at an index.
KeyOf(s, idx) ==
    CASE s.kind = "SEEDED" -> FillRepeat(KSeed, s.ksize, s.repeat, idx)
      [] s.kind = "INLINE" -> IF idx < s.count THEN <<"key", idx>> ELSE <<>>
      [] OTHER -> Digits[idx]

\* v is the index of the last pair among the first k inline items, or -1.
LatestPair(s, k, v) ==
    LET paired == {i \in 1..k : s.pairs[i]}
    IN  IF paired = {} THEN v = -1
        ELSE v + 1 \in paired /\ \A i \in paired : i <= v + 1

\* What keys and items are, for any dataset.
Keys == Seq(Chars) \cup ({"key"} \X Nat)
Item == [idx : Nat, key : Keys, value : Int]

\* What is registered was specified; without a loop nothing is left of the one before.
RegistryOK == dsmap \in Specs \cup {None}

AtRest == phase = "idle" => spec = None /\ items = <<>> /\ curv = -1

\* The iterator is where the items the loop had leave it.
IteratorAt ==
    LET n == Len(items)
    IN  /\ spec \in Specs /\ curidx = PlaceOf(spec, n) /\ curk = KeyOf(spec, curidx)
        /\ curv \in Int
        /\ ~spec.continuous => n <= spec.count
        /\ phase = "ended" => Done
        /\ spec.kind = "INLINE" =>
              LatestPair(spec, IF curidx < spec.count THEN curidx + 1 ELSE spec.count, curv)

\* An item is the n-th of the dataset s (from 0), and those of the loop are in order.
ItemExact(s, n, item) ==
    /\ item.idx = PlaceOf(s, n) /\ item.key = KeyOf(s, item.idx)
    /\ s.kind = "INLINE" => item.idx < s.count /\ LatestPair(s, item.idx + 1, item.value)

ItemsExact ==
    /\ items \in Seq(Item)
    /\ \A i \in DOMAIN items : ItemExact(spec, i - 1, items[i])

\* The inductive invariant.
IInv ==
    /\ phase \in {"idle", "loop", "ended", "cancelled"}
    /\ RegistryOK /\ AtRest
    /\ phase # "idle" => IteratorAt /\ ItemsExact

\* What a request can specify.
LEMMA SpecFacts ==
    ASSUME NEW s \in Specs
    PROVE  /\ s.kind \in Kinds /\ s.count \in 0..(Width - 1) /\ s.continuous \in BOOLEAN
           /\ s # None
           /\ s.kind = "SEEDED" => s.repeat \in Seq(Chars) /\ s.ksize \in 0..(Width - 1)
           /\ s.kind = "INLINE" => ~s.continuous
<1>1. Width \in Nat \ {0} /\ Repeats \subseteq Seq(Chars) /\ KSizes \subseteq 0..(Width - 1)
  BY DatasetsAssumption
<1>2. \A k \in Kinds : Counts[k] \subseteq 0..(Width - 1)  BY DatasetsAssumption
<1>3. None.kind = "NONE"  BY DEF None
<1>4. CASE s \in SeededSpecs
  <2>1. /\ s.kind = "SEEDED" /\ s.count \in Counts["SEEDED"] /\ s.continuous \in BOOLEAN
        /\ s.repeat \in Repeats /\ s.ksize \in KSizes
    BY <1>4 DEF SeededSpecs
  <2> QED  BY <1>1, <1>2, <1>3, <2>1 DEF Kinds
<1>5. CASE s \in InlineSpecs
  <2>1. PICK p \in Pairs : s = [kind |-> "INLINE", count |-> Len(p), continuous |-> FALSE,
                                pairs |-> p]
    BY <1>5 DEF InlineSpecs
  <2>2. p \in Seq(BOOLEAN) /\ Len(p) < Width  BY DatasetsAssumption
  <2>3. Len(p) \in 0..(Width - 1)  BY <1>1, <2>2
  <2>4. s.kind = "INLINE" /\ s.count = Len(p) /\ s.continuous = FALSE  BY <2>1
  <2> QED  BY <1>3, <2>3, <2>4 DEF Kinds
<1>6. CASE s \in N1QLSpecs
  <2>1. s.kind = "N1QL" /\ s.count \in Counts["N1QL"] /\ s.continuous \in BOOLEAN
    BY <1>6 DEF N1QLSpecs
  <2> QED  BY <1>2, <1>3, <2>1 DEF Kinds
<1>7. CASE s \in SDSpecs
  <2>1. s.kind = "SD" /\ s.count \in Counts["SD"] /\ s.continuous \in BOOLEAN
    BY <1>7 DEF SDSpecs
  <2> QED  BY <1>2, <1>3, <2>1 DEF Kinds
<1>8. CASE s \in FTSSpecs
  <2>1. s.kind = "FTS" /\ s.count \in Counts["FTS"] /\ s.continuous \in {FALSE}
    BY <1>8 DEF FTSSpecs
  <2> QED  BY <1>2, <1>3, <2>1 DEF Kinds
<1>9. CASE s \in CBASSpecs
  <2>1. s.kind = "CBAS" /\ s.count \in Counts["CBAS"] /\ s.continuous \in {FALSE}
    BY <1>9 DEF CBASSpecs
  <2> QED  BY <1>2, <1>3, <2>1 DEF Kinds
<1> QED  BY <1>4, <1>5, <1>6, <1>7, <1>8, <1>9 DEF Specs

\* The type of a key.
LEMMA KeyOfType ==
    ASSUME NEW s \in Specs, NEW idx \in Nat
    PROVE  KeyOf(s, idx) \in Keys
<1>1. CASE s.kind = "SEEDED"
  <2>1. s.repeat \in Seq(Chars) /\ s.ksize \in 0..(Width - 1)  BY <1>1, SpecFacts
  <2>2. FillRepeat(KSeed, s.ksize, s.repeat, idx) \in Seq(Chars)  BY <2>1, KeyFacts
  <2>3. KeyOf(s, idx) = FillRepeat(KSeed, s.ksize, s.repeat, idx)  BY <1>1 DEF KeyOf
  <2> QED  BY <2>2, <2>3 DEF Keys
<1>2. CASE s.kind = "INLINE"
  <2>1. KeyOf(s, idx) = IF idx < s.count THEN <<"key", idx>> ELSE <<>>  BY <1>2 DEF KeyOf
  <2>2. <<>> \in Seq(Chars)  BY EmptySeq
  <2> QED  BY <2>1, <2>2 DEF Keys
<1>3. CASE s.kind \notin {"SEEDED", "INLINE"}
  <2>1. KeyOf(s, idx) = Digits[idx]  BY <1>3 DEF KeyOf
  <2>2. Digits[idx] \in Seq(Chars)  BY DigitsType, SeqMonotonic, DatasetsAssumption
  <2> QED  BY <2>1, <2>2 DEF Keys
<1> QED  BY <1>1, <1>2, <1>3

\* What InitData leaves in the iterator.
LEMMA InitDataFacts ==
    ASSUME NEW s \in Specs, NEW idx \in Nat, curv \in Int, InitData(s, idx)
    PROVE  /\ curk' = KeyOf(s, idx) /\ curv' \in Int
           /\ s.kind = "INLINE" =>
                curv' = IF idx < s.count /\ s.pairs[idx + 1] THEN idx ELSE curv
<1>1. s.kind \in Kinds  BY SpecFacts
<1>2. CASE s.kind = "SEEDED"
  <2>1. SeededData(s, idx)  BY <1>2 DEF InitData
  <2> QED  BY <1>2, <2>1 DEF SeededData, KeyOf
<1>3. CASE s.kind = "INLINE"
  <2>1. InlineData(s, idx)  BY <1>3 DEF InitData
  <2> QED  BY <1>3, <2>1 DEF InlineData, KeyOf
<1>4. CASE s.kind \in {"N1QL", "SD", "FTS", "CBAS"}
  <2>1. curk' = Digits[idx] /\ curv' \in {idx, 0}
    BY <1>4 DEF InitData, N1QLData, SDData, FTSData, CBASData
  <2>2. KeyOf(s, idx) = Digits[idx]  BY <1>4 DEF KeyOf
  <2> QED  BY <1>4, <2>1, <2>2
<1> QED  BY <1>1, <1>2, <1>3, <1>4 DEF Kinds

\* One more inline item: it is the latest pair, or the one before it is.
LEMMA LatestPairNext ==
    ASSUME NEW s, NEW k \in Nat, NEW v \in Int, LatestPair(s, k, v)
    PROVE  LatestPair(s, k + 1, IF s.pairs[k + 1] THEN k ELSE v)
<1> DEFINE old == {i \in 1..k : s.pairs[i]}
           new == {i \in 1..(k + 1) : s.pairs[i]}
<1>1. 1..(k + 1) = (1..k) \cup {k + 1}  OBVIOUS
<1>2. CASE s.pairs[k + 1]
  <2>1. k + 1 \in new /\ \A i \in new : i <= k + 1  BY <1>2
  <2> QED  BY <1>2, <2>1 DEF LatestPair
<1>3. CASE ~s.pairs[k + 1]
  <2>1. new = old  BY <1>1, <1>3
  <2> QED  BY <1>3, <2>1 DEF LatestPair
<1> QED  BY <1>2, <1>3

\* The index the loop begins at, and where advance takes it.
LEMMA PlaceNext ==
    ASSUME NEW s \in Specs, NEW n \in Nat, ~s.continuous => n < s.count
    PROVE  /\ PlaceOf(s, n) \in Nat /\ PlaceOf(s, 0) = 0
           /\ PlaceOf(s, n + 1) = IF s.continuous /\ PlaceOf(s, n) + 1 >= s.count THEN 0
                                  ELSE (PlaceOf(s, n) + 1) % Width
<1>1. PICK c \in 0..(Width - 1) : c = s.count  BY SpecFacts
<1>2. Width \in Nat \ {0}  BY DatasetsAssumption
<1>3. \A w \in Nat \ {0} : \A x \in 0..(w - 1) : x % w = x  OBVIOUS
<1>4. CASE s.continuous /\ c > 0
  <2>1. c \in Nat \ {0} /\ n % c \in 0..(c - 1)
    <3>1. c \in Nat \ {0}  BY <1>1, <1>2, <1>4
    <3> QED  BY <3>1, DivMod
  <2>2. 0 % c = 0  BY <1>3, <2>1
  <2>3. (n + 1) % c = IF (n % c) + 1 >= c THEN 0 ELSE (n % c) + 1  BY <2>1, NextRemainder
  <2>4. PICK r \in 0..(c - 1) : r = n % c  BY <2>1
  <2>5. ~(r + 1 >= c) => r + 1 \in 0..(Width - 1)  BY <1>1, <1>2, <2>1
  <2>6. ~(r + 1 >= c) => (r + 1) % Width = r + 1  BY <1>2, <1>3, <2>5
  <2>7. PlaceOf(s, n) = r /\ PlaceOf(s, 0) = 0 /\ PlaceOf(s, n + 1) = (n + 1) % c
    BY <1>1, <1>4, <2>2, <2>4 DEF PlaceOf
  <2> QED  BY <1>1, <1>4, <2>1, <2>3, <2>4, <2>6, <2>7
<1>5. CASE s.continuous /\ ~(c > 0)
  <2>1. PlaceOf(s, n) = 0 /\ PlaceOf(s, 0) = 0 /\ PlaceOf(s, n + 1) = 0
    BY <1>1, <1>5 DEF PlaceOf
  <2> QED  BY <1>1, <1>5, <2>1
<1>6. CASE ~s.continuous
  <2>1. PlaceOf(s, n) = n /\ PlaceOf(s, 0) = 0 /\ PlaceOf(s, n + 1) = n + 1
    BY <1>6 DEF PlaceOf
  <2>2. n + 1 \in 0..(Width - 1)  BY <1>1, <1>2, <1>6
  <2> QED  BY <1>2, <1>3, <1>6, <2>1, <2>2
<1> QED  BY <1>4, <1>5, <1>6

\* No loop has begun.
LEMMA InitIInv == Init => IInv
BY DEF Init, IInv, RegistryOK, AtRest

\* A request stores a dataset in the registry, or leaves it as it is.
LEMMA NewDatasetIInv ==
    ASSUME IInv, NEW s \in Specs \cup {None}, NEW type, NEW id, NewDataset(type, s, id)
    PROVE  IInv'
<1>1. UNCHANGED <<phase, spec, curidx, curk, curv, items>>  BY DEF NewDataset, iterVars
<1>2. FromType(DetermineType(type, id)[1], s) \in Specs \cup {None}  BY DEF FromType
<1>3. dsmap' \in {dsmap, FromType(DetermineType(type, id)[1], s)}  BY DEF NewDataset
<1>4. RegistryOK'  BY <1>2, <1>3 DEF IInv, RegistryOK
<1>5. IteratorAt' = IteratorAt  BY <1>1 DEF IteratorAt, Done
<1>6. ItemsExact' = ItemsExact  BY <1>1 DEF ItemsExact
<1>7. AtRest'  BY <1>1 DEF IInv, AtRest
<1> QED  BY <1>1, <1>4, <1>5, <1>6, <1>7 DEF IInv

\* The loop starts at the first item.
LEMMA TakeRequestIInv ==
    ASSUME IInv, NEW s \in Specs \cup {None}, NEW type, NEW id, TakeRequest(type, s, id)
    PROVE  IInv'
<1> DEFINE ds == IF DetermineType(type, id)[1] = "REFERENCE" THEN dsmap
                 ELSE FromType(DetermineType(type, id)[1], s)
<1>1. /\ phase = "idle" /\ items' = <<>> /\ UNCHANGED <<dsmap, asked>>
      /\ \/ ds # None /\ phase' = "loop" /\ spec' = ds /\ curidx' = 0 /\ InitData(ds, 0)
         \/ UNCHANGED <<phase, spec, curidx, curk, curv>>
  BY DEF TakeRequest, regVars, iterVars
<1>2. spec = None /\ items = <<>> /\ curv = -1 /\ dsmap \in Specs \cup {None}
  BY <1>1 DEF IInv, AtRest, RegistryOK
<1>3. ds \in Specs \cup {None}  BY <1>2 DEF FromType
<1> HIDE DEF ds
<1>4. RegistryOK'  BY <1>1, <1>2 DEF RegistryOK
<1>5. CASE UNCHANGED <<phase, spec, curidx, curk, curv>>
  BY <1>1, <1>2, <1>4, <1>5 DEF IInv, AtRest
<1>6. CASE ds # None /\ phase' = "loop" /\ spec' = ds /\ curidx' = 0 /\ InitData(ds, 0)
  <2>1. ds \in Specs  BY <1>3, <1>6
  <2>2. /\ curk' = KeyOf(ds, 0) /\ curv' \in Int
        /\ ds.kind = "INLINE" => curv' = IF 0 < ds.count /\ ds.pairs[0 + 1] THEN 0 ELSE curv
    BY <1>2, <1>6, <2>1, InitDataFacts
  <2>3. ds.count \in 0..(Width - 1) /\ Width \in Nat  BY <2>1, SpecFacts, DatasetsAssumption
  <2>4. PlaceOf(ds, 0) = 0
    BY <2>3 DEF PlaceOf
  <2>5. Len(items') = 0 /\ items' \in Seq(Item) /\ DOMAIN items' = {}  BY <1>1
  <2>6. LatestPair(ds, 0, -1)  BY DEF LatestPair
  <2>7. ds.kind = "INLINE" =>
            LatestPair(ds, IF 0 < ds.count THEN 0 + 1 ELSE ds.count, curv')
    <3> SUFFICES ASSUME ds.kind = "INLINE"
                 PROVE  LatestPair(ds, IF 0 < ds.count THEN 0 + 1 ELSE ds.count, curv')
      OBVIOUS
    <3>1. CASE 0 < ds.count
      <4>1. LatestPair(ds, 0 + 1, IF ds.pairs[0 + 1] THEN 0 ELSE -1)
        BY <2>6, LatestPairNext
      <4> QED  BY <1>2, <2>2, <3>1, <4>1
    <3>2. CASE ~(0 < ds.count)
      <4>1. ds.count = 0 /\ curv' = -1  BY <1>2, <2>2, <2>3, <3>2
      <4> QED  BY <2>6, <3>2, <4>1
    <3> QED  BY <3>1, <3>2
  <2>8. IteratorAt'
    BY <1>6, <2>1, <2>2, <2>3, <2>4, <2>5, <2>7 DEF IteratorAt
  <2>9. ItemsExact'  BY <2>5 DEF ItemsExact
  <2> QED  BY <1>4, <1>6, <2>8, <2>9 DEF IInv, AtRest
<1> QED  BY <1>1, <1>5, <1>6

\* The item is the one at the iterator's index, and the iterator is at the next.
LEMMA AdvanceIInv ==
    ASSUME IInv, Advance
    PROVE  IInv'
<1> DEFINE n == Len(items)
           item == [idx |-> curidx, key |-> curk, value |-> curv]
<1>1. /\ phase = "loop" /\ ~Done /\ items' = Append(items, item) /\ curidx' = NextIdx
      /\ InitData(spec, NextIdx) /\ UNCHANGED <<dsmap, phase, spec>>
  BY DEF Advance, regVars
<1>2. IteratorAt /\ ItemsExact  BY <1>1 DEF IInv
<1>3. /\ spec \in Specs /\ curidx = PlaceOf(spec, n) /\ curk = KeyOf(spec, curidx)
      /\ curv \in Int
      /\ spec.kind = "INLINE" =>
            LatestPair(spec, IF curidx < spec.count THEN curidx + 1 ELSE spec.count, curv)
  BY <1>2 DEF IteratorAt
<1>4. /\ spec.count \in 0..(Width - 1) /\ Width \in Nat \ {0} /\ spec.continuous \in BOOLEAN
      /\ spec.kind = "INLINE" => ~spec.continuous
  BY <1>3, SpecFacts, DatasetsAssumption
<1>5. items \in Seq(Item) /\ n \in Nat  BY <1>2 DEF ItemsExact
<1>6. ~spec.continuous => curidx = n /\ curidx < spec.count
  <2>1. ~spec.continuous => curidx = n  BY <1>3 DEF PlaceOf
  <2>2. ~spec.continuous => ~(curidx >= spec.count)  BY <1>1 DEF Done
  <2> QED  BY <1>4, <1>5, <2>1, <2>2
<1>7. /\ curidx \in Nat /\ NextIdx = PlaceOf(spec, n + 1)
  <2>1. /\ PlaceOf(spec, n) \in Nat
        /\ PlaceOf(spec, n + 1) = IF spec.continuous /\ PlaceOf(spec, n) + 1 >= spec.count
                                  THEN 0 ELSE (PlaceOf(spec, n) + 1) % Width
    BY <1>3, <1>5, <1>6, PlaceNext
  <2> QED  BY <1>3, <2>1 DEF NextIdx
<1>8. NextIdx \in Nat
  <2>1. \A x \in Nat, w \in Nat \ {0} : x % w \in Nat  OBVIOUS
  <2>2. (curidx + 1) % Width \in Nat  BY <1>4, <1>7, <2>1
  <2> QED  BY <2>2 DEF NextIdx
<1>9. /\ curk' = KeyOf(spec, NextIdx) /\ curv' \in Int
      /\ spec.kind = "INLINE" =>
            curv' = IF NextIdx < spec.count /\ spec.pairs[NextIdx + 1] THEN NextIdx ELSE curv
  BY <1>1, <1>3, <1>8, InitDataFacts
<1>10. item \in Item
  <2>1. curk \in Keys  BY <1>3, <1>7, KeyOfType
  <2> QED  BY <1>3, <1>7, <2>1 DEF Item
<1>11. ItemExact(spec, n, item)
  <2>1. spec.kind = "INLINE" => curidx < spec.count /\ LatestPair(spec, curidx + 1, curv)
    BY <1>3, <1>4, <1>6
  <2> QED  BY <1>3, <2>1 DEF ItemExact
<1> HIDE DEF item
<1>12. /\ items' \in Seq(Item) /\ Len(items') = n + 1
       /\ \A i \in 1..n : items'[i] = items[i]
       /\ items'[n + 1] = item
  BY <1>1, <1>5, <1>10, AppendProperties
<1>13. ItemsExact'
  <2> SUFFICES ASSUME NEW i \in DOMAIN items' PROVE ItemExact(spec, i - 1, items'[i])
    BY <1>1, <1>12 DEF ItemsExact
  <2>1. i \in 1..(n + 1)  BY <1>12, LenProperties
  <2>2. CASE i = n + 1
    <3>1. i - 1 = n  BY <1>5, <2>2
    <3> QED  BY <1>11, <1>12, <2>2, <3>1
  <2>3. CASE i \in 1..n
    <3>1. i \in DOMAIN items  BY <1>5, <2>3, LenProperties
    <3>2. ItemExact(spec, i - 1, items[i])  BY <1>2, <3>1 DEF ItemsExact
    <3> QED  BY <1>12, <2>3, <3>2
  <2> QED  BY <1>5, <2>1, <2>2, <2>3
<1>14. ~spec.continuous => NextIdx = n + 1 /\ n + 1 <= spec.count
  <2>1. ~spec.continuous => NextIdx = n + 1  BY <1>7 DEF PlaceOf
  <2> QED  BY <1>4, <1>5, <1>6, <2>1
<1>15. spec.kind = "INLINE" =>
          LatestPair(spec, IF NextIdx < spec.count THEN NextIdx + 1 ELSE spec.count, curv')
  <2> SUFFICES ASSUME spec.kind = "INLINE"
               PROVE  LatestPair(spec, IF NextIdx < spec.count THEN NextIdx + 1
                                       ELSE spec.count, curv')
    OBVIOUS
  <2>1. /\ NextIdx = n + 1 /\ n + 1 <= spec.count /\ curidx = n
        /\ LatestPair(spec, n + 1, curv)
    BY <1>3, <1>4, <1>6, <1>14
  <2>2. CASE n + 1 < spec.count
    <3>1. LatestPair(spec, (n + 1) + 1, IF spec.pairs[(n + 1) + 1] THEN n + 1 ELSE curv)
      <4>1. n + 1 \in Nat  BY <1>5
      <4> QED  BY <1>3, <2>1, <4>1, LatestPairNext
    <3> QED  BY <1>9, <2>1, <2>2, <3>1
  <2>3. CASE ~(n + 1 < spec.count)
    <3>1. spec.count = n + 1  BY <1>4, <1>5, <2>1, <2>3
    <3> QED  BY <1>9, <2>1, <2>3, <3>1
  <2> QED  BY <2>2, <2>3
<1>16. IteratorAt'
  BY <1>1, <1>3, <1>7, <1>9, <1>12, <1>14, <1>15 DEF IteratorAt
<1>17. RegistryOK' /\ AtRest'  BY <1>1 DEF IInv, RegistryOK, AtRest
<1> QED  BY <1>1, <1>13, <1>16, <1>17 DEF IInv

\* The end of the loop and the answer.
LEMMA EndIInv ==
    ASSUME IInv, End
    PROVE  IInv'
<1>1. /\ phase = "loop" /\ UNCHANGED <<dsmap, spec, curidx, curk, curv, items>>
      /\ phase' \in {"ended", "cancelled"} /\ (phase' = "ended" => Done)
  BY DEF End, regVars, iterVars
<1>2. IteratorAt /\ ItemsExact  BY <1>1 DEF IInv
<1>3. Done' = Done  BY <1>1 DEF Done
<1>4. IteratorAt'  BY <1>1, <1>2, <1>3 DEF IteratorAt
<1>5. ItemsExact'  BY <1>1, <1>2 DEF ItemsExact
<1>6. RegistryOK' /\ AtRest'  BY <1>1 DEF IInv, RegistryOK, AtRest
<1> QED  BY <1>1, <1>4, <1>5, <1>6 DEF IInv

\* An answered loop leaves the iterator as a new one.
LEMMA RespondIInv ==
    ASSUME IInv, Respond
    PROVE  IInv'
BY DEF Respond, regVars, IInv, RegistryOK, AtRest

\* The loop is where the items it had leave it, and the items are those of the dataset.
THEOREM IterationInvariant == Spec => []IInv
<1>1. IInv /\ [Next]_vars => IInv'
  <2> SUFFICES ASSUME IInv, [Next]_vars PROVE IInv'  OBVIOUS
  <2>1. CASE Advance  BY <2>1, AdvanceIInv
  <2>2. CASE End  BY <2>2, EndIInv
  <2>3. CASE Respond  BY <2>3, RespondIInv
  <2>4. ASSUME NEW s \in Specs \cup {None}, NEW id, NEW type,
               NewDataset(type, s, id) \/ TakeRequest(type, s, id)
        PROVE  IInv'
    BY <2>4, NewDatasetIInv, TakeRequestIInv
  <2>5. CASE UNCHANGED vars
    <3>1. UNCHANGED <<dsmap, phase, spec, curidx, curk, curv, items>>
      BY <2>5 DEF vars, regVars, iterVars
    <3>2. IteratorAt' = IteratorAt  BY <3>1 DEF IteratorAt, Done
    <3>3. ItemsExact' = ItemsExact  BY <3>1 DEF ItemsExact
    <3> QED  BY <3>1, <3>2, <3>3 DEF IInv, RegistryOK, AtRest
  <2> QED  BY <2>1, <2>2, <2>3, <2>4, <2>5 DEF Next
<1> QED  BY <1>1, InitIInv, PTL DEF Spec

-----------------------------------------------------------------------------
(* The properties *)

\* A loop has each item once and in order, all of them when it ends, and an inline item
\* has its own value or that of the nearest pair before it.
LEMMA IInvExact == IInv => IterationExact
<1> SUFFICES ASSUME IInv PROVE IterationExact  OBVIOUS
<1>1. CASE phase = "idle"
  <2>1. items = <<>> /\ spec.kind = "NONE"  BY <1>1 DEF IInv, AtRest, None
  <2> QED  BY <1>1, <2>1 DEF IterationExact
<1>2. CASE phase # "idle"
  <2>1. IteratorAt /\ ItemsExact  BY <1>2 DEF IInv
  <2>2. /\ spec.count \in Nat /\ spec.continuous \in BOOLEAN
    BY <2>1, SpecFacts, DatasetsAssumption DEF IteratorAt
  <2>3. ASSUME NEW i \in DOMAIN items
        PROVE  /\ items[i].idx = PlaceOf(spec, i - 1)
               /\ spec.kind = "INLINE" => LatestPair(spec, items[i].idx + 1, items[i].value)
    <3>1. ItemExact(spec, i - 1, items[i])  BY <2>1 DEF ItemsExact
    <3> QED  BY <3>1 DEF ItemExact
  <2>4. phase = "ended" => Len(items) = spec.count
    <3> SUFFICES ASSUME phase = "ended" PROVE Len(items) = spec.count  OBVIOUS
    <3>1. Done /\ curidx = PlaceOf(spec, Len(items)) /\ (~spec.continuous => Len(items) <= spec.count)
      BY <2>1 DEF IteratorAt
    <3>2. ~spec.continuous /\ curidx >= spec.count /\ curidx = Len(items)
      BY <3>1 DEF Done, PlaceOf
    <3>3. Len(items) \in Nat  BY <2>1 DEF ItemsExact
    <3> QED  BY <2>2, <3>1, <3>2, <3>3
  <2> QED  BY <2>3, <2>4 DEF IterationExact, PlaceOf, LatestPair
<1> QED  BY <1>1, <1>2

\* Each item once and in order, with its own value or that of the nearest pair before it:
\* start, advance and done of the iterators in Dataset.cpp, for any dataset and any count.
THEOREM IterationIsExact == Spec => []IterationExact
BY IterationInvariant, IInvExact, PTL

\* Different indices have different keys, if the repeated string of a seeded dataset
\* holds a character that is no digit.
LEMMA KeyOfInjective ==
    ASSUME NEW s \in Specs, NEW a \in Nat, NEW b \in Nat, KeyOf(s, a) = KeyOf(s, b),
           s.kind = "SEEDED" => Range(s.repeat) \ Decimal # {},
           s.kind = "INLINE" => a < s.count /\ b < s.count
    PROVE  a = b
<1>1. CASE s.kind = "SEEDED"
  <2>1. s.repeat \in Seq(Chars) /\ s.ksize \in 0..(Width - 1)  BY <1>1, SpecFacts
  <2>2. FillRepeat(KSeed, s.ksize, s.repeat, a) = FillRepeat(KSeed, s.ksize, s.repeat, b)
    BY <1>1 DEF KeyOf
  <2> QED  BY <1>1, <2>1, <2>2, SeededKeysDiffer
<1>2. CASE s.kind = "INLINE"
  <2>1. <<"key", a>> = <<"key", b>>  BY <1>2 DEF KeyOf
  <2> QED  BY <2>1
<1>3. CASE s.kind \notin {"SEEDED", "INLINE"}
  <2>1. Digits[a] = Digits[b]  BY <1>3 DEF KeyOf
  <2> QED  BY <2>1, DigitsInjective
<1> QED  BY <1>1, <1>2, <1>3

\* The items have the keys of their indices.
LEMMA IInvDistinct == IInv => KeysDistinct
<1> SUFFICES ASSUME IInv, spec.kind = "SEEDED" => Range(spec.repeat) \ Decimal # {},
                    NEW i \in DOMAIN items, NEW j \in DOMAIN items,
                    items[i].key = items[j].key
             PROVE  items[i].idx = items[j].idx
  BY DEF KeysDistinct
<1>1. IteratorAt /\ ItemsExact  BY DEF IInv, AtRest
<1>2. spec \in Specs  BY <1>1 DEF IteratorAt
<1>3. ASSUME NEW k \in DOMAIN items
      PROVE  /\ items[k].idx \in Nat /\ items[k].key = KeyOf(spec, items[k].idx)
             /\ spec.kind = "INLINE" => items[k].idx < spec.count
  <2>1. ItemExact(spec, k - 1, items[k])  BY <1>1 DEF ItemsExact
  <2>2. items[k] \in Item  BY <1>1, ElementOfSeq, LenProperties DEF ItemsExact
  <2> QED  BY <2>1, <2>2 DEF ItemExact, Item
<1>4. KeyOf(spec, items[i].idx) = KeyOf(spec, items[j].idx)  BY <1>3
<1> QED  BY <1>2, <1>3, <1>4, KeyOfInjective

\* No two items of a dataset share a key, whatever the seed, the repeated string and the
\* size (_fill_repeat in Dataset.cpp), if the string holds a character that is no digit.
THEOREM KeysAreDistinct == Spec => []KeysDistinct
BY IterationInvariant, IInvDistinct, PTL

\* A key of a seeded dataset is as long as asked for, by less than a repetition, unless
\* one repetition is already longer.
LEMMA KeyLength ==
    ASSUME NEW r \in Seq(Chars), NEW idx \in Nat, NEW limit \in 1..(Width - 1)
    PROVE  LET ext == Len(Ext(r, idx))
               len == Len(FillRepeat(KSeed, limit, r, idx))
           IN  /\ len >= limit - 1
               /\ len < limit - 1 + ext \/ len = Len(KSeed) + ext
<1>1. PICK p \in Nat : p = Len(Ext(r, idx))  BY ExtFacts
<1>2. PICK l \in Nat : l = Len(KSeed)  BY DatasetsAssumption
<1>3. PICK m : m = Copies(KSeed, limit, Ext(r, idx))  OBVIOUS
<1>4. PICK n : n = Len(FillRepeat(KSeed, limit, r, idx))  OBVIOUS
<1>5. Width \in Nat \ {0} /\ limit \in 0..(Width - 1)  BY DatasetsAssumption
<1>6. /\ m \in Nat \ {0} /\ n = l + m * p /\ l + m * p >= (limit - 1) % Width
      /\ m = 1 \/ l + (m - 1) * p < (limit - 1) % Width
  BY <1>1, <1>2, <1>3, <1>4, <1>5, KeyFacts
<1>7. (limit - 1) % Width = limit - 1
  <2>1. \A w \in Nat \ {0} : \A x \in 0..(w - 1) : x % w = x  OBVIOUS
  <2>2. limit - 1 \in 0..(Width - 1)  BY <1>5
  <2> QED  BY <1>5, <2>1, <2>2
<1>8. n >= limit - 1  BY <1>6, <1>7
<1>9. n < limit - 1 + p \/ n = l + p
  <2>1. \A x \in Nat \ {0}, y \in Nat : x * y = (x - 1) * y + y /\ (x - 1) * y \in Nat
    OBVIOUS
  <2>2. m * p = (m - 1) * p + p /\ (m - 1) * p \in Nat  BY <1>6, <2>1
  <2>3. CASE m = 1
    <3>1. m * p = p  BY <2>3
    <3> QED  BY <1>6, <3>1
  <2>4. CASE m # 1
    <3>1. l + (m - 1) * p < limit - 1  BY <1>6, <1>7, <2>4
    <3> QED  BY <1>6, <2>2, <3>1
  <2> QED  BY <2>3, <2>4
<1> QED  BY <1>1, <1>2, <1>4, <1>8, <1>9

\* The items of a seeded dataset have keys of the size of their dataset.
LEMMA IInvFits == IInv => KeyFits
<1> SUFFICES ASSUME IInv, spec.kind = "SEEDED", spec.ksize > 0, NEW i \in DOMAIN items
             PROVE  LET ext == Len(Ext(spec.repeat, items[i].idx))
                        len == Len(items[i].key)
                    IN  /\ len >= spec.ksize - 1
                        /\ len < spec.ksize - 1 + ext \/ len = Len(KSeed) + ext
  BY DEF KeyFits
<1>1. IteratorAt /\ ItemsExact  BY DEF IInv, AtRest
<1>2. spec \in Specs  BY <1>1 DEF IteratorAt
<1>3. spec.repeat \in Seq(Chars) /\ spec.ksize \in 1..(Width - 1)
  BY <1>2, SpecFacts, DatasetsAssumption
<1>4. items[i].idx \in Nat /\ items[i].key = FillRepeat(KSeed, spec.ksize, spec.repeat, items[i].idx)
  <2>1. ItemExact(spec, i - 1, items[i])  BY <1>1 DEF ItemsExact
  <2>2. items[i] \in Item  BY <1>1, ElementOfSeq, LenProperties DEF ItemsExact
  <2> QED  BY <2>1, <2>2 DEF ItemExact, Item, KeyOf
<1> QED  BY <1>3, <1>4, KeyLength

\* The keys that _fill_repeat makes reach the size asked for, by less than a repetition,
\* for every size above 0.
THEOREM KeysFit == Spec => []KeyFits
BY IterationInvariant, IInvFits, PTL

=============================================================================
