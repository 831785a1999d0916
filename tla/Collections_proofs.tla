------------------------- MODULE Collections_proofs -------------------------
(***************************************************************************)
(* The race for the flag of the collections is harmless, for any number of *)
(* handles, scopes and collections.                                        *)
(*                                                                         *)
(* The argument: what exists on the server is always an initial segment of *)
(* the creations, whoever made them, and a handle that is creating has all *)
(* before its own position behind it.  So the handle that makes creation n *)
(* is at n + 1, which nobody can have made: it is at the front, and every  *)
(* handle that fails because its creation exists is behind the front.      *)
(*                                                                         *)
(* Whoever comes to the end of the loops has everything created, and by    *)
(* the uniqueness of quotient and remainder every key's collection is then *)
(* one of those created.                                                   *)
(***************************************************************************)
EXTENDS Collections, Recursion, TLAPS

\* What exists is an initial segment.
Segment == \A n \in created : \A m \in 0..n : m \in created

\* A creating handle has what lies before its position behind it; one that came to
\* the end has everything.
Behind ==
    /\ \A h \in Handles : pc[h] = "create" => \A m \in 0..(pos[h] - 1) : m \in created
    /\ \A h \in Handles : pc[h] = "generated" => created = All

\* Before the flag is set nobody creates.
FlagFirst == \A h \in Handles : pc[h] = "create" => flag

\* Until the flag is set, an unspoiled server has nothing or everything.
Untouched == ~flag /\ ~spoiled => created = {} \/ created = All

\* A handle that has not begun is at position 0.
AtZero == \A h \in Handles : pc[h] \in {"load", "store"} => pos[h] = 0

\* No operation of a handle that generated the collections, or is not open, has missed.
NotMissed == \A h \in Handles : pc[h] \notin {"skipped", "failed"} => ~missed[h]

IInv ==
    /\ AtZero /\ TypeOK /\ Segment /\ Behind /\ FlagFirst /\ Untouched /\ RaceHarmless
    /\ NotMissed

\* The number of creations.
LEMMA TotalPositive == Total \in Nat /\ Total > 0
BY CollectionsAssumption DEF Total

-----------------------------------------------------------------------------
(* The numbers that generateCollections gives are those that getCollection *)
(* looks for.                                                              *)

\* So they are known of a number that is written with them.
LEMMA Written ==
    ASSUME NEW D \in Nat \ {0}, NEW q \in Int, NEW r \in 0..(D - 1), NEW n \in Nat,
           n = D * q + r
    PROVE  n % D = r /\ n \div D = q
<1> DEFINE p == n \div D
           t == n % D
<1>1. p \in Int /\ t \in 0..(D - 1) /\ D * p + t = D * q + r
  OBVIOUS
<1> HIDE DEF p, t
<1>2. p = q /\ t = r
  BY <1>1, Unique
<1> QED BY <1>2 DEF p, t

\* Once all is created, the collection of any key is there.
LEMMA AllAreFound ==
    ASSUME created = All, NEW num \in 0..999
    PROVE  IsFound(num)
<1> DEFINE c == CollectionNum(num)
           s == c \div PerScope
           r == c % PerScope
           n == (PerScope + 1) * s + (r + 1)
<1> USE CollectionsAssumption
<1>1. PerScope * Scopes \in Nat \ {0}
  <2>1. PerScope * Scopes >= PerScope * 1
    <3>1. CASE Scopes = 1
      BY <3>1
    <3>2. CASE Scopes # 1
      <4>1. PerScope * 1 + PerScope <= PerScope * Scopes
        BY <3>2, Apart
      <4> QED BY <4>1
    <3> QED BY <3>1, <3>2
  <2>2. PerScope * Scopes \in Int
    OBVIOUS
  <2> QED BY <2>1, <2>2
<1>2. c \in Nat /\ c < PerScope * Scopes
  <2>1. c \in 0..(PerScope * Scopes - 1)
    BY <1>1, DivMod DEF CollectionNum
  <2> QED BY <1>1, <2>1
<1>3. r \in 0..(PerScope - 1) /\ s \in Nat /\ c = PerScope * s + r
  <2> HIDE DEF c
  <2> QED BY <1>2, DivMod
<1> HIDE DEF c, s, r
<1>4. s < Scopes
  <2> SUFFICES ASSUME ~(s < Scopes) PROVE FALSE
    OBVIOUS
  <2>1. PerScope * Scopes <= PerScope * s
    <3>1. CASE s = Scopes
      BY <3>1, <1>3
    <3>2. CASE Scopes < s
      <4>1. PerScope * Scopes + PerScope <= PerScope * s
        BY <3>2, <1>3, Apart
      <4>2. PerScope * Scopes \in Int /\ PerScope * s \in Int
        BY <1>3
      <4> QED BY <4>1, <4>2
    <3> QED BY <3>1, <3>2, <1>3
  <2>2. PerScope * Scopes \in Int /\ PerScope * s \in Int
    BY <1>3
  <2> QED BY <2>1, <2>2, <1>2, <1>3
<1>5. n \in All
  <2>1. (PerScope + 1) * s + (PerScope + 1) <= (PerScope + 1) * Scopes
    BY <1>3, <1>4, Apart
  <2>2. (PerScope + 1) * s \in Nat /\ (PerScope + 1) * Scopes \in Int
    BY <1>3
  <2>3. Total = (PerScope + 1) * Scopes
    BY DEF Total
  <2> QED BY <1>3, <2>1, <2>2, <2>3 DEF All
<1>6. n % (PerScope + 1) = r + 1 /\ n \div (PerScope + 1) = s
  <2> DEFINE D == PerScope + 1
             t == r + 1
  <2>1. D \in Nat \ {0} /\ t \in 0..(D - 1) /\ s \in Int
    BY <1>3
  <2>2. n \in Nat /\ n = D * s + t
    BY <1>3
  <2> HIDE DEF n, D, t
  <2>3. n % D = t /\ n \div D = s
    BY <2>1, <2>2, Written
  <2> QED BY <2>3 DEF D, t
<1>7. ~IsScope(n) /\ ScopeOf(n) = s /\ CollectionOf(n) = c
  <2> HIDE DEF n
  <2>1. CollectionOf(n) = s * PerScope + (r + 1) - 1
    BY <1>6 DEF CollectionOf, ScopeOf
  <2>2. s * PerScope = PerScope * s /\ PerScope * s \in Int
    BY <1>3
  <2> QED BY <1>3, <1>6, <2>1, <2>2 DEF IsScope, ScopeOf
<1>8. ScopeNum(num) = s /\ CollectionNum(num) = c
  BY DEF ScopeNum, s, c
<1> HIDE DEF n
<1> QED BY <1>5, <1>7, <1>8 DEF IsFound

-----------------------------------------------------------------------------
(* The invariant *)

\* No handle has begun, and what exists already is an initial segment.
LEMMA InitIInv == Init => IInv
<1> SUFFICES ASSUME Init PROVE IInv
  OBVIOUS
<1> USE TotalPositive
<1> PICK n \in 0..Total : created = 0..(n - 1)
  BY DEF Init
<1>1. TypeOK
  <2>1. spoiled \in BOOLEAN
    BY Zenon DEF Init
  <2>2. created \subseteq All
    BY DEF All
  <2>3. pos \in [Handles -> 0..Total] /\ \A h \in Handles : pc[h] = "load"
    BY DEF Init
  <2> QED BY <2>1, <2>2, <2>3 DEF Init, TypeOK
<1>2. Segment
  BY DEF Segment
<1>3. Behind /\ FlagFirst /\ Untouched /\ RaceHarmless /\ AtZero /\ NotMissed
  BY DEF Init, Behind, FlagFirst, Untouched, RaceHarmless, AtZero, NotMissed
<1> QED BY <1>1, <1>2, <1>3 DEF IInv

\* A handle reads the flag: it stays at position 0, or has nothing to create.
LEMMA LoadStep == \A h \in Handles : IInv /\ Load(h) => IInv'
<1> SUFFICES ASSUME NEW h \in Handles, IInv, Load(h) PROVE IInv'
  OBVIOUS
<1> USE DEF IInv, Load
<1>1. TypeOK'
  BY DEF TypeOK, Outcomes, All
<1>2. Segment' /\ FlagFirst' /\ Untouched' /\ AtZero'
  BY DEF AtZero, TypeOK, Segment, FlagFirst, Untouched, All
<1>3. Behind'
  BY DEF AtZero, TypeOK, Behind, All
<1>4. RaceHarmless'
  BY DEF TypeOK, RaceHarmless, All
<1>5. NotMissed'
  BY DEF TypeOK, NotMissed
<1> QED BY <1>1, <1>2, <1>3, <1>4, <1>5

\* The handle that sets the flag first is at the front, position 0.
LEMMA StoreStep == \A h \in Handles : IInv /\ Store(h) => IInv'
<1> SUFFICES ASSUME NEW h \in Handles, IInv, Store(h) PROVE IInv'
  OBVIOUS
<1> USE TotalPositive DEF IInv, Store
<1>1. TypeOK'
  <2>1. pc' \in [Handles -> {"load", "store", "create"} \cup Outcomes]
    BY DEF TypeOK
  <2>2. \A g \in Handles : pc'[g] = "create" => pos[g] < Total
    BY DEF TypeOK, AtZero
  <2> QED BY <2>1, <2>2 DEF TypeOK
<1>2. Segment' /\ FlagFirst' /\ Untouched' /\ AtZero'
  <2>1. Segment'
    BY DEF Segment
  <2>2. FlagFirst' /\ Untouched'
    BY DEF TypeOK, FlagFirst, Untouched
  <2>3. AtZero'
    BY DEF TypeOK, AtZero
  <2> QED BY <2>1, <2>2, <2>3
<1>3. Behind'
  BY DEF AtZero, TypeOK, Behind, All
<1>4. RaceHarmless'
  <2>1. CASE flag
    BY <2>1 DEF TypeOK, RaceHarmless, All
  <2>2. CASE ~flag
    BY <2>2 DEF TypeOK, RaceHarmless, Untouched, All
  <2> QED BY <2>1, <2>2
<1>5. NotMissed'
  BY DEF TypeOK, NotMissed
<1> QED BY <1>1, <1>2, <1>3, <1>4, <1>5

\* The front moves on by one, and the handle that moved it is there.
LEMMA CreatedStep == \A h \in Handles : IInv /\ Created(h) => IInv'
<1> SUFFICES ASSUME NEW h \in Handles, IInv, Created(h) PROVE IInv'
  OBVIOUS
<1> USE TotalPositive DEF IInv, Created
<1>a. pos[h] \in Nat /\ pos[h] < Total /\ pos[h] \notin created
  BY DEF TypeOK
<1>b. \A m \in created : m < pos[h]
  <2> SUFFICES ASSUME NEW m \in created, ~(m < pos[h]) PROVE FALSE
    OBVIOUS
  <2>1. m \in Nat
    BY DEF TypeOK, All
  <2>2. pos[h] \in 0..m
    BY <1>a, <2>1
  <2> QED BY <1>a, <2>2 DEF Segment
<1>c. created = 0..(pos[h] - 1)
  <2>1. \A m \in 0..(pos[h] - 1) : m \in created
    BY DEF Behind
  <2>2. \A m \in created : m \in Nat
    BY DEF TypeOK, All
  <2>3. \A m \in created : m \in 0..(pos[h] - 1)
    BY <1>a, <1>b, <2>2
  <2> HIDE DEF IInv, Created
  <2> QED BY <2>1, <2>3
<1>d. created' = 0..pos[h]
  <2>1. created' = created \cup {pos[h]}
    OBVIOUS
  <2> QED BY <1>a, <1>c, <2>1
<1>1. TypeOK'
  <2>1. pc' \in [Handles -> {"load", "store", "create"} \cup Outcomes]
    BY DEF TypeOK, Outcomes
  <2>2. pos' \in [Handles -> 0..Total]
    BY <1>a DEF TypeOK
  <2>3. \A g \in Handles : pc'[g] = "create" => pos'[g] < Total
    BY <1>a DEF TypeOK
  <2>4. created' \subseteq All
    <3>1. pos[h] \in All /\ created \subseteq All
      BY <1>a DEF TypeOK, All
    <3> QED BY <3>1
  <2> QED BY <2>1, <2>2, <2>3, <2>4 DEF TypeOK
<1>2. Segment'
  BY <1>a, <1>d DEF Segment
<1>3. FlagFirst' /\ Untouched' /\ AtZero'
  BY DEF AtZero, TypeOK, FlagFirst, Untouched, Outcomes
<1>4. Behind'
  <2>1. pos[h] + 1 = Total => created' = All
    BY <1>a, <1>d DEF All
  <2>2. created # All
    BY <1>a DEF All
  <2> QED BY <1>a, <1>c, <1>d, <2>1, <2>2 DEF TypeOK, Behind
<1>5. RaceHarmless'
  <2>1. CASE pos[h] + 1 = Total
    BY <2>1, <1>a, <1>d DEF RaceHarmless, All
  <2>2. CASE pos[h] + 1 # Total
    <3>1. pc'[h] = "create" /\ pos'[h] = pos[h] + 1
      BY <2>2, <1>a DEF TypeOK
    <3>2. pos'[h] \notin created'
      BY <3>1, <1>a, <1>d
    <3> QED BY <3>1, <3>2 DEF RaceHarmless
  <2> QED BY <2>1, <2>2
<1>6. NotMissed'
  BY DEF TypeOK, NotMissed
<1> QED BY <1>1, <1>2, <1>3, <1>4, <1>5, <1>6

\* Who fails for an existing creation is behind the front.
LEMMA ExistsStep == \A h \in Handles : IInv /\ Exists(h) => IInv'
<1> SUFFICES ASSUME NEW h \in Handles, IInv, Exists(h) PROVE IInv'
  OBVIOUS
<1> USE TotalPositive DEF IInv, Exists
<1>1. TypeOK'
  BY DEF TypeOK, Outcomes, All
<1>2. Segment' /\ FlagFirst' /\ Untouched' /\ AtZero'
  BY DEF AtZero, TypeOK, Segment, FlagFirst, Untouched, All
<1>3. Behind'
  BY DEF TypeOK, Behind, All
<1>4. RaceHarmless'
  BY DEF TypeOK, RaceHarmless, All
<1>5. NotMissed'
  BY DEF TypeOK, NotMissed
<1> QED BY <1>1, <1>2, <1>3, <1>4, <1>5

\* A creation that fails may still have happened.
LEMMA FailsStep == \A h \in Handles : IInv /\ Fails(h) => IInv'
<1> SUFFICES ASSUME NEW h \in Handles, IInv, Fails(h) PROVE IInv'
  OBVIOUS
<1> USE TotalPositive DEF IInv, Fails
<1>a. pos[h] \in Nat /\ pos[h] < Total
  BY DEF TypeOK
<1>1. TypeOK'
  BY <1>a DEF TypeOK, Outcomes, All
<1>2. Segment'
  BY <1>a DEF TypeOK, Segment, Behind, All
<1>3. FlagFirst' /\ Untouched' /\ RaceHarmless' /\ AtZero'
  BY DEF AtZero, TypeOK, FlagFirst, Untouched, RaceHarmless
<1>4. Behind'
  <2>1. created = All => created' = All
    <3>1. pos[h] \in All
      BY <1>a DEF All
    <3> QED BY <3>1
  <2> QED BY <2>1 DEF TypeOK, Behind
<1>5. NotMissed'
  BY DEF TypeOK, NotMissed
<1> QED BY <1>1, <1>2, <1>3, <1>4, <1>5

\* The use of a collection changes nothing that exists.
LEMMA UseStep == \A h \in Handles : IInv /\ (Use(h) \/ UseNoNumber(h)) => IInv'
<1> SUFFICES ASSUME NEW h \in Handles, IInv, Use(h) \/ UseNoNumber(h) PROVE IInv'
  OBVIOUS
<1>1. UNCHANGED <<flag, created, pc, pos, spoiled>>
  BY DEF Use, UseNoNumber
<1>2. up' \in BOOLEAN /\ missed' \in [Handles -> BOOLEAN]
  <2>1. CASE Use(h)
    <3>1. PICK num \in KeyNumbers : missed' = [missed EXCEPT ![h] = @ \/ ~IsFound(num)]
      BY <2>1 DEF Use
    <3>2. (missed[h] \/ ~IsFound(num)) \in BOOLEAN
      BY Zenon
    <3> QED BY <2>1, <3>1, <3>2 DEF Use, IInv, TypeOK
  <2>2. CASE UseNoNumber(h)
    BY <2>2 DEF UseNoNumber, IInv, TypeOK
  <2> QED BY <2>1, <2>2
<1>3. TypeOK'
  BY <1>1, <1>2 DEF IInv, TypeOK
<1>4. NotMissed'
  <2>1. CASE Use(h)
    <3>1. PICK num \in KeyNumbers : missed' = [missed EXCEPT ![h] = @ \/ ~IsFound(num)]
      BY <2>1 DEF Use
    <3>2. \A g \in Handles : g # h => missed'[g] = missed[g]
      BY <3>1 DEF IInv, TypeOK
    <3>3. pc[h] = "generated" => ~missed'[h]
      <4> SUFFICES ASSUME pc[h] = "generated" PROVE ~missed'[h]
        OBVIOUS
      <4>1. created = All
        BY DEF IInv, Behind
      <4>2. num \in 0..999
        BY CollectionsAssumption
      <4>3. IsFound(num)
        BY <4>1, <4>2, AllAreFound
      <4>4. ~missed[h]
        BY DEF IInv, NotMissed
      <4>5. missed'[h] = (missed[h] \/ ~IsFound(num))
        <5>1. h \in DOMAIN missed
          BY DEF IInv, TypeOK
        <5> QED BY <3>1, <5>1, Zenon
      <4> QED BY <4>3, <4>4, <4>5, Zenon
    <3>4. pc[h] \in Outcomes
      BY <2>1 DEF Use, IsOpen, Outcomes
    <3> QED BY <1>1, <3>2, <3>3, <3>4 DEF IInv, NotMissed, Outcomes
  <2>2. CASE UseNoNumber(h)
    BY <2>2 DEF UseNoNumber, IInv, NotMissed
  <2> QED BY <2>1, <2>2
<1> QED BY <1>1, <1>3, <1>4
       DEF IInv, AtZero, Segment, Behind, FlagFirst, Untouched, RaceHarmless

\* The invariant holds of every state.
THEOREM Invariance == Spec => []IInv
<1>1. Init => IInv
  BY InitIInv
<1>2. IInv /\ [Next]_vars => IInv'
  <2> SUFFICES ASSUME IInv, [Next]_vars PROVE IInv'
    OBVIOUS
  <2>1. CASE Next
    BY <2>1, LoadStep, StoreStep, CreatedStep, ExistsStep, FailsStep, UseStep
       DEF Next, Opening
  <2>2. CASE UNCHANGED vars
    BY <2>2 DEF vars, IInv, AtZero, TypeOK, Segment, Behind, FlagFirst, Untouched, RaceHarmless,
                NotMissed
  <2> QED BY <2>1, <2>2
<1> QED BY <1>1, <1>2, PTL DEF Spec

\* Type correctness: no handle leaves the loops' range (generateCollections).
THEOREM TypeCorrect == Spec => []TypeOK
<1>1. IInv => TypeOK
  BY DEF IInv
<1> QED BY <1>1, Invariance, PTL

\* The unguarded load and store of collectionsGenerated never leave the collections
\* half made by themselves: some creating handle is at the front.
THEOREM RaceIsHarmless == Spec => []RaceHarmless
<1>1. IInv => RaceHarmless
  BY DEF IInv
<1> QED BY <1>1, Invariance, PTL

\* Collections are made in the loops' order, without gaps, by any number of handles
\* at once.
THEOREM MadeInOrder == Spec => []NoGaps
<1>1. IInv => NoGaps
  <2> SUFFICES ASSUME IInv, NEW n \in created, n # 0 PROVE n - 1 \in created
    BY DEF NoGaps
  <2>1. n \in Nat
    BY TotalPositive DEF IInv, TypeOK, All
  <2> QED BY <2>1 DEF IInv, Segment
<1> QED BY <1>1, Invariance, PTL

\* Whoever generated the collections finds those of all its keys, whatever the
\* number of scopes and of collections in each.
THEOREM GeneratorFinds == Spec => []GeneratorFindsAll
<1>1. IInv => GeneratorFindsAll
  BY DEF IInv, NotMissed, GeneratorFindsAll
<1> QED BY <1>1, Invariance, PTL
=============================================================================
