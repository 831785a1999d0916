-------------------------- MODULE ResultSet_proofs --------------------------
(***************************************************************************)
(* Proofs about the time windows of a result set, for every TimeRes, every *)
(* length of an outage and any number of results.                          *)
(*                                                                         *)
(* The argument: from the first result on, cur_wintime, win_begin and all  *)
(* frames are multiples of Step, and the last window is the one of         *)
(* cur_wintime.  Hence the rounded division in Missed is exact, and the    *)
(* windows opened by a result end exactly at its frame.                    *)
(***************************************************************************)
EXTENDS ResultSet, Recursion, SequenceTheorems, FiniteSetTheorems, TLAPS

-----------------------------------------------------------------------------
(* Arithmetic *)

\* A quotient of large numbers is large.
LEMMA DivLow ==
    ASSUME NEW a \in Int, NEW d \in Nat \ {0}, NEW m \in Int, a >= d * m
    PROVE  a \div d >= m
OBVIOUS

\* Rounding up a multiple of d changes nothing.
LEMMA DivUp ==
    ASSUME NEW k \in Int, NEW d \in Nat \ {0}
    PROVE  (d * k + d - 1) \div d = k
OBVIOUS

\* The quotient grows with the dividend.
LEMMA DivMonotone ==
    ASSUME NEW a \in Int, NEW b \in Int, NEW d \in Nat \ {0}, a <= b
    PROVE  a \div d <= b \div d
<1>1. b >= d * (a \div d)  BY DivMod
<1> QED  BY <1>1, DivMod, DivLow

\* The largest multiple of d up to a.
LEMMA RoundDown ==
    ASSUME NEW a \in Int, NEW d \in Nat \ {0}
    PROVE  a - (a % d) = d * (a \div d)
BY DivMod

\* Products grow with a factor.
LEMMA TimesMonotone ==
    ASSUME NEW d \in Nat, NEW x \in Int, NEW y \in Int, x <= y
    PROVE  d * x <= d * y
OBVIOUS

\* Multiples in order are ordered as their factors.
LEMMA TimesOrder ==
    ASSUME NEW d \in Nat \ {0}, NEW x \in Int, NEW y \in Int, d * x < d * y
    PROVE  y - x >= 1
OBVIOUS

-----------------------------------------------------------------------------
(* The windows *)

Window == [count : Nat, time_min : 0..(Width - 1), time_max : 0..(Width - 1),
           durations : Seq(Int), ec : [Outcomes -> Nat], frames : SUBSET Nat]

-----------------------------------------------------------------------------
(* Sums over the windows *)

\* u holds the sums of the results with outcome o in the first windows.
SumsOf(u, windows, o) ==
    /\ u \in [0..Len(windows) -> Nat]
    /\ u[0] = 0
    /\ \A i \in 1..Len(windows) : u[i] = u[i - 1] + windows[i].ec[o]

\* The recursion in CountedIn has a solution.
LEMMA SumsExist ==
    ASSUME NEW windows \in Seq(Window), NEW o \in Outcomes
    PROVE  \E u : SumsOf(u, windows, o)
<1> DEFINE L == Len(windows)
           w == [n \in Nat |-> IF n \in 1..L THEN windows[n].ec[o] ELSE 0]
<1>1. L \in Nat  OBVIOUS
<1>2. w \in [Nat -> Nat]
  <2>1. \A n \in 1..L : windows[n] \in Window  BY ElementOfSeq
  <2>2. \A n \in 1..L : windows[n].ec[o] \in Nat  BY <2>1 DEF Window
  <2> QED  BY <2>2
<1>3. PICK f \in [Nat -> Nat] : \A n \in Nat : f[n] = IF n = 0 THEN 0 ELSE f[n - 1] + w[n]
  <2> HIDE DEF w
  <2> QED  BY <1>2, PartialSums
<1> HIDE DEF L
<1> DEFINE u == [i \in 0..L |-> f[i]]
<1>4. u \in [0..L -> Nat]  OBVIOUS
<1>5. u[0] = 0  BY <1>1, <1>3
<1>6. ASSUME NEW i \in 1..L PROVE u[i] = u[i - 1] + windows[i].ec[o]
  <2>1. i \in Nat /\ i # 0 /\ i \in 0..L /\ i - 1 \in 0..L  BY <1>1
  <2>2. w[i] = windows[i].ec[o]  BY <2>1
  <2>3. u[i] = f[i] /\ u[i - 1] = f[i - 1]  BY <2>1
  <2> QED  BY <1>3, <2>1, <2>2, <2>3
<1> HIDE DEF u
<1>7. SumsOf(u, windows, o)  BY <1>4, <1>5, <1>6 DEF SumsOf, L
<1> QED  BY <1>7

\* CountedIn is the last of these sums.
LEMMA CountedInIsSum ==
    ASSUME NEW windows \in Seq(Window), NEW o \in Outcomes
    PROVE  \E u : SumsOf(u, windows, o) /\ CountedIn(windows, o) = u[Len(windows)]
<1> DEFINE L == Len(windows)
           Eq(u) == u = [i \in 0..L |-> IF i = 0 THEN 0 ELSE u[i - 1] + windows[i].ec[o]]
           v == CHOOSE u : Eq(u)
<1>1. L \in Nat  OBVIOUS
<1>2. CountedIn(windows, o) = v[L]  BY DEF CountedIn
<1>3. PICK u : SumsOf(u, windows, o)  BY SumsExist
<1>4. Eq(u)  BY <1>3 DEF SumsOf
<1>5. Eq(v)
  <2> HIDE DEF Eq
  <2> QED  BY <1>4
<1> HIDE DEF v
<1>6. \A i \in 0..L : v[i] = IF i = 0 THEN 0 ELSE v[i - 1] + windows[i].ec[o]  BY <1>5
<1>7. ASSUME NEW i \in 0..L PROVE v[i] = u[i]
  <2> DEFINE S == {j \in Nat : j <= L => v[j] = u[j]}
  <2>1. 0 \in S  BY <1>1, <1>3, <1>6 DEF SumsOf
  <2>2. ASSUME NEW j \in Nat, j \in S PROVE j + 1 \in S
    <3> SUFFICES ASSUME j + 1 <= L PROVE v[j + 1] = u[j + 1]  OBVIOUS
    <3>1. j + 1 \in 1..L /\ j + 1 \in 0..L /\ (j + 1) - 1 = j /\ j + 1 # 0  BY <1>1
    <3>2. v[j] = u[j]  BY <2>2, <3>1
    <3>3. v[j + 1] = v[(j + 1) - 1] + windows[j + 1].ec[o]  BY <1>6, <3>1
    <3>4. u[j + 1] = u[(j + 1) - 1] + windows[j + 1].ec[o]  BY <1>3, <3>1 DEF SumsOf
    <3> QED  BY <3>1, <3>2, <3>3, <3>4
  <2> HIDE DEF S
  <2>3. i \in S  BY <2>1, <2>2, Induction
  <2> QED  BY <2>3 DEF S
<1>8. v[L] = u[L]  BY <1>1, <1>7
<1> QED  BY <1>2, <1>3, <1>8

\* One more result in the last window, behind any number of empty new ones, is one more
\* in the sum.
LEMMA CountedInGrows ==
    ASSUME NEW old \in Seq(Window), NEW new \in Seq(Window), NEW o \in Outcomes,
           NEW d \in Nat, Len(old) <= Len(new), new # <<>>,
           \A i \in 1..Len(new) :
               new[i].ec[o] = (IF i <= Len(old) THEN old[i].ec[o] ELSE 0)
                              + (IF i = Len(new) THEN d ELSE 0)
    PROVE  CountedIn(new, o) = CountedIn(old, o) + d
<1> DEFINE L == Len(old)
           M == Len(new)
<1>1. L \in Nat /\ M \in Nat /\ M >= 1 /\ L <= M  OBVIOUS
<1>2. PICK u : SumsOf(u, old, o) /\ CountedIn(old, o) = u[L]  BY CountedInIsSum
<1>3. PICK v : SumsOf(v, new, o) /\ CountedIn(new, o) = v[M]  BY CountedInIsSum
<1>4. /\ u \in [0..L -> Nat] /\ u[0] = 0
      /\ \A i \in 1..L : u[i] = u[i - 1] + old[i].ec[o]
  BY <1>2 DEF SumsOf
<1>5. /\ v \in [0..M -> Nat] /\ v[0] = 0
      /\ \A i \in 1..M : v[i] = v[i - 1] + new[i].ec[o]
  BY <1>3 DEF SumsOf
<1>6. \A i \in 1..L : old[i].ec[o] \in Nat
  <2>1. \A i \in 1..L : old[i] \in Window  BY ElementOfSeq
  <2> QED  BY <2>1 DEF Window
<1>7. \A i \in 1..M : new[i].ec[o] = (IF i <= L THEN old[i].ec[o] ELSE 0)
                                     + (IF i = M THEN d ELSE 0)
  OBVIOUS
<1> HIDE DEF L, M
<1> DEFINE Sum(i) == (IF i <= L THEN u[i] ELSE u[L]) + (IF i = M THEN d ELSE 0)
           S == {i \in Nat : i <= M => v[i] = Sum(i)}
<1>8. 0 \in S  BY <1>1, <1>4, <1>5
<1>9. ASSUME NEW i \in Nat, i \in S PROVE i + 1 \in S
  <2> SUFFICES ASSUME i + 1 <= M PROVE v[i + 1] = Sum(i + 1)  OBVIOUS
  <2>1. i + 1 \in 1..M /\ i # M /\ i <= M  BY <1>1
  <2>2. v[i + 1] = v[i] + new[i + 1].ec[o]
    <3>1. v[i + 1] = v[(i + 1) - 1] + new[i + 1].ec[o]  BY <1>5, <2>1
    <3>2. (i + 1) - 1 = i  OBVIOUS
    <3> QED  BY <3>1, <3>2
  <2>3. v[i] = IF i <= L THEN u[i] ELSE u[L]
    <3>1. v[i] = (IF i <= L THEN u[i] ELSE u[L]) + 0  BY <1>9, <2>1
    <3>2. (IF i <= L THEN u[i] ELSE u[L]) \in Nat  BY <1>1, <1>4
    <3> QED  BY <3>1, <3>2
  <2>4. CASE i + 1 <= L
    <3>1. i + 1 \in 1..L /\ i \in 0..L /\ (i + 1) - 1 = i  BY <1>1, <2>4
    <3>2. u[i + 1] = u[(i + 1) - 1] + old[i + 1].ec[o]  BY <1>4, <3>1
    <3>3. u[i] \in Nat /\ old[i + 1].ec[o] \in Nat  BY <1>4, <1>6, <3>1
    <3>4. new[i + 1].ec[o] = old[i + 1].ec[o] + (IF i + 1 = M THEN d ELSE 0)
      BY <1>7, <2>1, <2>4
    <3>5. u[i + 1] = u[i] + old[i + 1].ec[o]  BY <3>1, <3>2
    <3> QED  BY <2>2, <2>3, <2>4, <3>1, <3>3, <3>4, <3>5
  <2>5. CASE ~(i + 1 <= L)
    <3>1. new[i + 1].ec[o] = 0 + (IF i + 1 = M THEN d ELSE 0)  BY <1>7, <2>1, <2>5
    <3>2. u[L] \in Nat  BY <1>1, <1>4
    <3>3. v[i] = u[L]  BY <1>1, <2>3, <2>5
    <3> QED  BY <2>2, <2>5, <3>1, <3>2, <3>3
  <2> QED  BY <2>4, <2>5
<1>10. M \in S
  <2> HIDE DEF S
  <2> QED  BY <1>1, <1>8, <1>9, Induction
<1>11. v[M] = Sum(M)  BY <1>1, <1>10
<1>12. Sum(M) = u[L] + d
  <2>1. M <= L => M = L  BY <1>1
  <2> QED  BY <2>1
<1> QED  BY <1>2, <1>3, <1>11, <1>12 DEF L, M

-----------------------------------------------------------------------------
(* The percentile *)

\* Of durations that have a largest one, the sorted sequence has one at every index.
LEMMA OrderStatistic ==
    ASSUME NEW n \in Nat, NEW s \in [1..n -> Nat], NEW idx \in 0..(n - 1),
           NEW top \in 1..n, \A i \in 1..n : s[i] <= s[top]
    PROVE  \E d \in {s[i] : i \in 1..n} :
              /\ Cardinality({i \in 1..n : s[i] < d}) <= idx
              /\ idx < Cardinality({i \in 1..n : s[i] <= d})
<1> DEFINE D == {s[i] : i \in 1..n}
           Upto(d) == {i \in 1..n : s[i] <= d}
           Under(d) == {i \in 1..n : s[i] < d}
           T == {d \in D : idx < Cardinality(Upto(d))}
<1>1. Upto(s[top]) = 1..n  OBVIOUS
<1>2. Cardinality(1..n) = n  BY FS_Interval
<1>3. s[top] \in T
  <2> HIDE DEF Upto
  <2> QED  BY <1>1, <1>2
<1>4. D \subseteq Nat  OBVIOUS
<1>5. PICK d \in T : \A e \in T : d <= e
  <2>1. T \subseteq Nat /\ T # {}  BY <1>3, <1>4
  <2> HIDE DEF T
  <2> QED  BY <2>1, LeastNatural
<1>6. Cardinality(Under(d)) <= idx
  <2> SUFFICES ASSUME ~(Cardinality(Under(d)) <= idx) PROVE FALSE  OBVIOUS
  <2>1. d \in Nat /\ d \in D  BY <1>4
  <2>2. IsFiniteSet(Under(d)) /\ Cardinality(Under(d)) \in Nat
    <3>1. IsFiniteSet(1..n)  BY FS_Interval
    <3>2. IsFiniteSet(Under(d))  BY <3>1, FS_Subset
    <3> HIDE DEF Under
    <3> QED  BY <3>2, FS_CardinalityType
  <2>3. Under(d) # {}
    <3> HIDE DEF Under
    <3> QED  BY <2>2, FS_EmptySet
  <2> DEFINE Gaps == {d - s[i] : i \in Under(d)}
  <2>4. Gaps \subseteq Nat /\ Gaps # {}
    <3>1. \A i \in Under(d) : d - s[i] \in Nat  BY <2>1
    <3> HIDE DEF Under
    <3> QED  BY <2>3, <3>1
  <2>5. PICK g \in Gaps : \A h \in Gaps : g <= h
    <3> HIDE DEF Gaps
    <3> QED  BY <2>4, LeastNatural
  <2>6. PICK k \in Under(d) : g = d - s[k]  OBVIOUS
  <2>7. \A i \in Under(d) : s[i] <= s[k]
    <3> SUFFICES ASSUME NEW i \in Under(d) PROVE s[i] <= s[k]  OBVIOUS
    <3>1. d - s[i] \in Gaps  OBVIOUS
    <3>2. d - s[k] <= d - s[i]  BY <2>5, <2>6, <3>1
    <3> QED  BY <2>1, <3>2
  <2>8. s[k] < d /\ s[k] \in D /\ s[k] \in Nat  OBVIOUS
  <2>9. Under(d) = Upto(s[k])
    <3>1. Under(d) \subseteq Upto(s[k])  BY <2>7
    <3>2. Upto(s[k]) \subseteq Under(d)  BY <2>1, <2>8
    <3> QED  BY <3>1, <3>2
  <2>10. s[k] \in T
    <3> HIDE DEF Upto, Under, D
    <3> QED  BY <2>2, <2>8, <2>9
  <2> HIDE DEF T
  <2> QED  BY <1>5, <2>1, <2>8, <2>10
<1> QED  BY <1>5, <1>6

\* The index is in the sorted durations unless PercentileFactor is small.
LEMMA IndexInRange ==
    ASSUME NEW n \in Nat \ {0}, PFactor >= 50
    PROVE  (IF n = 1 THEN 0 ELSE PercentileIndex(n)) \in 0..(n - 1)
<1> DEFINE q == (n * PFactor) \div 100
<1>1. PFactor \in 50..100  BY ResultSetAssumption
<1>2. n * PFactor \in Nat /\ n * PFactor <= 100 * n  BY <1>1
<1>3. n # 1 => n * PFactor >= 100
  <2>1. n * PFactor >= n * 50  BY <1>1
  <2> QED  BY <2>1, <1>2
<1>4. q \in Int /\ q <= n /\ (n # 1 => q >= 1)
  <2> DEFINE p == n * PFactor
  <2>1. p \in Nat /\ p <= 100 * n /\ (n # 1 => p >= 100)  BY <1>2, <1>3
  <2> HIDE DEF p
  <2>2. p \div 100 \in Int /\ p \div 100 <= n /\ (n # 1 => p \div 100 >= 1)  BY <2>1
  <2> QED  BY <2>2 DEF p
<1> QED  BY <1>4 DEF PercentileIndex

-----------------------------------------------------------------------------
(* The inductive invariant *)

\* The types, with what TypeOK only says of the windows' fields.
Types ==
    /\ now \in Start..MaxTime /\ timeres \in TimeRes \cup {1} /\ marks \in BOOLEAN
    /\ opstart_tmsec \in 0..MaxTime
    /\ cur_wintime \in Nat /\ win_begin \in Nat /\ latest \in Nat /\ stepped \in BOOLEAN
    /\ stats \in [Outcomes -> Nat]
    /\ timestats \in Seq(Window)
    /\ \A i \in 1..Len(timestats) : timestats[i].count = Len(timestats[i].durations)
    /\ begun \in Seq(Start..MaxTime)

\* The last window is the one of cur_wintime, a multiple of the resolution.
Aligned ==
    /\ timestats = <<>> <=> cur_wintime = 0
    /\ timestats = <<>> => latest = 0
    /\ timestats # <<>> =>
          /\ timeres >= 1
          /\ \E k \in Nat : cur_wintime = timeres * k
          /\ win_begin + (Len(timestats) - 1) * timeres = cur_wintime
          /\ latest = cur_wintime
          /\ ~stepped => cur_wintime <= Frame

\* While the clock runs forward nothing that was sent was sent later than now, or
\* than the last mark.
Forward ==
    ~stepped =>
        /\ opstart_tmsec <= now
        /\ \A i \in 1..Len(begun) : /\ begun[i] <= now
                                    /\ marks => begun[i] <= opstart_tmsec

\* Every result is in a window.
Counts == \A o \in Outcomes : CountedIn(timestats, o) = stats[o]

\* The extremes of a window are durations of its own; an empty one has zeros.
FiguresOf(win) ==
    IF win.count = 0 THEN win.time_min = 0 /\ win.time_max = 0
    ELSE LET s == win.durations
         IN  /\ \A j \in 1..win.count :
                   s[j] \in Nat /\ win.time_min <= s[j] /\ s[j] <= win.time_max
             /\ \E j \in 1..win.count : s[j] = win.time_min
             /\ \E j \in 1..win.count : s[j] = win.time_max

\* While the clock runs forward the figures agree, and the last window is not empty.
Figures ==
    ~stepped =>
        /\ \A i \in 1..Len(timestats) : FiguresOf(timestats[i])
        /\ timestats # <<>> => timestats[Len(timestats)].count > 0

IInv == Types /\ Aligned /\ Forward /\ WindowOfItsTime /\ Counts /\ Figures

\* Requests were sent at a time of the clock.
LEMMA BegunType ==
    ASSUME Types
    PROVE  \A i \in 1..Len(begun) : begun[i] \in Start..MaxTime /\ begun[i] \in Int
<1>1. Start..MaxTime \subseteq Int  OBVIOUS
<1>2. \A i \in 1..Len(begun) : begun[i] \in Start..MaxTime
  BY ElementOfSeq DEF Types
<1> QED  BY <1>1, <1>2

-----------------------------------------------------------------------------
(* Frames *)

\* The resolution in use, and what the assumption says of it.
LEMMA StepType ==
    ASSUME Types
    PROVE  /\ Step \in Nat \ {0} /\ Step \in TimeRes \cup {1}
           /\ now \in Nat /\ now >= Second * Step /\ Second \in Nat \ {0}
<1>1. timeres = 0 => Step = 1  BY DEF Step
<1>2. timeres # 0 => Step = timeres  BY DEF Step
<1>3. Step \in Nat \ {0} /\ Step \in TimeRes \cup {1}
  BY <1>1, <1>2, ResultSetAssumption DEF Types
<1>4. Start >= Second * Step
  <2>1. CASE Step = 1  BY <2>1, ResultSetAssumption
  <2>2. CASE Step \in TimeRes  BY <2>2, ResultSetAssumption
  <2> QED  BY <1>3, <2>1, <2>2
<1>5. now \in Nat /\ now >= Start  BY ResultSetAssumption DEF Types
<1>6. Second * Step \in Nat  BY <1>3, ResultSetAssumption
<1> QED  BY <1>3, <1>4, <1>5, <1>6, ResultSetAssumption

\* A frame is a positive multiple of the resolution.
LEMMA FrameType ==
    ASSUME Types
    PROVE  /\ Frame \in Nat \ {0}
           /\ \E k \in Nat : Frame = Step * k
<1> DEFINE q == now \div Second
           k == q \div Step
<1>1. q \in Int /\ q >= Step
  <2>1. now \in Int /\ Second \in Nat \ {0} /\ Step \in Int /\ now >= Second * Step
    BY StepType
  <2>2. q \in Int  BY <2>1, DivMod
  <2> QED  BY <2>1, <2>2, DivLow
<1>2. Frame = Step * k  BY <1>1, StepType, RoundDown DEF Frame
<1>3. k \in Int /\ k >= 1
  <2>1. k \in Int  BY <1>1, StepType, DivMod
  <2>2. q >= Step * 1  BY <1>1, StepType
  <2> HIDE DEF q
  <2> QED  BY <1>1, <2>1, <2>2, StepType, DivLow
<1> HIDE DEF k
<1>4. Step * k >= Step * 1  BY <1>3, StepType, TimesMonotone
<1>5. Step * k \in Int  BY <1>3, StepType
<1> QED  BY <1>2, <1>3, <1>4, <1>5, StepType

\* When the clock has gone on, the missed windows are counted exactly.
LEMMA MissedExact ==
    ASSUME Types, Aligned, timestats # <<>>, cur_wintime < Frame
    PROVE  Missed \in Nat \ {0} /\ cur_wintime + Missed * Step = Frame
<1>1. Step = timeres  BY DEF Aligned, Step, Types
<1>2. PICK k \in Nat : cur_wintime = Step * k  BY <1>1 DEF Aligned
<1>3. PICK m \in Nat : Frame = Step * m  BY FrameType
<1>4. m - k >= 1  BY <1>2, <1>3, StepType, TimesOrder
<1>5. Frame - cur_wintime = Step * (m - k)  BY <1>2, <1>3, StepType
<1>6. Missed = (Step * (m - k) + Step - 1) \div Step  BY <1>5 DEF Missed
<1>7. Missed = m - k  BY <1>6, StepType, DivUp
<1>8. (m - k) * Step = Step * (m - k)  BY StepType
<1>9. Missed * Step = Frame - cur_wintime  BY <1>5, <1>7, <1>8
<1>10. cur_wintime \in Int /\ Frame \in Int  BY FrameType DEF Types
<1>11. Missed \in Nat \ {0}  BY <1>4, <1>7
<1> HIDE DEF Missed
<1>12. Missed * Step \in Int  BY <1>9, <1>10
<1> QED  BY <1>9, <1>10, <1>11, <1>12

-----------------------------------------------------------------------------
(* Windows *)

\* A window with one more result.
LEMMA CountedType ==
    ASSUME Types, NEW win \in Window, NEW o \in Outcomes, win.count = Len(win.durations)
    PROVE  /\ Counted(win, o) \in Window
           /\ Counted(win, o).count = Len(Counted(win, o).durations)
           /\ Counted(win, o).frames = win.frames \cup {Frame}
<1> DEFINE c == Counted(win, o)
<1>1. Duration \in Int  BY ResultSetAssumption DEF Types, Duration
<1>2. Width \in Nat \ {0}  BY ResultSetAssumption
<1>3. Duration % Width \in 0..(Width - 1)  BY <1>1, <1>2, DivMod
<1>4. /\ Lesser(win.time_min, Duration % Width) \in 0..(Width - 1)
      /\ Greater(win.time_max, Duration % Width) \in 0..(Width - 1)
  BY <1>3 DEF Window, Lesser, Greater
<1>5. /\ Append(win.durations, Duration) \in Seq(Int)
      /\ Len(Append(win.durations, Duration)) = Len(win.durations) + 1
  BY <1>1 DEF Window
<1>6. [win.ec EXCEPT ![o] = @ + 1] \in [Outcomes -> Nat]  BY DEF Window
<1>7. win.frames \cup {Frame} \in SUBSET Nat  BY FrameType DEF Window
<1>8. win.count + 1 \in Nat  BY DEF Window
<1>9. c \in Window
  BY <1>4, <1>5, <1>6, <1>7, <1>8 DEF Counted, Window
<1>10. /\ c.count = win.count + 1 /\ c.durations = Append(win.durations, Duration)
       /\ c.frames = win.frames \cup {Frame}
  BY DEF Counted, Window
<1> QED  BY <1>5, <1>9, <1>10

\* The windows that a result opens: new ones have counted nothing.
LEMMA NewWindowsType ==
    /\ NewWindow \in Window /\ GapWindow \in Window
    /\ NewWindow.count = Len(NewWindow.durations) /\ NewWindow.frames = {}
    /\ GapWindow.count = Len(GapWindow.durations) /\ GapWindow.frames = {}
    /\ \A o \in Outcomes : NewWindow.ec[o] = 0 /\ GapWindow.ec[o] = 0
    /\ FiguresOf(GapWindow)
<1>1. Width - 1 \in 0..(Width - 1) /\ 0 \in 0..(Width - 1)  BY ResultSetAssumption
<1>2. [o \in Outcomes |-> 0] \in [Outcomes -> Nat]  OBVIOUS
<1>3. <<>> \in Seq(Int) /\ Len(<<>>) = 0  OBVIOUS
<1>4. NewWindow \in Window  BY <1>1, <1>2, <1>3 DEF NewWindow, Window
<1>5. NewWindow.count = 0 /\ NewWindow.durations = <<>> /\ NewWindow.frames = {}
  BY DEF NewWindow
<1>6. GapWindow \in Window  BY <1>1, <1>4 DEF GapWindow, Window
<1>7. GapWindow.count = 0 /\ GapWindow.durations = <<>> /\ GapWindow.frames = {}
  BY <1>4, <1>5 DEF GapWindow, Window
<1>8. \A o \in Outcomes : NewWindow.ec[o] = 0  BY DEF NewWindow
<1>9. \A o \in Outcomes : GapWindow.ec[o] = 0  BY <1>4, <1>8 DEF GapWindow, Window
<1>10. FiguresOf(GapWindow)
  <2>1. GapWindow.time_min = 0 /\ GapWindow.time_max = 0  BY DEF GapWindow, NewWindow
  <2> QED  BY <1>7, <2>1 DEF FiguresOf
<1> QED  BY <1>3, <1>4, <1>5, <1>6, <1>7, <1>8, <1>9, <1>10

\* Durations are not negative while the clock runs forward, and fit.
LEMMA DurationRange ==
    ASSUME Types, Forward, ~stepped
    PROVE  Duration \in 0..(Width - 1) /\ Duration % Width = Duration
<1>1. Duration \in 0..(Width - 1)
  BY ResultSetAssumption DEF Types, Forward, Duration
<1> HIDE DEF Duration
<1>2. \A a \in 0..(Width - 1) : a % Width = a  BY ResultSetAssumption
<1> QED  BY <1>1, <1>2

\* The figures of a window agree after its first result and after every other.
LEMMA CountedFigures ==
    ASSUME Types, Forward, ~stepped, NEW win \in Window, NEW o \in Outcomes,
           win.count = Len(win.durations),
           win = NewWindow \/ (FiguresOf(win) /\ win.count > 0)
    PROVE  FiguresOf(Counted(win, o)) /\ Counted(win, o).count > 0
<1> DEFINE c == Counted(win, o)
           s == win.durations
           n == win.count
           d == Duration
<1>1. d \in 0..(Width - 1) /\ d % Width = d  BY DurationRange
<1>2. Width \in Nat \ {0}  BY ResultSetAssumption
<1>3. /\ c.count = n + 1 /\ c.durations = Append(s, d)
      /\ c.time_min = Lesser(win.time_min, d) /\ c.time_max = Greater(win.time_max, d)
  BY <1>1 DEF Counted, Window
<1>4. /\ s \in Seq(Int) /\ n \in Nat /\ n = Len(s)
      /\ win.time_min \in 0..(Width - 1) /\ win.time_max \in 0..(Width - 1)
  BY DEF Window
<1> HIDE DEF s, n, d, c
<1>5. \A j \in 1..(n + 1) : c.durations[j] = IF j <= n THEN s[j] ELSE d
  <2>1. d \in Int  BY <1>1
  <2> QED  BY <1>3, <1>4, <2>1
<1>6. /\ c.time_min <= d /\ d <= c.time_max
      /\ c.time_min <= win.time_min /\ win.time_max <= c.time_max
      /\ c.time_min \in {win.time_min, d} /\ c.time_max \in {win.time_max, d}
      /\ c.time_min \in Nat /\ c.time_max \in Nat /\ d \in Nat
  BY <1>1, <1>2, <1>3, <1>4 DEF Lesser, Greater
<1>7. CASE win = NewWindow
  <2>1. n = 0 /\ win.time_min = Width - 1 /\ win.time_max = 0  BY <1>7 DEF NewWindow, n
  <2>2. c.time_min = d /\ c.time_max = d
    BY <1>1, <1>2, <1>3, <2>1 DEF Lesser, Greater
  <2>3. c.durations[1] = d /\ c.count = 1  BY <1>3, <1>5, <2>1
  <2> QED  BY <1>6, <2>2, <2>3 DEF FiguresOf, c
<1>8. CASE FiguresOf(win) /\ n > 0
  <2>1. \A j \in 1..n : s[j] \in Nat /\ win.time_min <= s[j] /\ s[j] <= win.time_max
    BY <1>8 DEF FiguresOf, s, n
  <2>2. PICK k \in 1..n : s[k] = win.time_min  BY <1>8 DEF FiguresOf, s, n
  <2>3. PICK l \in 1..n : s[l] = win.time_max  BY <1>8 DEF FiguresOf, s, n
  <2>4. c.durations[n + 1] = d /\ n + 1 \in 1..(n + 1)  BY <1>4, <1>5
  <2>5. c.durations[k] = win.time_min /\ k \in 1..(n + 1)  BY <1>4, <1>5, <2>2
  <2>6. c.durations[l] = win.time_max /\ l \in 1..(n + 1)  BY <1>4, <1>5, <2>3
  <2>7. \A j \in 1..(n + 1) :
           /\ c.durations[j] \in Nat
           /\ c.time_min <= c.durations[j] /\ c.durations[j] <= c.time_max
    <3> SUFFICES ASSUME NEW j \in 1..(n + 1)
                 PROVE  /\ c.durations[j] \in Nat
                        /\ c.time_min <= c.durations[j] /\ c.durations[j] <= c.time_max
      OBVIOUS
    <3>1. CASE j <= n
      <4>1. j \in 1..n  BY <1>4, <3>1
      <4>2. c.durations[j] = s[j]  BY <1>5, <3>1
      <4> QED  BY <1>4, <1>6, <2>1, <4>1, <4>2
    <3>2. CASE ~(j <= n)  BY <1>5, <1>6, <3>2
    <3> QED  BY <3>1, <3>2
  <2>8. \E j \in 1..(n + 1) : c.durations[j] = c.time_min  BY <1>6, <2>4, <2>5
  <2>9. \E j \in 1..(n + 1) : c.durations[j] = c.time_max  BY <1>6, <2>4, <2>6
  <2>10. c.count > 0 /\ c.count # 0  BY <1>3, <1>4
  <2> QED  BY <1>3, <2>7, <2>8, <2>9, <2>10 DEF FiguresOf, c
<1> QED  BY <1>7, <1>8 DEF n

\* The last of the opened windows is the one of the result's frame, and the windows
\* before the new ones are untouched.
LEMMA OpenedFacts ==
    ASSUME Types, Aligned
    PROVE  LET n == Len(timestats)
           IN  /\ Opened \in Seq(Window) /\ Len(Opened) \in Nat \ {0}
               /\ Len(Opened) = IF timestats = <<>> THEN 1
                                ELSE IF cur_wintime < Frame THEN n + Missed ELSE n
               /\ \A i \in 1..Len(Opened) :
                     /\ Opened[i].count = Len(Opened[i].durations)
                     /\ IF i <= n THEN Opened[i] = timestats[i]
                        ELSE /\ Opened[i].frames = {}
                             /\ Opened[i] = IF i = Len(Opened) THEN NewWindow ELSE GapWindow
<1> DEFINE n == Len(timestats)
<1>1. n \in Nat /\ timestats \in Seq(Window)  BY DEF Types
<1>2. CASE timestats = <<>>
  <2>1. Opened = <<NewWindow>> /\ n = 0  BY <1>2 DEF Opened, Aligned
  <2> QED  BY <1>2, <2>1, NewWindowsType
<1>3. CASE timestats # <<>> /\ cur_wintime < Frame
  <2> DEFINE gap == [i \in 1..Missed |-> IF i = Missed THEN NewWindow ELSE GapWindow]
  <2>1. Missed \in Nat \ {0}  BY <1>3, MissedExact
  <2>2. gap \in Seq(Window) /\ Len(gap) = Missed  BY <2>1, NewWindowsType
  <2>3. \A i \in 1..Missed : gap[i].count = Len(gap[i].durations) /\ gap[i].frames = {}
    BY NewWindowsType
  <2>4. \A i \in 1..Missed : gap[i] = IF i = Missed THEN NewWindow ELSE GapWindow
    OBVIOUS
  <2>5. Opened = timestats \o gap  BY <1>3 DEF Opened, Aligned
  <2> HIDE DEF gap
  <2>6. Opened \in Seq(Window) /\ Len(Opened) = n + Missed
    BY <1>1, <2>2, <2>5, ConcatProperties
  <2>7. \A i \in 1..Len(Opened) :
            Opened[i] = IF i <= n THEN timestats[i] ELSE gap[i - n]
    BY <1>1, <2>2, <2>5, <2>6, ConcatProperties
  <2>8. \A i \in 1..Len(Opened) :
            i > n => /\ Opened[i].count = Len(Opened[i].durations) /\ Opened[i].frames = {}
                     /\ Opened[i] = IF i = Len(Opened) THEN NewWindow ELSE GapWindow
    <3> SUFFICES ASSUME NEW i \in 1..Len(Opened), i > n
                 PROVE  /\ Opened[i].count = Len(Opened[i].durations) /\ Opened[i].frames = {}
                        /\ Opened[i] = IF i = Len(Opened) THEN NewWindow ELSE GapWindow
      OBVIOUS
    <3>1. Opened[i] = gap[i - n] /\ i - n \in 1..Missed  BY <1>1, <2>1, <2>6, <2>7
    <3>2. i = Len(Opened) <=> i - n = Missed  BY <1>1, <2>1, <2>6
    <3> QED  BY <3>1, <3>2, <2>3, <2>4
  <2>9. \A i \in 1..Len(Opened) :
            i <= n => /\ Opened[i] = timestats[i]
                      /\ Opened[i].count = Len(Opened[i].durations)
    BY <1>1, <2>1, <2>7 DEF Types
  <2> QED  BY <1>1, <1>3, <2>1, <2>6, <2>7, <2>8, <2>9
<1>4. CASE timestats # <<>> /\ ~(cur_wintime < Frame)
  <2>1. Opened = timestats  BY <1>4 DEF Opened, Aligned
  <2>2. n # 0  BY <1>1, <1>4
  <2> QED  BY <1>1, <1>4, <2>1, <2>2 DEF Types
<1> QED  BY <1>2, <1>3, <1>4

\* The percentile of a window lies between its extremes.
LEMMA PercentileBetween ==
    ASSUME NEW win \in Window, FiguresOf(win), win.count = Len(win.durations), PFactor >= 50
    PROVE  /\ win.time_min <= Percentile(win.durations)
           /\ Percentile(win.durations) <= win.time_max
<1> DEFINE s == win.durations
           n == win.count
<1>1. s \in Seq(Int) /\ n = Len(s) /\ n \in Nat  BY DEF Window
<1>2. CASE n = 0
  <2>1. Percentile(s) = 0  BY <1>1, <1>2 DEF Percentile
  <2> QED  BY <1>2, <2>1 DEF FiguresOf
<1>3. CASE n # 0
  <2> DEFINE idx == IF n = 1 THEN 0 ELSE PercentileIndex(n)
             D == {s[i] : i \in 1..n}
             At(d) == /\ Cardinality({i \in 1..n : s[i] < d}) <= idx
                      /\ idx < Cardinality({i \in 1..n : s[i] <= d})
  <2>1. /\ \A j \in 1..n : s[j] \in Nat /\ win.time_min <= s[j] /\ s[j] <= win.time_max
        /\ \E j \in 1..n : s[j] = win.time_max
    BY <1>3 DEF FiguresOf
  <2>2. PICK top \in 1..n : s[top] = win.time_max  BY <2>1
  <2>3. idx \in 0..(n - 1)  BY <1>1, <1>3, IndexInRange
  <2>4. Percentile(s) = CHOOSE d \in D : At(d)  BY <1>1, <1>3 DEF Percentile
  <2> HIDE DEF s, n, idx
  <2>5. s \in [1..n -> Nat]  BY <1>1, <2>1
  <2>6. \A i \in 1..n : s[i] <= s[top]  BY <2>1, <2>2 DEF s, n
  <2>7. \E d \in D : At(d)  BY <1>1, <2>3, <2>5, <2>6, OrderStatistic
  <2> HIDE DEF At
  <2>8. Percentile(s) \in D  BY <2>4, <2>7
  <2> QED  BY <2>1, <2>8 DEF s
<1> QED  BY <1>2, <1>3

-----------------------------------------------------------------------------
(* The result of a batch *)

\* What a result does to the windows, with the case distinctions of the code done:
\* afterwards the last window is the one of cur_wintime', which is the result's frame
\* unless the clock was set back.
LEMMA AfterResult ==
    ASSUME IInv, NEW o \in Outcomes, SetRescode(o)
    PROVE  /\ Step' = Step /\ Frame' = Frame
           /\ cur_wintime' \in Nat \ {0} /\ cur_wintime' >= Frame
           /\ ~stepped => cur_wintime' = Frame
           /\ \E k \in Nat : cur_wintime' = Step * k
           /\ win_begin' + (Len(Opened) - 1) * Step = cur_wintime'
           /\ win_begin' \in Nat /\ latest' = cur_wintime'
           /\ timestats # <<>> => win_begin' = win_begin /\ timeres = Step
<1> USE DEF IInv
<1>1. Step' = Step /\ Frame' = Frame
  <2>1. timeres' = Step /\ now' = now  BY DEF SetRescode
  <2>2. Step' = Step  BY <2>1, StepType DEF Step
  <2> QED  BY <2>1, <2>2 DEF Frame
<1>2. Frame \in Nat \ {0} /\ \E k \in Nat : Frame = Step * k  BY FrameType
<1>3. CASE timestats = <<>>
  <2>1. cur_wintime' = Frame /\ win_begin' = Frame /\ latest' = Greater(latest, Frame)
    BY <1>3 DEF SetRescode, Aligned
  <2>2. latest' = Frame  BY <2>1, <1>2, <1>3 DEF Aligned, Greater
  <2>3. Len(Opened) = 1  BY <1>3, OpenedFacts
  <2>4. (Len(Opened) - 1) * Step = 0  BY <2>3, StepType
  <2> QED  BY <1>1, <1>2, <1>3, <2>1, <2>2, <2>4
<1>4. CASE timestats # <<>> /\ cur_wintime < Frame
  <2>1. Missed \in Nat \ {0} /\ cur_wintime + Missed * Step = Frame  BY <1>4, MissedExact
  <2>2. timeres = Step  BY <1>4 DEF Aligned, Types, Step
  <2>3. /\ cur_wintime' = cur_wintime + Missed * Step /\ win_begin' = win_begin
        /\ latest' = Greater(latest, Frame)
    BY <1>4 DEF SetRescode, Aligned
  <2>4. cur_wintime' = Frame /\ latest' = Frame
    BY <1>2, <1>4, <2>1, <2>3 DEF Aligned, Greater, Types
  <2>5. Len(Opened) = Len(timestats) + Missed  BY <1>4, OpenedFacts
  <2>6. (Len(Opened) - 1) * Step = (Len(timestats) - 1) * Step + Missed * Step
    <3>1. Len(timestats) \in Nat  BY DEF Types
    <3> QED  BY <2>1, <2>5, <3>1, StepType
  <2>7. win_begin + (Len(timestats) - 1) * Step = cur_wintime  BY <1>4, <2>2 DEF Aligned
  <2>8. win_begin \in Nat /\ (Len(timestats) - 1) * Step \in Int /\ Missed * Step \in Int
    BY <2>1, StepType DEF Types
  <2>9. win_begin' + (Len(Opened) - 1) * Step = cur_wintime'
    BY <2>3, <2>6, <2>7, <2>8
  <2> QED  BY <1>1, <1>2, <1>4, <2>2, <2>3, <2>4, <2>8, <2>9
<1>5. CASE timestats # <<>> /\ ~(cur_wintime < Frame)
  <2>1. timeres = Step  BY <1>5 DEF Aligned, Types, Step
  <2>2. cur_wintime' = cur_wintime /\ win_begin' = win_begin /\ latest' = Greater(latest, Frame)
    BY <1>5 DEF SetRescode, Aligned
  <2>3. latest' = cur_wintime'
    BY <1>2, <1>5, <2>2 DEF Aligned, Greater, Types
  <2>4. Len(Opened) = Len(timestats)  BY <1>5, OpenedFacts
  <2>5. ~stepped => cur_wintime = Frame  BY <1>2, <1>5 DEF Aligned, Types
  <2>6. cur_wintime \in Nat \ {0} /\ cur_wintime >= Frame /\ win_begin \in Nat
    BY <1>2, <1>5 DEF Aligned, Types
  <2>7. /\ \E k \in Nat : cur_wintime = Step * k
        /\ win_begin + (Len(timestats) - 1) * Step = cur_wintime
    BY <1>5, <2>1 DEF Aligned
  <2> QED  BY <1>1, <1>5, <2>1, <2>2, <2>3, <2>4, <2>5, <2>6, <2>7
<1> QED  BY <1>3, <1>4, <1>5

\* The last of the opened windows counts the result; the others stay.
LEMMA WindowsAfterResult ==
    ASSUME IInv, NEW o \in Outcomes, SetRescode(o)
    PROVE  /\ timestats' \in Seq(Window) /\ Len(timestats') = Len(Opened)
           /\ Len(Opened) \in Nat \ {0}
           /\ \A i \in 1..Len(Opened) :
                 /\ timestats'[i].count = Len(timestats'[i].durations)
                 /\ timestats'[i].frames =
                        Opened[i].frames \cup IF i = Len(Opened) THEN {Frame} ELSE {}
                 /\ timestats'[i] = IF i = Len(Opened) THEN Counted(Opened[i], o) ELSE Opened[i]
<1> DEFINE L == Len(Opened)
           c == Counted(Opened[L], o)
<1>1. /\ Opened \in Seq(Window) /\ L \in Nat \ {0}
      /\ \A i \in 1..L : Opened[i].count = Len(Opened[i].durations)
  BY OpenedFacts DEF IInv
<1>2. Opened[L] \in Window  BY <1>1
<1>3. c \in Window /\ c.count = Len(c.durations) /\ c.frames = Opened[L].frames \cup {Frame}
  BY <1>1, <1>2, CountedType DEF IInv
<1>4. timestats' = [Opened EXCEPT ![L] = c]  BY DEF SetRescode
<1> HIDE DEF L, c
<1>5. /\ timestats' \in Seq(Window) /\ Len(timestats') = Len(Opened)
      /\ \A i \in 1..Len(Opened) : timestats'[i] = IF i = L THEN c ELSE Opened[i]
  BY <1>1, <1>3, <1>4, ExceptSeq DEF L
<1>6. \A i \in 1..L : timestats'[i] = IF i = L THEN Counted(Opened[i], o) ELSE Opened[i]
  BY <1>5 DEF c, L
<1> QED  BY <1>1, <1>3, <1>5, <1>6 DEF L

\* The result is counted once, with its outcome, and no other.
LEMMA CountsAfterResult ==
    ASSUME IInv, NEW o \in Outcomes, SetRescode(o)
    PROVE  Counts'
<1> DEFINE N == Len(timestats)
           M == Len(Opened)
<1>1. timestats \in Seq(Window) /\ N \in Nat  BY DEF IInv, Types
<1>2. /\ Opened \in Seq(Window) /\ M \in Nat \ {0} /\ N <= M
      /\ \A i \in 1..M :
            IF i <= N THEN Opened[i] = timestats[i]
            ELSE Opened[i] = IF i = M THEN NewWindow ELSE GapWindow
  <2>1. timestats # <<>> /\ cur_wintime < Frame => Missed \in Nat
    BY MissedExact DEF IInv
  <2> QED  BY <1>1, <2>1, OpenedFacts DEF IInv
<1>3. /\ timestats' \in Seq(Window) /\ Len(timestats') = M
      /\ \A i \in 1..M :
            timestats'[i] = IF i = M THEN Counted(Opened[i], o) ELSE Opened[i]
  BY WindowsAfterResult
<1>4. stats' = [stats EXCEPT ![o] = @ + 1] /\ stats \in [Outcomes -> Nat]
  BY DEF SetRescode, IInv, Types
<1> HIDE DEF N, M
<1>5. ASSUME NEW q \in Outcomes PROVE CountedIn(timestats', q) = stats'[q]
  <2> DEFINE d == IF q = o THEN 1 ELSE 0
  <2>1. ASSUME NEW i \in 1..M
        PROVE  timestats'[i].ec[q] = (IF i <= N THEN timestats[i].ec[q] ELSE 0)
                                     + (IF i = M THEN d ELSE 0)
    <3>1. Opened[i].ec[q] = IF i <= N THEN timestats[i].ec[q] ELSE 0
      BY <1>2, NewWindowsType
    <3>2. Opened[i] \in Window  BY <1>2, ElementOfSeq DEF M
    <3>3. Counted(Opened[i], o).ec = [Opened[i].ec EXCEPT ![o] = @ + 1]
      BY <3>2 DEF Counted, Window
    <3>4. Opened[i].ec \in [Outcomes -> Nat]  BY <3>2 DEF Window
    <3>5. Opened[i].ec[q] \in Nat  BY <3>4
    <3>6. CASE i = M
      <4>1. timestats'[i].ec = [Opened[i].ec EXCEPT ![o] = @ + 1]  BY <1>3, <3>3, <3>6
      <4>2. timestats'[i].ec[q] = Opened[i].ec[q] + d  BY <3>4, <3>5, <4>1
      <4> QED  BY <3>1, <3>6, <4>2
    <3>7. CASE i # M
      <4>1. timestats'[i].ec[q] = Opened[i].ec[q] + 0  BY <1>3, <3>5, <3>7
      <4> QED  BY <3>1, <3>7, <4>1
    <3> QED  BY <3>6, <3>7
  <2>2. d \in Nat  OBVIOUS
  <2>3. timestats' # <<>>  BY <1>2, <1>3
  <2> HIDE DEF d
  <2>4. CountedIn(timestats', q) = CountedIn(timestats, q) + d
    BY <1>1, <1>2, <1>3, <2>1, <2>2, <2>3, CountedInGrows DEF N
  <2>5. CountedIn(timestats, q) = stats[q]  BY DEF IInv, Counts
  <2>6. stats'[q] = stats[q] + d
    <3>1. stats[q] \in Nat  BY <1>4
    <3> QED  BY <1>4, <3>1 DEF d
  <2> QED  BY <2>4, <2>5, <2>6
<1> QED  BY <1>5 DEF Counts

\* The figures of all windows agree after the result.
LEMMA FiguresAfterResult ==
    ASSUME IInv, NEW o \in Outcomes, SetRescode(o)
    PROVE  Figures'
<1> DEFINE N == Len(timestats)
           M == Len(Opened)
<1>1. N \in Nat /\ (timestats = <<>> <=> N = 0)  BY DEF IInv, Types
<1>2. /\ Opened \in Seq(Window) /\ M \in Nat \ {0} /\ N <= M
      /\ \A i \in 1..M :
            /\ Opened[i].count = Len(Opened[i].durations)
            /\ IF i <= N THEN Opened[i] = timestats[i]
               ELSE Opened[i] = IF i = M THEN NewWindow ELSE GapWindow
  <2>1. timestats # <<>> /\ cur_wintime < Frame => Missed \in Nat
    BY MissedExact DEF IInv
  <2> QED  BY <1>1, <2>1, OpenedFacts DEF IInv
<1>3. /\ Len(timestats') = M
      /\ \A i \in 1..M :
            timestats'[i] = IF i = M THEN Counted(Opened[i], o) ELSE Opened[i]
  BY WindowsAfterResult
<1> SUFFICES ASSUME ~stepped
             PROVE  /\ \A i \in 1..M : FiguresOf(timestats'[i])
                    /\ timestats'[M].count > 0
  <2>1. stepped' = stepped  BY DEF SetRescode
  <2>2. (\A i \in 1..M : FiguresOf(timestats'[i])) /\ timestats'[M].count > 0
           => ((\A i \in 1..Len(timestats) : FiguresOf(timestats[i]))
               /\ timestats[Len(timestats)].count > 0)'
    BY <1>3 DEF FiguresOf
  <2> QED  BY <2>1, <2>2 DEF Figures
<1>4. /\ \A i \in 1..N : FiguresOf(timestats[i])
      /\ N # 0 => timestats[N].count > 0
  BY <1>1 DEF IInv, Figures
<1> HIDE DEF N, M
<1>5. FiguresOf(timestats'[M]) /\ timestats'[M].count > 0
  <2>1. M \in 1..M /\ Opened[M] \in Window  BY <1>2, ElementOfSeq DEF M
  <2>2. Opened[M] = NewWindow \/ (FiguresOf(Opened[M]) /\ Opened[M].count > 0)
    <3>1. CASE M <= N
      <4>1. M = N /\ M \in 1..N  BY <1>1, <1>2, <3>1
      <4> QED  BY <1>2, <1>4, <2>1, <4>1
    <3>2. CASE ~(M <= N)  BY <1>2, <2>1, <3>2
    <3> QED  BY <3>1, <3>2
  <2>3. FiguresOf(Counted(Opened[M], o)) /\ Counted(Opened[M], o).count > 0
    BY <1>2, <2>1, <2>2, CountedFigures DEF IInv
  <2> QED  BY <1>3, <2>1, <2>3
<1>6. ASSUME NEW i \in 1..M, i # M PROVE FiguresOf(timestats'[i])
  <2>1. timestats'[i] = Opened[i]  BY <1>3, <1>6
  <2>2. CASE i <= N
    <3>1. i \in 1..N  BY <1>1, <2>2
    <3> QED  BY <1>2, <1>4, <2>1, <2>2, <3>1
  <2>3. CASE ~(i <= N)  BY <1>2, <1>6, <2>1, <2>3, NewWindowsType
  <2> QED  BY <2>2, <2>3
<1> QED  BY <1>5, <1>6

-----------------------------------------------------------------------------
(* The steps *)

\* A new result set has no windows.
LEMMA InitIInv == Init => IInv
<1> SUFFICES ASSUME Init PROVE IInv  OBVIOUS
<1>1. Types
  <2>1. timestats \in Seq(Window) /\ Len(timestats) = 0  BY DEF Init
  <2>2. begun \in Seq(Start..MaxTime)  BY DEF Init
  <2>3. stats \in [Outcomes -> Nat]  BY DEF Init
  <2>4. now \in Start..MaxTime /\ opstart_tmsec \in 0..MaxTime
    BY ResultSetAssumption DEF Init
  <2>5. timeres \in TimeRes \cup {1}  BY DEF Init
  <2>6. /\ cur_wintime \in Nat /\ win_begin \in Nat /\ latest \in Nat
        /\ marks \in BOOLEAN /\ stepped \in BOOLEAN
    BY DEF Init
  <2> QED  BY <2>1, <2>2, <2>3, <2>4, <2>5, <2>6 DEF Types
<1>2. Aligned  BY DEF Init, Aligned
<1>3. Forward  BY ResultSetAssumption DEF Init, Forward
<1>4. WindowOfItsTime  BY DEF Init, WindowOfItsTime
<1>5. Counts
  <2> SUFFICES ASSUME NEW o \in Outcomes PROVE CountedIn(timestats, o) = stats[o]
    BY DEF Counts
  <2>1. timestats \in Seq(Window) /\ Len(timestats) = 0  BY DEF Init
  <2>2. PICK u : SumsOf(u, timestats, o) /\ CountedIn(timestats, o) = u[Len(timestats)]
    BY <2>1, CountedInIsSum
  <2>3. stats[o] = 0  BY DEF Init
  <2> QED  BY <2>1, <2>2, <2>3 DEF SumsOf
<1>6. Figures  BY DEF Init, Figures
<1> QED  BY <1>1, <1>2, <1>3, <1>4, <1>5, <1>6 DEF IInv

\* Where the windows stay, their figures do.
LEMMA FiguresUnchanged ==
    ASSUME IInv, timestats' = timestats, stats' = stats, stepped' \in {stepped, TRUE}
    PROVE  Counts' /\ Figures'
<1>1. Counts'
  <2>1. \A o \in Outcomes : CountedIn(timestats', o) = stats'[o]  BY DEF IInv, Counts
  <2> QED  BY <2>1 DEF Counts
<1>2. Figures'
  <2>1. \A i \in 1..Len(timestats) : FiguresOf(timestats[i])' <=> FiguresOf(timestats[i])
    BY DEF FiguresOf
  <2> QED  BY <2>1 DEF IInv, Figures
<1> QED  BY <1>1, <1>2

\* Sending leaves the windows alone; the last request sent is the last one marked.
LEMMA SendIInv == IInv /\ Send => IInv'
<1> SUFFICES ASSUME IInv, Send PROVE IInv'  OBVIOUS
<1> USE DEF IInv
<1>0. /\ begun' = Append(begun, now) /\ now' = now /\ marks' = marks /\ stepped' = stepped
      /\ opstart_tmsec' = IF marks THEN now ELSE opstart_tmsec
      /\ UNCHANGED <<timeres, cur_wintime, win_begin, timestats, stats, latest>>
  BY DEF Send, windowVars
<1>1. now \in Nat /\ now \in Start..MaxTime /\ now \in 0..MaxTime
  BY ResultSetAssumption DEF Types
<1>2. begun' \in Seq(Start..MaxTime)  BY <1>0, <1>1 DEF Types
<1>3. Types'  BY <1>0, <1>1, <1>2 DEF Types
<1>4. Step' = Step /\ Frame' = Frame  BY <1>0 DEF Step, Frame
<1>5. Aligned'  BY <1>0, <1>4 DEF Aligned
<1>6. Forward'
  <2> SUFFICES ASSUME ~stepped
               PROVE  /\ opstart_tmsec' <= now
                      /\ \A i \in 1..Len(begun') :
                            begun'[i] <= now /\ (marks => begun'[i] <= opstart_tmsec')
    BY <1>0 DEF Forward
  <2>1. opstart_tmsec' <= now  BY <1>0, <1>1 DEF Forward
  <2>2. Len(begun') = Len(begun) + 1 /\ Len(begun) \in Nat  BY <1>0, <1>1 DEF Types
  <2>3. \A i \in 1..Len(begun') : begun'[i] = IF i <= Len(begun) THEN begun[i] ELSE now
    BY <1>0, <1>1, <2>2 DEF Types
  <2>4. \A i \in 1..Len(begun') : begun'[i] <= now  BY <1>1, <2>2, <2>3 DEF Forward
  <2> QED  BY <1>0, <2>1, <2>4
<1>7. WindowOfItsTime'  BY <1>0 DEF WindowOfItsTime
<1>8. Counts' /\ Figures'  BY <1>0, FiguresUnchanged
<1> QED  BY <1>3, <1>5, <1>6, <1>7, <1>8

\* A result goes into the window of its time.
LEMMA SetRescodeIInv == ASSUME NEW o \in Outcomes PROVE IInv /\ SetRescode(o) => IInv'
<1> SUFFICES ASSUME IInv, SetRescode(o) PROVE IInv'  OBVIOUS
<1> USE DEF IInv
<1>0. /\ begun # <<>> /\ begun' = Tail(begun) /\ timeres' = Step
      /\ stats' = [stats EXCEPT ![o] = @ + 1]
      /\ now' = now /\ marks' = marks /\ opstart_tmsec' = opstart_tmsec /\ stepped' = stepped
  BY DEF SetRescode
<1>1. /\ Step' = Step /\ Frame' = Frame
      /\ cur_wintime' \in Nat \ {0} /\ cur_wintime' >= Frame
      /\ ~stepped => cur_wintime' = Frame
      /\ \E k \in Nat : cur_wintime' = Step * k
      /\ win_begin' + (Len(Opened) - 1) * Step = cur_wintime'
      /\ win_begin' \in Nat /\ latest' = cur_wintime'
      /\ timestats # <<>> => win_begin' = win_begin /\ timeres = Step
  BY AfterResult
<1>2. /\ timestats' \in Seq(Window) /\ Len(timestats') = Len(Opened)
      /\ Len(Opened) \in Nat \ {0}
      /\ \A i \in 1..Len(Opened) :
            /\ timestats'[i].count = Len(timestats'[i].durations)
            /\ timestats'[i].frames =
                   Opened[i].frames \cup IF i = Len(Opened) THEN {Frame} ELSE {}
  BY WindowsAfterResult
<1>3. begun' \in Seq(Start..MaxTime)  BY <1>0 DEF Types
<1>4. Types'
  <2>1. stats' \in [Outcomes -> Nat]  BY <1>0 DEF Types
  <2> QED  BY <1>0, <1>1, <1>2, <1>3, <2>1, StepType DEF Types
<1>5. timestats' # <<>>  BY <1>2
<1>6. Aligned'  BY <1>0, <1>1, <1>2, <1>5, StepType DEF Aligned
<1>7. Forward'
  <2>1. \A i \in 1..Len(begun') : i + 1 \in 1..Len(begun) /\ begun'[i] = begun[i + 1]
    BY <1>0 DEF Types
  <2> QED  BY <1>0, <2>1 DEF Forward
<1>8. WindowOfItsTime'
  <2> SUFFICES ASSUME NEW i \in 1..Len(Opened), NEW f \in timestats'[i].frames
               PROVE  LET time == win_begin' + (i - 1) * Step
                      IN  f <= time /\ (f = time \/ stepped)
    BY <1>0, <1>2 DEF WindowOfItsTime
  <2>1. CASE f \in Opened[i].frames
    <3>1. i \in 1..Len(timestats) /\ f \in timestats[i].frames
      BY <1>2, <2>1, OpenedFacts DEF Types
    <3>2. timestats # <<>>  BY <3>1 DEF Types
    <3> QED  BY <1>1, <3>1, <3>2 DEF WindowOfItsTime
  <2>2. CASE i = Len(Opened) /\ f = Frame  BY <1>1, <2>2
  <2> QED  BY <1>2, <2>1, <2>2
<1>9. Counts' /\ Figures'  BY CountsAfterResult, FiguresAfterResult
<1> QED  BY <1>4, <1>6, <1>7, <1>8, <1>9

\* While time passes the frame does not go back.
LEMMA TickIInv == IInv /\ Tick => IInv'
<1> SUFFICES ASSUME IInv, Tick PROVE IInv'  OBVIOUS
<1> USE DEF IInv
<1>0. /\ now < MaxTime /\ now' = now + 1 /\ marks' = marks /\ opstart_tmsec' = opstart_tmsec
      /\ UNCHANGED <<timeres, cur_wintime, win_begin, timestats, stats, begun, latest, stepped>>
  BY DEF Tick, windowVars
<1>1. now \in Nat /\ now' \in Nat /\ now' \in Start..MaxTime
  BY <1>0, ResultSetAssumption DEF Types
<1>2. Types'  BY <1>0, <1>1 DEF Types
<1>3. Step' = Step  BY <1>0 DEF Step
<1>4. Frame <= Frame' /\ Frame \in Int /\ Frame' \in Int
  <2> DEFINE q == now \div Second
             r == now' \div Second
  <2>1. q \in Int /\ r \in Int /\ q <= r
    <3>1. now \in Int /\ now' \in Int /\ now <= now' /\ Second \in Nat \ {0}
      BY <1>0, <1>1, StepType
    <3> QED  BY <3>1, DivMod, DivMonotone
  <2>2. Frame = q - (q % Step) /\ Frame' = r - (r % Step)  BY <1>3 DEF Frame
  <2> HIDE DEF q, r
  <2>3. Frame = Step * (q \div Step) /\ Frame' = Step * (r \div Step)
    BY <2>1, <2>2, StepType, RoundDown
  <2>4. q \div Step \in Int /\ r \div Step \in Int /\ q \div Step <= r \div Step
    BY <2>1, StepType, DivMod, DivMonotone
  <2> QED  BY <2>3, <2>4, StepType, TimesMonotone
<1>5. Aligned'  BY <1>0, <1>4 DEF Aligned, Types
<1>6. Forward'
  <2>1. \A i \in 1..Len(begun) : begun[i] \in Int  BY BegunType
  <2> QED  BY <1>0, <1>1, <2>1 DEF Forward, Types
<1>7. WindowOfItsTime'  BY <1>0 DEF WindowOfItsTime
<1>8. Counts' /\ Figures'  BY <1>0, FiguresUnchanged
<1> QED  BY <1>2, <1>5, <1>6, <1>7, <1>8

\* After a step back only the alignment of the windows is left.
LEMMA StepBackIInv == IInv /\ StepBack => IInv'
<1> SUFFICES ASSUME IInv, StepBack PROVE IInv'  OBVIOUS
<1> USE DEF IInv
<1>0. /\ stepped' = TRUE /\ now' \in Start..(now - 1) /\ marks' = marks
      /\ UNCHANGED <<timeres, cur_wintime, win_begin, timestats, stats, opstart_tmsec,
                     begun, latest>>
  BY DEF StepBack, windowVars
<1>1. now' \in Start..MaxTime  BY <1>0, ResultSetAssumption DEF Types
<1>2. Types'  BY <1>0, <1>1 DEF Types
<1>3. Aligned'  BY <1>0 DEF Aligned
<1>4. Forward'  BY <1>0 DEF Forward
<1>5. WindowOfItsTime'  BY <1>0 DEF WindowOfItsTime
<1>6. Counts' /\ Figures'  BY <1>0, FiguresUnchanged
<1> QED  BY <1>2, <1>3, <1>4, <1>5, <1>6

-----------------------------------------------------------------------------
(* Theorems *)

\* The invariant holds in every state of a result set.
THEOREM Invariance == Spec => []IInv
<1>1. IInv /\ [Next]_vars => IInv'
  <2> SUFFICES ASSUME IInv, [Next]_vars PROVE IInv'  OBVIOUS
  <2>1. CASE Send  BY <2>1, SendIInv
  <2>2. CASE \E o \in Outcomes : SetRescode(o)  BY <2>2, SetRescodeIInv
  <2>3. CASE Tick  BY <2>3, TickIInv
  <2>4. CASE StepBack  BY <2>4, StepBackIInv
  <2>5. CASE UNCHANGED vars
    <3>1. Step' = Step /\ Frame' = Frame  BY <2>5 DEF vars, windowVars, Step, Frame
    <3>2. timestats' = timestats /\ stats' = stats /\ stepped' = stepped
      BY <2>5 DEF vars, windowVars
    <3>3. Counts' /\ Figures'  BY <3>2, FiguresUnchanged
    <3> QED
      BY <2>5, <3>1, <3>3 DEF vars, windowVars, IInv, Types, Aligned, Forward, WindowOfItsTime
  <2> QED  BY <2>1, <2>2, <2>3, <2>4, <2>5 DEF Next
<1> QED  BY InitIInv, <1>1, PTL DEF Spec

\* Every variable of the result set keeps its type: the durations' extremes stay
\* unsigned integers, and a window counts as many results as it has durations.
THEOREM TypeCorrect == Spec => []TypeOK
<1>1. IInv => TypeOK
  <2> SUFFICES ASSUME IInv PROVE TypeOK  OBVIOUS
  <2>1. \A i \in 1..Len(timestats) : timestats[i] \in Window  BY DEF IInv, Types
  <2>2. \A i \in 1..Len(begun) : begun[i] \in Start..MaxTime  BY BegunType DEF IInv
  <2> QED  BY <2>1, <2>2 DEF IInv, Types, TypeOK, Window
<1> QED  BY <1>1, Invariance, PTL

\* Each result is in the window of the time it came, for every resolution and every
\* length of an outage.
THEOREM ResultsInTheirWindows == Spec => []WindowOfItsTime
<1>1. IInv => WindowOfItsTime  BY DEF IInv
<1> QED  BY <1>1, Invariance, PTL

\* The windows reach exactly up to the latest result.
THEOREM WindowsComplete == Spec => []WindowsReachLatest
<1>1. IInv => WindowsReachLatest  BY DEF IInv, Aligned, WindowsReachLatest
<1> QED  BY <1>1, Invariance, PTL

\* No duration is longer than the time since its request was sent, for batches of
\* every size.
THEOREM DurationsNotOverstated == Spec => []NeverOverstated
<1>1. IInv => NeverOverstated
  <2> SUFFICES ASSUME IInv, marks, begun # <<>>, ~stepped
               PROVE  Duration <= now - begun[1]
    BY DEF NeverOverstated
  <2>1. 1 \in 1..Len(begun) /\ begun[1] \in Int  BY BegunType DEF IInv, Types
  <2>2. begun[1] <= opstart_tmsec  BY <2>1 DEF IInv, Forward
  <2>3. now \in Int /\ opstart_tmsec \in Int  BY DEF IInv, Types
  <2> QED  BY <2>1, <2>2, <2>3 DEF Duration
<1> QED  BY <1>1, Invariance, PTL

\* The windows count every result exactly once with its outcome, and while the clock is
\* not set back the minimum, the maximum and the percentile of a window agree, after
\* outages of any length and for every PercentileFactor that gives an index.
THEOREM FiguresAgree == Spec => []WindowFiguresAgree
<1>1. IInv => WindowFiguresAgree
  <2> SUFFICES ASSUME IInv PROVE WindowFiguresAgree  OBVIOUS
  <2>1. \A o \in Outcomes : CountedIn(timestats, o) = stats[o]  BY DEF IInv, Counts
  <2>2. ASSUME ~stepped, NEW i \in 1..Len(timestats)
        PROVE  LET win == timestats[i]
                   own == {win.durations[j] : j \in 1..win.count}
               IN  /\ {win.time_min, win.time_max} \subseteq
                          IF win.count = 0 THEN {0} ELSE own
                   /\ PFactor >= 50 => /\ win.time_min <= Percentile(win.durations)
                                       /\ Percentile(win.durations) <= win.time_max
    <3> DEFINE win == timestats[i]
    <3>1. FiguresOf(win) /\ win \in Window /\ win.count = Len(win.durations)
      BY <2>2, ElementOfSeq DEF IInv, Figures, Types
    <3> HIDE DEF win
    <3>2. {win.time_min, win.time_max} \subseteq
             IF win.count = 0 THEN {0} ELSE {win.durations[j] : j \in 1..win.count}
      BY <3>1 DEF FiguresOf
    <3>3. ASSUME PFactor >= 50
          PROVE  /\ win.time_min <= Percentile(win.durations)
                 /\ Percentile(win.durations) <= win.time_max
      BY <3>1, <3>3, PercentileBetween
    <3> QED  BY <3>2, <3>3 DEF win
  <2> QED  BY <2>1, <2>2 DEF WindowFiguresAgree
<1> QED  BY <1>1, Invariance, PTL
=============================================================================
