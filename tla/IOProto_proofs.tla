--------------------------- MODULE IOProto_proofs ---------------------------
(***************************************************************************)
(* The line protocol implements Connection.                                *)
(*                                                                         *)
(* The lines the harness has sent are, at any time, in this order: taken   *)
(* (without the empty ones); at hand in newlines; complete in inbuf and    *)
(* kernel, once they are split; in part.  The invariant is that the four   *)
(* follow each other without a gap: there is a line b such that what was   *)
(* taken are the full lines up to b, and the rest begins after b (InOrder).*)
(* To keep it, a step of the network or of the daemon moves a boundary:    *)
(* what Split gives for one more piece, or for none, is all there is to    *)
(* know of it, and of Full that empty lines add nothing and later lines    *)
(* come behind.  The responses follow the lines taken (Responses).         *)
(***************************************************************************)
EXTENDS IOProto, Recursion, SequenceTheorems, TLAPS

-----------------------------------------------------------------------------
(* The inductive invariant *)

\* A piece of a line on the wire, and a part of a response.
Piece == Nat \X {"body", "nl"}
Part == Nat \X {1, 2}

\* The types; the line that is partly sent is the last.
TypeOK ==
    /\ lines \in Seq(LineKinds) /\ partial \in BOOLEAN /\ (partial => lines # <<>>)
    /\ conn \in {"open", "eof", "reset"}
    /\ kernel \in Seq(Piece) /\ inbuf \in Seq(Piece) /\ newlines \in Seq(Seq(Piece))
    /\ taken \in Seq(Nat)
    /\ outbuf \in Seq(Part) /\ received \in Seq(Part)
    /\ sockfd \in {"open", "closed"} /\ ppc \in {"select", "flush", "ended", "ub"}

\* What line n is when it has come, and that s holds the lines after b.
LineOf(n) == IF lines[n] = "empty" THEN <<>> ELSE <<<<n, "body">>>>
Holds(s, b) == \A i \in 1..Len(s) : s[i] = LineOf(b + i)

\* What there would be if the socket were read now.
Arrived == Split(inbuf, kernel)

\* After line b come the lines at hand, then those there would be, the last in part,
\* and that is all, unless the connection broke.
Queue(b) ==
    /\ Holds(newlines, b) /\ Holds(Arrived.done, b + Len(newlines))
    /\ b + Len(newlines) + Len(Arrived.done) <= Complete
    /\ conn # "reset" =>
          /\ b + Len(newlines) + Len(Arrived.done) = Complete
          /\ Arrived.buf = IF partial THEN LineOf(Len(lines)) ELSE <<>>

\* The lines up to b have been taken, the empty ones dropped.
InOrder(b) == taken = Full(lines)[b] /\ Queue(b)

\* Some line is the boundary.
Stream == \E b \in Nat : InOrder(b)

\* What was under way when the connection broke is lost.
NothingAfterReset == conn = "reset" => kernel = <<>>

\* The harness has, or the buffer holds, the responses to what was taken.
Responses == received \o outbuf = Promised!Replies(WithKinds(taken))

\* While the loop runs no line has ended it.
StillRequests == ppc = "select" => \A i \in DOMAIN taken : lines[taken[i]] = "request"

\* The inductive invariant.
IInv == TypeOK /\ Stream /\ NothingAfterReset /\ Responses /\ StillRequests

-----------------------------------------------------------------------------
(* What the loops compute *)

\* What has been read: the line that is not complete, and those that are.
Acc == [buf : Seq(Piece), done : Seq(Seq(Piece))]

\* A piece leaves a line that is not complete and complete ones.
LEMMA AddPieceType ==
    ASSUME NEW a \in Acc, NEW p \in Piece
    PROVE  AddPiece(a, p) \in Acc
<1>1. a.buf \in Seq(Piece) /\ a.done \in Seq(Seq(Piece))  BY DEF Acc
<1>2. Append(a.done, a.buf) \in Seq(Seq(Piece)) /\ Append(a.buf, p) \in Seq(Piece)
  BY <1>1, AppendProperties
<1>3. <<>> \in Seq(Piece)  OBVIOUS
<1> QED  BY <1>1, <1>2, <1>3 DEF AddPiece, Acc

\* The reads of a sequence of pieces, one by one, from what was there.
Reads(f, buf, s) ==
    /\ f \in [0..Len(s) -> Acc] /\ f[0] = [buf |-> buf, done |-> <<>>]
    /\ \A i \in 1..Len(s) : f[i] = AddPiece(f[i - 1], s[i])
    /\ Split(buf, s) = f[Len(s)]

\* Split reads piece by piece.
LEMMA SplitEquation ==
    ASSUME NEW buf \in Seq(Piece), NEW s \in Seq(Piece)
    PROVE  \E f : Reads(f, buf, s)
<1> DEFINE base == [buf |-> buf, done |-> <<>>]
           L == Len(s)
           g == [i \in 1..L |-> [a \in Acc |-> AddPiece(a, s[i])]]
           Eq(f) == f = [i \in 0..L |-> IF i = 0 THEN base ELSE AddPiece(f[i - 1], s[i])]
<1>1. L \in Nat /\ \A i \in 1..L : s[i] \in Piece  BY ElementOfSeq
<1>2. base \in Acc  BY DEF Acc
<1>3. Split(buf, s) = (CHOOSE f : Eq(f))[L]  BY DEF Split
<1> HIDE DEF base, L
<1>4. g \in [1..L -> [Acc -> Acc]] /\ \A i \in 1..L : \A a \in Acc : g[i][a] = AddPiece(a, s[i])
  BY <1>1, AddPieceType
<1> HIDE DEF g
<1>5. PICK f : Folds(f, base, g, L, Acc)  BY <1>1, <1>2, <1>4, FoldExists
<1>6. /\ f \in [0..L -> Acc] /\ f[0] = base
      /\ \A i \in 1..L : f[i] = AddPiece(f[i - 1], s[i])
  <2>1. \A i \in 1..L : i - 1 \in 0..L  BY <1>1
  <2> QED  BY <1>4, <1>5, <2>1 DEF Folds
<1>7. Eq(f)
  <2>1. f = [i \in 0..L |-> f[i]]  BY <1>6
  <2>2. \A i \in 0..L : f[i] = IF i = 0 THEN base ELSE AddPiece(f[i - 1], s[i])
    BY <1>1, <1>6
  <2> QED  BY <2>1, <2>2
<1>8. PICK k : Eq(k) /\ Split(buf, s) = k[L]  BY <1>3, <1>7
<1>9. k[0] = base /\ \A i \in 1..L : k[i] = AddPiece(k[i - 1], s[i])  BY <1>1, <1>8
<1>10. \A i \in 0..L : k[i] = f[i]
  <2>1. \A i \in 1..L : k[i - 1] = f[i - 1] => k[i] = g[i][f[i - 1]]
    <3>1. \A i \in 1..L : i - 1 \in 0..L  BY <1>1
    <3> QED  BY <1>4, <1>6, <1>9, <3>1
  <2>2. Agrees(k, f, base, g, L)  BY <1>9, <2>1 DEF Agrees
  <2> QED  BY <1>1, <1>5, <2>2, FoldUnique
<1>11. Split(buf, s) = f[L]  BY <1>1, <1>8, <1>10
<1> QED  BY <1>6, <1>11 DEF Reads, base, L

\* Nothing read leaves what was there; one more piece is added to what came before it.
LEMMA SplitFacts ==
    ASSUME NEW buf \in Seq(Piece)
    PROVE  /\ Split(buf, <<>>) = [buf |-> buf, done |-> <<>>]
           /\ \A s \in Seq(Piece) : Split(buf, s) \in Acc
           /\ \A s \in Seq(Piece), p \in Piece :
                 Split(buf, Append(s, p)) = AddPiece(Split(buf, s), p)
<1>1. Split(buf, <<>>) = [buf |-> buf, done |-> <<>>]
  <2>1. <<>> \in Seq(Piece) /\ Len(<<>>) = 0  BY EmptySeq
  <2>2. PICK f : Reads(f, buf, <<>>)  BY <2>1, SplitEquation
  <2> QED  BY <2>1, <2>2 DEF Reads
<1>2. ASSUME NEW s \in Seq(Piece) PROVE Split(buf, s) \in Acc
  <2>1. PICK f : Reads(f, buf, s)  BY SplitEquation
  <2>2. Len(s) \in 0..Len(s)  OBVIOUS
  <2> QED  BY <2>1, <2>2 DEF Reads
<1>3. ASSUME NEW s \in Seq(Piece), NEW p \in Piece
      PROVE  Split(buf, Append(s, p)) = AddPiece(Split(buf, s), p)
  <2> DEFINE t == Append(s, p)
             L == Len(s)
  <2>1. /\ t \in Seq(Piece) /\ Len(t) = L + 1 /\ L \in Nat /\ t[L + 1] = p
        /\ \A i \in 1..L : t[i] = s[i]
    BY AppendProperties
  <2> HIDE DEF t
  <2>2. PICK f : Reads(f, buf, s)  BY SplitEquation
  <2>3. PICK h : Reads(h, buf, t)  BY <2>1, SplitEquation
  <2> DEFINE T == {n \in Nat : n <= L => f[n] = h[n]}
  <2>4. 0 \in T  BY <2>2, <2>3 DEF Reads
  <2>5. ASSUME NEW n \in Nat, n \in T PROVE n + 1 \in T
    <3> SUFFICES ASSUME n + 1 <= L PROVE f[n + 1] = h[n + 1]  OBVIOUS
    <3>1. f[n] = h[n]  BY <2>1, <2>5
    <3>2. PICK m : m = n + 1  OBVIOUS
    <3>3. m \in 1..L /\ m \in 1..(L + 1) /\ m - 1 = n  BY <2>1, <3>2
    <3>4. f[m] = AddPiece(f[m - 1], s[m])  BY <2>2, <3>3 DEF Reads
    <3>5. h[m] = AddPiece(h[m - 1], t[m])  BY <2>1, <2>3, <3>3 DEF Reads
    <3> QED  BY <2>1, <3>1, <3>2, <3>3, <3>4, <3>5
  <2> HIDE DEF T
  <2>6. Nat \subseteq T  BY <2>4, <2>5, Induction
  <2>7. f[L] = h[L]  BY <2>1, <2>6 DEF T
  <2>8. h[L + 1] = AddPiece(h[L], p)
    <3>1. PICK m : m = L + 1  OBVIOUS
    <3>2. m \in 1..Len(t) /\ m - 1 = L  BY <2>1, <3>1
    <3>3. h[m] = AddPiece(h[m - 1], t[m])  BY <2>3, <3>2 DEF Reads
    <3> QED  BY <2>1, <3>1, <3>2, <3>3
  <2>9. Split(buf, s) = f[L] /\ Split(buf, t) = h[L + 1]  BY <2>1, <2>2, <2>3 DEF Reads
  <2> QED  BY <2>7, <2>8, <2>9 DEF t
<1> QED  BY <1>1, <1>2, <1>3

\* The recursion of Full has a solution.
LEMMA FullEquation ==
    ASSUME NEW ls \in Seq(LineKinds)
    PROVE  /\ Full(ls)[0] = <<>>
           /\ \A n \in 0..Len(ls) : Full(ls)[n] \in Seq(Nat)
           /\ \A n \in 1..Len(ls) :
                 Full(ls)[n] = IF ls[n] = "empty" THEN Full(ls)[n - 1]
                               ELSE Append(Full(ls)[n - 1], n)
<1> DEFINE L == Len(ls)
           V == Seq(Nat)
           Step(n, v) == IF ls[n] = "empty" THEN v ELSE Append(v, n)
           g == [n \in 1..L |-> [v \in V |-> Step(n, v)]]
           Eq(f) == f = [n \in 0..L |-> IF n = 0 THEN <<>> ELSE Step(n, f[n - 1])]
<1>1. L \in Nat  OBVIOUS
<1>2. <<>> \in V  OBVIOUS
<1>3. ASSUME NEW n \in 1..L, NEW v \in V PROVE Step(n, v) \in V
  <2>1. n \in Nat  BY <1>1
  <2> QED  BY <2>1, AppendProperties
<1>4. Full(ls) = CHOOSE f : Eq(f)  BY DEF Full
<1> HIDE DEF L, V, Step
<1>5. g \in [1..L -> [V -> V]] /\ \A n \in 1..L : \A v \in V : g[n][v] = Step(n, v)
  BY <1>3
<1> HIDE DEF g
<1>6. PICK f : Folds(f, <<>>, g, L, V)  BY <1>1, <1>2, <1>5, FoldExists
<1>7. /\ f \in [0..L -> V] /\ f[0] = <<>>
      /\ \A n \in 1..L : f[n] = Step(n, f[n - 1])
  <2>1. \A n \in 1..L : n - 1 \in 0..L  BY <1>1
  <2> QED  BY <1>5, <1>6, <2>1 DEF Folds
<1>8. Eq(f)
  <2>1. f = [n \in 0..L |-> f[n]]  BY <1>7
  <2>2. \A n \in 0..L : f[n] = IF n = 0 THEN <<>> ELSE Step(n, f[n - 1])
    BY <1>1, <1>7
  <2> QED  BY <2>1, <2>2
<1>9. PICK k : Eq(k) /\ Full(ls) = k  BY <1>4, <1>8
<1>10. k[0] = <<>> /\ \A n \in 1..L : k[n] = Step(n, k[n - 1])  BY <1>1, <1>9
<1>11. \A n \in 0..L : k[n] = f[n]
  <2>1. \A n \in 1..L : k[n - 1] = f[n - 1] => k[n] = g[n][f[n - 1]]
    <3>1. \A n \in 1..L : n - 1 \in 0..L  BY <1>1
    <3> QED  BY <1>5, <1>7, <1>10, <3>1
  <2>2. Agrees(k, f, <<>>, g, L)  BY <1>10, <2>1 DEF Agrees
  <2> QED  BY <1>1, <1>6, <2>2, FoldUnique
<1>12. \A n \in 0..L : k[n] \in V  BY <1>7, <1>11
<1> QED  BY <1>9, <1>10, <1>12 DEF L, V, Step

\* The elements are lines that are not empty.
LEMMA FullElements ==
    ASSUME NEW ls \in Seq(LineKinds)
    PROVE  \A n \in 0..Len(ls) : \A i \in DOMAIN Full(ls)[n] :
                Full(ls)[n][i] \in 1..n /\ ls[Full(ls)[n][i]] # "empty"
<1> DEFINE Good(n) == \A i \in DOMAIN Full(ls)[n] :
                          Full(ls)[n][i] \in 1..n /\ ls[Full(ls)[n][i]] # "empty"
           T == {n \in Nat : n <= Len(ls) => Good(n)}
<1>1. 0 \in T  BY FullEquation
<1>2. ASSUME NEW n \in Nat, n \in T PROVE n + 1 \in T
  <2> SUFFICES ASSUME n + 1 <= Len(ls) PROVE Good(n + 1)  OBVIOUS
  <2>1. PICK m : m = n + 1  OBVIOUS
  <2>2. m \in 1..Len(ls) /\ m - 1 = n /\ n \in 0..Len(ls) /\ n <= Len(ls)  BY <2>1
  <2>3. PICK s : s = Full(ls)[n]  OBVIOUS
  <2>4. s \in Seq(Nat) /\ \A i \in DOMAIN s : s[i] \in 1..n /\ ls[s[i]] # "empty"
    BY <1>2, <2>2, <2>3, FullEquation
  <2>5. Full(ls)[m] = IF ls[m] = "empty" THEN s ELSE Append(s, m)
    BY <2>2, <2>3, FullEquation
  <2>6. \A i \in DOMAIN s : s[i] \in 1..m  BY <2>1, <2>4
  <2>7. CASE ls[m] = "empty"  BY <2>1, <2>4, <2>5, <2>6, <2>7
  <2>8. CASE ls[m] # "empty"
    <3>1. PICK t : t = Append(s, m)  OBVIOUS
    <3>2. /\ DOMAIN t = 1..(Len(s) + 1) /\ DOMAIN s = 1..Len(s) /\ Len(s) \in Nat
          /\ t[Len(s) + 1] = m /\ \A i \in 1..Len(s) : t[i] = s[i]
      <4>1. m \in Nat  BY <2>1
      <4> QED  BY <2>4, <3>1, <4>1, AppendProperties, LenProperties
    <3>3. \A i \in DOMAIN t : t[i] \in 1..m /\ ls[t[i]] # "empty"
      <4> SUFFICES ASSUME NEW i \in 1..(Len(s) + 1) PROVE t[i] \in 1..m /\ ls[t[i]] # "empty"
        BY <3>2
      <4>1. CASE i = Len(s) + 1  BY <2>2, <2>8, <3>2, <4>1
      <4>2. CASE i \in 1..Len(s)  BY <2>4, <2>6, <3>2, <4>2
      <4> QED  BY <3>2, <4>1, <4>2
    <3> QED  BY <2>1, <2>5, <2>8, <3>1, <3>3
  <2> QED  BY <2>7, <2>8
<1> HIDE DEF T
<1>3. Nat \subseteq T  BY <1>1, <1>2, Induction
<1>4. \A n \in 0..Len(ls) : Good(n)  BY <1>3 DEF T
<1> QED  BY <1>4

\* Another line sent changes nothing about those before it.
LEMMA FullPrefix ==
    ASSUME NEW ls \in Seq(LineKinds), NEW k \in LineKinds
    PROVE  \A n \in 0..Len(ls) : Full(Append(ls, k))[n] = Full(ls)[n]
<1>1. PICK ms : ms = Append(ls, k)  OBVIOUS
<1>2. ms \in Seq(LineKinds) /\ Len(ms) = Len(ls) + 1 /\ \A i \in 1..Len(ls) : ms[i] = ls[i]
  BY <1>1, AppendProperties
<1> DEFINE T == {n \in Nat : n <= Len(ls) => Full(ms)[n] = Full(ls)[n]}
<1>3. 0 \in T  BY <1>2, FullEquation
<1>4. ASSUME NEW n \in Nat, n \in T PROVE n + 1 \in T
  <2> SUFFICES ASSUME n + 1 <= Len(ls) PROVE Full(ms)[n + 1] = Full(ls)[n + 1]  OBVIOUS
  <2>1. PICK m : m = n + 1  OBVIOUS
  <2>2. m \in 1..Len(ls) /\ m \in 1..Len(ms) /\ m - 1 = n /\ n <= Len(ls)  BY <1>2, <2>1
  <2>3. Full(ms)[m] = IF ms[m] = "empty" THEN Full(ms)[m - 1] ELSE Append(Full(ms)[m - 1], m)
    BY <1>2, <2>2, FullEquation
  <2>4. Full(ls)[m] = IF ls[m] = "empty" THEN Full(ls)[m - 1] ELSE Append(Full(ls)[m - 1], m)
    BY <2>2, FullEquation
  <2>5. Full(ms)[m - 1] = Full(ls)[m - 1] /\ ms[m] = ls[m]  BY <1>2, <1>4, <2>2
  <2> QED  BY Zenon, <2>1, <2>3, <2>4, <2>5
<1> HIDE DEF T
<1>5. Nat \subseteq T  BY <1>3, <1>4, Induction
<1>6. \A n \in 0..Len(ls) : Full(ms)[n] = Full(ls)[n]  BY <1>5 DEF T
<1> QED  BY <1>1, <1>6

\* Empty lines add nothing.
LEMMA FullSkip ==
    ASSUME NEW ls \in Seq(LineKinds), NEW b \in Nat, NEW d \in Nat, b + d <= Len(ls),
           \A i \in 1..d : ls[b + i] = "empty"
    PROVE  Full(ls)[b + d] = Full(ls)[b]
<1> DEFINE T == {n \in Nat : n <= d => Full(ls)[b + n] = Full(ls)[b]}
<1>1. 0 \in T  OBVIOUS
<1>2. ASSUME NEW n \in Nat, n \in T PROVE n + 1 \in T
  <2> SUFFICES ASSUME n + 1 <= d PROVE Full(ls)[b + (n + 1)] = Full(ls)[b]  OBVIOUS
  <2>1. PICK m : m = b + (n + 1)  OBVIOUS
  <2>2. m \in 1..Len(ls) /\ m - 1 = b + n /\ n <= d  BY <2>1
  <2>3. ls[m] = "empty"  BY <2>1
  <2>4. Full(ls)[m] = Full(ls)[m - 1]  BY <2>2, <2>3, FullEquation
  <2>5. Full(ls)[b + n] = Full(ls)[b]  BY <1>2, <2>2
  <2> QED  BY <2>1, <2>2, <2>4, <2>5
<1> HIDE DEF T
<1>3. Nat \subseteq T  BY <1>1, <1>2, Induction
<1> QED  BY <1>3 DEF T

\* Later lines come after.
LEMMA FullGrows ==
    ASSUME NEW ls \in Seq(LineKinds), NEW b \in Nat, NEW d \in Nat, b + d <= Len(ls)
    PROVE  /\ Len(Full(ls)[b]) <= Len(Full(ls)[b + d])
           /\ \A i \in 1..Len(Full(ls)[b]) : Full(ls)[b + d][i] = Full(ls)[b][i]
<1>1. PICK s : s = Full(ls)[b]  OBVIOUS
<1>2. s \in Seq(Nat) /\ Len(s) \in Nat
  <2>1. b \in 0..Len(ls)  OBVIOUS
  <2> QED  BY <1>1, <2>1, FullEquation
<1> DEFINE Good(t) == Len(s) <= Len(t) /\ \A i \in 1..Len(s) : t[i] = s[i]
           T == {n \in Nat : n <= d => Good(Full(ls)[b + n])}
<1>3. 0 \in T
  <2>1. b + 0 = b  OBVIOUS
  <2> QED  BY <1>1, <1>2, <2>1
<1>4. ASSUME NEW n \in Nat, n \in T PROVE n + 1 \in T
  <2> SUFFICES ASSUME n + 1 <= d PROVE Good(Full(ls)[b + (n + 1)])  OBVIOUS
  <2>1. PICK m : m = b + (n + 1)  OBVIOUS
  <2>2. m \in 1..Len(ls) /\ m - 1 = b + n /\ m - 1 \in 0..Len(ls) /\ m \in Nat  BY <2>1
  <2>3. PICK t : t = Full(ls)[m - 1]  OBVIOUS
  <2>4. t \in Seq(Nat) /\ Good(t)
    <3>1. Good(Full(ls)[b + n])  BY <1>4
    <3> HIDE DEF Good
    <3> QED  BY <2>2, <2>3, <3>1, FullEquation
  <2>5. Full(ls)[m] = IF ls[m] = "empty" THEN t ELSE Append(t, m)
    BY <2>2, <2>3, FullEquation
  <2>6. Good(Append(t, m))
    <3>1. PICK u : u = Append(t, m)  OBVIOUS
    <3>2. Len(u) = Len(t) + 1 /\ Len(t) \in Nat /\ \A i \in 1..Len(t) : u[i] = t[i]
      BY <2>2, <2>4, <3>1, AppendProperties
    <3>3. \A i \in 1..Len(s) : i \in 1..Len(t)  BY <1>2, <2>4, <3>2
    <3>4. Len(s) <= Len(u)  BY <1>2, <2>4, <3>2
    <3> QED  BY <2>4, <3>1, <3>2, <3>3, <3>4
  <2> HIDE DEF Good
  <2> QED  BY <2>1, <2>4, <2>5, <2>6
<1> HIDE DEF T
<1>5. Nat \subseteq T  BY <1>3, <1>4, Induction
<1>6. Good(Full(ls)[b + d])  BY <1>5 DEF T
<1> QED  BY <1>1, <1>6

-----------------------------------------------------------------------------
(* Responses *)

\* The operators of Connection are those of the community module.
LEMMA PromisedOperators ==
    /\ \A ss : Promised!FlattenSeq(ss) = FlattenSeq(ss)
    /\ \A s, t : Promised!IsPrefix(s, t) <=> Len(s) <= Len(t) /\ SubSeq(s, 1, Len(s)) = SubSeq(t, 1, Len(s))
<1>1. \A ss : Promised!FlattenSeq(ss) = FlattenSeq(ss)  BY DEF FlattenSeq, Promised!FlattenSeq
<1>2. \A s, t : Promised!IsPrefix(s, t) <=> Len(s) <= Len(t) /\ SubSeq(s, 1, Len(s)) = SubSeq(t, 1, Len(s))
  BY DEF Promised!IsPrefix
<1> QED  BY <1>1, <1>2

\* A sequence is a prefix of what it is continued to.
LEMMA ConcatIsPrefix ==
    ASSUME NEW S, NEW s \in Seq(S), NEW t \in Seq(S)
    PROVE  Promised!IsPrefix(s, s \o t)
<1>1. PICK u : u = s \o t  OBVIOUS
<1>2. /\ u \in Seq(S) /\ Len(s) \in Nat /\ Len(t) \in Nat /\ Len(u) = Len(s) + Len(t)
      /\ \A i \in 1..Len(s) : u[i] = s[i]
  <2>1. /\ u \in Seq(S) /\ Len(u) = Len(s) + Len(t)
        /\ \A i \in 1..(Len(s) + Len(t)) : u[i] = IF i <= Len(s) THEN s[i] ELSE t[i - Len(s)]
    BY <1>1, ConcatProperties
  <2> QED  BY <2>1
<1>3. Len(s) <= Len(u)  BY <1>2
<1>4. SubSeq(s, 1, Len(s)) = SubSeq(u, 1, Len(s))
  <2>1. PICK n \in Nat : n = Len(s)  BY <1>2
  <2>2. \A i \in 1..n : s[i] \in S /\ u[i] \in S /\ s[i] = u[i]  BY <1>2, <2>1, ElementOfSeq
  <2>3. /\ SubSeq(s, 1, n) \in Seq(S) /\ Len(SubSeq(s, 1, n)) = (IF 1 <= n THEN n - 1 + 1 ELSE 0)
        /\ \A i \in 1..(n - 1 + 1) : SubSeq(s, 1, n)[i] = s[1 + i - 1]
    BY <2>2, SubSeqProperties
  <2>4. /\ SubSeq(u, 1, n) \in Seq(S) /\ Len(SubSeq(u, 1, n)) = (IF 1 <= n THEN n - 1 + 1 ELSE 0)
        /\ \A i \in 1..(n - 1 + 1) : SubSeq(u, 1, n)[i] = u[1 + i - 1]
    BY <2>2, SubSeqProperties
  <2>5. \A i \in 1..n : 1 + i - 1 = i /\ i \in 1..(n - 1 + 1)  OBVIOUS
  <2>6. (IF 1 <= n THEN n - 1 + 1 ELSE 0) = n  OBVIOUS
  <2>7. \A i \in 1..n : SubSeq(s, 1, n)[i] = SubSeq(u, 1, n)[i]  BY <2>2, <2>3, <2>4, <2>5
  <2>8. SubSeq(s, 1, n) = SubSeq(u, 1, n)  BY <2>3, <2>4, <2>6, <2>7, SeqEqual
  <2> QED  BY <2>1, <2>8
<1> QED  BY <1>1, <1>3, <1>4, PromisedOperators

Request == Nat \X LineKinds

\* A reply is a sequence of parts.
LEMMA ReplyType == \A r \in Request : Reply(r) \in Seq(Part)
<1>1. \A n \in Nat : Response(n) \in Seq(Part)
  <2> SUFFICES ASSUME NEW n \in Nat PROVE Response(n) \in Seq(Part)  OBVIOUS
  <2>1. <<n, 1>> \in Part /\ <<n, 2>> \in Part  BY DEF Part
  <2> QED  BY <2>1 DEF Response
<1>2. <<>> \in Seq(Part)  OBVIOUS
<1> QED  BY <1>1, <1>2 DEF Reply, Request

\* One more request has its response after the others.
LEMMA RepliesAppend ==
    ASSUME NEW s \in Seq(Request), NEW r \in Request
    PROVE  /\ Promised!Replies(s) \in Seq(Part)
           /\ Promised!Replies(Append(s, r)) = Promised!Replies(s) \o Reply(r)
<1>1. PICK t : t = Append(s, r)  OBVIOUS
<1>2. PICK n \in Nat : n = Len(s)  OBVIOUS
<1>3. /\ t \in Seq(Request) /\ DOMAIN t = 1..(n + 1) /\ DOMAIN s = 1..n
      /\ t[n + 1] = r /\ \A i \in 1..n : t[i] = s[i]
  BY <1>1, <1>2, AppendProperties, LenProperties
<1> DEFINE rs == [i \in 1..n |-> Reply(s[i])]
           rt == [i \in 1..(n + 1) |-> Reply(t[i])]
<1>4. Promised!Replies(s) = FlattenSeq(rs) /\ Promised!Replies(t) = FlattenSeq(rt)
  BY <1>3, PromisedOperators DEF Promised!Replies
<1>5. rs \in Seq(Seq(Part)) /\ Len(rs) = n
  <2>1. \A i \in 1..n : s[i] \in Request  BY <1>2, ElementOfSeq
  <2>2. \A i \in 1..n : Reply(s[i]) \in Seq(Part)  BY <2>1, ReplyType
  <2> QED  BY <2>2
<1>6. rt \in Seq(Seq(Part)) /\ Len(rt) = n + 1
  <2>1. \A i \in 1..(n + 1) : t[i] \in Request  BY <1>3, ElementOfSeq
  <2>2. \A i \in 1..(n + 1) : Reply(t[i]) \in Seq(Part)  BY <2>1, ReplyType
  <2> QED  BY <2>2
<1>7. \A i \in 1..n : rt[i] = rs[i]  BY <1>3
<1>8. rt[n + 1] = Reply(r)  BY <1>3
<1> HIDE DEF rs, rt
<1>9. rt = Append(rs, Reply(r))
  <2>1. PICK u : u = Append(rs, Reply(r))  OBVIOUS
  <2>2. Reply(r) \in Seq(Part)  BY ReplyType
  <2>3. /\ u \in Seq(Seq(Part)) /\ Len(u) = n + 1 /\ u[n + 1] = Reply(r)
        /\ \A i \in 1..n : u[i] = rs[i]
    BY <1>5, <2>1, <2>2, AppendProperties
  <2>4. \A i \in 1..(n + 1) : u[i] = rt[i]  BY <1>7, <1>8, <2>3
  <2>5. u = rt  BY <1>6, <2>3, <2>4, SeqEqual
  <2> QED  BY <2>1, <2>5
<1>10. Reply(r) \in Seq(Part)  BY ReplyType
<1>11. FlattenSeq(rs) \in Seq(Part) /\ FlattenSeq(rt) = FlattenSeq(rs) \o Reply(r)
  BY <1>5, <1>9, <1>10, FlattenAppend
<1> QED  BY <1>1, <1>4, <1>11

\* What the socket took is what is no longer in the buffer.
LEMMA SendKeeps ==
    ASSUME NEW r \in Seq(Part), NEW o \in Seq(Part), NEW k \in 1..Len(o)
    PROVE  /\ r \o SubSeq(o, 1, k) \in Seq(Part) /\ SubSeq(o, k + 1, Len(o)) \in Seq(Part)
           /\ (r \o SubSeq(o, 1, k)) \o SubSeq(o, k + 1, Len(o)) = r \o o
           /\ r \o SubSeq(o, 1, k) # r
           /\ Promised!IsPrefix(r, r \o SubSeq(o, 1, k))
<1>1. PICK n \in Nat : n = Len(o)  OBVIOUS
<1>2. PICK a : a = SubSeq(o, 1, k)  OBVIOUS
<1>3. PICK z : z = SubSeq(o, k + 1, n)  OBVIOUS
<1>4. k \in 1..n /\ k \in Int /\ k >= 1  BY <1>1
<1>5. a \in Seq(Part) /\ Len(a) = k
  <2>1. \A i \in 1..k : o[i] \in Part  BY <1>1, <1>4, ElementOfSeq
  <2> QED  BY <1>2, <1>4, <2>1, SubSeqProperties
<1>6. z \in Seq(Part)
  <2>1. \A i \in (k + 1)..n : o[i] \in Part  BY <1>1, <1>4, ElementOfSeq
  <2>2. k + 1 \in Int /\ n \in Int  BY <1>4
  <2> QED  BY <1>3, <2>1, <2>2, SubSeqProperties
<1>7. a \o z = o
  <2>1. 1 \in 1..(n + 1) /\ k \in (1 - 1)..n /\ n \in k..n  BY <1>4
  <2>2. SubSeq(o, 1, k) \o SubSeq(o, k + 1, n) = SubSeq(o, 1, n)
    BY <1>1, <2>1, ConcatAdjacentSubSeq
  <2>3. SubSeq(o, 1, n) = o  BY <1>1, SubSeqFull
  <2> QED  BY <1>2, <1>3, <2>2, <2>3
<1>8. (r \o a) \o z = r \o o
  <2>1. (r \o a) \o z = r \o (a \o z)  BY <1>5, <1>6, ConcatAssociative
  <2> QED  BY <1>7, <2>1
<1>9. r \o a \in Seq(Part) /\ r \o a # r
  <2>1. r \o a \in Seq(Part) /\ Len(r \o a) = Len(r) + Len(a)  BY <1>5, ConcatProperties
  <2>2. Len(r) \in Nat  OBVIOUS
  <2>3. Len(r \o a) # Len(r)  BY <1>4, <1>5, <2>1, <2>2
  <2> QED  BY <2>1, <2>3
<1>10. Promised!IsPrefix(r, r \o a)  BY <1>5, ConcatIsPrefix
<1> QED  BY <1>1, <1>2, <1>3, <1>6, <1>8, <1>9, <1>10

-----------------------------------------------------------------------------
(* Reading *)

\* Only empty lines have no body.
LEMMA LineFacts ==
    ASSUME NEW n \in Nat
    PROVE  /\ LineOf(n) \in Seq(Piece) /\ (LineOf(n) = <<>> <=> lines[n] = "empty")
           /\ LineOf(n) # <<>> => LineOf(n)[1][1] = n
<1>1. <<n, "body">> \in Piece  BY DEF Piece
<1>2. <<<<n, "body">>>> \in Seq(Piece) /\ <<<<n, "body">>>> # <<>> /\ <<>> \in Seq(Piece)
  BY <1>1
<1>3. <<<<n, "body">>>>[1][1] = n  OBVIOUS
<1> QED  BY <1>2, <1>3 DEF LineOf

\* All lines are complete, or all but the last.
LEMMA CompleteFacts ==
    ASSUME TypeOK
    PROVE  /\ Len(lines) \in Nat /\ Complete \in 0..Len(lines)
           /\ partial => Len(lines) = Complete + 1
           /\ ~partial => Len(lines) = Complete
<1>1. Len(lines) \in Nat /\ (partial => Len(lines) # 0) /\ partial \in BOOLEAN
  BY EmptySeq DEF TypeOK
<1> QED  BY <1>1 DEF Complete

\* Reading the socket would give lines.
LEMMA ArrivedType ==
    ASSUME TypeOK
    PROVE  /\ Arrived.buf \in Seq(Piece) /\ Arrived.done \in Seq(Seq(Piece))
           /\ Len(Arrived.done) \in Nat /\ Len(newlines) \in Nat
<1>1. Arrived \in Acc  BY SplitFacts DEF TypeOK, Arrived
<1> QED  BY <1>1 DEF Acc, TypeOK

\* Where the first line that is not empty is.
LEMMA FirstFullFacts ==
    ASSUME NEW s \in Seq(Seq(Piece))
    PROVE  /\ FirstFull(s) \in 0..Len(s)
           /\ FirstFull(s) = 0 => \A i \in 1..Len(s) : s[i] = <<>>
           /\ FirstFull(s) # 0 => /\ s[FirstFull(s)] # <<>>
                                  /\ \A i \in 1..(FirstFull(s) - 1) : s[i] = <<>>
<1> DEFINE I == {i \in 1..Len(s) : s[i] # <<>>}
           m == CHOOSE x \in I : \A y \in I : x <= y
<1>1. FirstFull(s) = IF I # {} THEN m ELSE 0  BY DEF FirstFull, SelectInSeq, Min
<1>2. Len(s) \in Nat  OBVIOUS
<1>3. CASE I = {}
  <2>1. \A i \in 1..Len(s) : s[i] = <<>>  BY <1>3
  <2>2. FirstFull(s) = 0  BY <1>1, <1>3
  <2> HIDE DEF I, m
  <2> QED  BY <1>2, <2>1, <2>2
<1>4. CASE I # {}
  <2>1. \E x \in I : \A y \in I : x <= y
    <3>1. I \subseteq Nat  OBVIOUS
    <3> HIDE DEF I
    <3> QED  BY <1>4, <3>1, LeastNatural
  <2>2. m \in I /\ \A y \in I : m <= y
    <3> HIDE DEF I
    <3> QED  BY <2>1
  <2> HIDE DEF m
  <2>3. m \in 1..Len(s) /\ s[m] # <<>>  BY <2>2
  <2>4. \A i \in 1..(m - 1) : s[i] = <<>>
    <3> SUFFICES ASSUME NEW i \in 1..(m - 1) PROVE s[i] = <<>>  OBVIOUS
    <3>1. i \in 1..Len(s) /\ ~(m <= i)  BY <1>2, <2>3
    <3> QED  BY <2>2, <3>1
  <2>5. FirstFull(s) = m  BY <1>1, <1>4
  <2> QED  BY <1>2, <2>3, <2>4, <2>5
<1> QED  BY <1>3, <1>4

\* The lines at hand are those after line b; what is left of them and of the stream
\* after the f-th are those after line b + f.
LEMMA ReadFacts ==
    ASSUME TypeOK, NothingAfterReset, NEW b \in Nat, Queue(b), ReadSocket
    PROVE  /\ AtHand \in Seq(Seq(Piece)) /\ Holds(AtHand, b) /\ b + Len(AtHand) <= Complete
           /\ kernel' \in Seq(Piece) /\ inbuf' \in Seq(Piece)
           /\ conn = "reset" => kernel' = <<>>
<1>1. /\ kernel \in Seq(Piece) /\ inbuf \in Seq(Piece) /\ newlines \in Seq(Seq(Piece))
      /\ <<>> \in Seq(Piece) /\ Len(newlines) \in Nat /\ Len(Arrived.done) \in Nat
      /\ Arrived.buf \in Seq(Piece) /\ Arrived.done \in Seq(Seq(Piece))
  BY ArrivedType, EmptySeq DEF TypeOK
<1>2. Complete \in Nat  BY CompleteFacts
<1>3. CASE newlines # <<>> /\ newlines[1] # <<>>
  <2>1. AtHand = newlines  BY <1>3 DEF AtHand
  <2>2. UNCHANGED <<kernel, inbuf>>  BY <1>3 DEF ReadSocket
  <2>3. b + Len(newlines) <= Complete
    <3>1. b + Len(newlines) + Len(Arrived.done) <= Complete  BY DEF Queue
    <3>2. \A l, d, c \in Nat : b + l + d <= c => b + l <= c  OBVIOUS
    <3> QED  BY <1>1, <1>2, <3>1, <3>2
  <2>4. Holds(newlines, b)  BY DEF Queue
  <2> QED  BY <1>1, <2>1, <2>2, <2>3, <2>4 DEF NothingAfterReset
<1>4. CASE ~(newlines # <<>> /\ newlines[1] # <<>>)
  <2>1. PICK d : d = Arrived.done  OBVIOUS
  <2>2. AtHand = newlines \o d  BY <1>4, <2>1 DEF AtHand, Arrived
  <2>3. kernel' = <<>> /\ inbuf' = Arrived.buf  BY <1>4 DEF ReadSocket, Arrived
  <2>4. PICK h : h = AtHand  OBVIOUS
  <2>5. /\ h \in Seq(Seq(Piece)) /\ Len(h) = Len(newlines) + Len(d)
        /\ \A i \in 1..(Len(newlines) + Len(d)) :
              h[i] = IF i <= Len(newlines) THEN newlines[i] ELSE d[i - Len(newlines)]
    BY <1>1, <2>1, <2>2, <2>4, ConcatProperties
  <2>6. Holds(h, b)
    <3> SUFFICES ASSUME NEW i \in 1..(Len(newlines) + Len(d)) PROVE h[i] = LineOf(b + i)
      BY <2>5 DEF Holds
    <3>1. CASE i <= Len(newlines)
      <4>1. i \in 1..Len(newlines)  BY <1>1, <3>1
      <4> QED  BY <2>5, <3>1, <4>1 DEF Queue, Holds
    <3>2. CASE ~(i <= Len(newlines))
      <4>1. PICK j : j = i - Len(newlines)  OBVIOUS
      <4>2. j \in 1..Len(d) /\ (b + Len(newlines)) + j = b + i  BY <1>1, <2>1, <3>2, <4>1
      <4>3. d[j] = LineOf((b + Len(newlines)) + j)  BY <2>1, <4>2 DEF Queue, Holds
      <4> QED  BY <2>5, <3>2, <4>1, <4>2, <4>3
    <3> QED  BY <3>1, <3>2
  <2>7. b + Len(h) <= Complete
    <3>1. b + Len(newlines) + Len(Arrived.done) <= Complete  BY DEF Queue
    <3>2. \A l, k, c \in Nat : b + l + k <= c => b + (l + k) <= c  OBVIOUS
    <3> QED  BY <1>1, <1>2, <2>1, <2>5, <3>1, <3>2
  <2> QED  BY <1>1, <2>3, <2>4, <2>5, <2>6, <2>7
<1> QED  BY <1>3, <1>4

\* When the first f lines at hand are gone, the others follow line b + f.
LEMMA QueueAfter ==
    ASSUME TypeOK, NothingAfterReset, NEW b \in Nat, Queue(b), ReadSocket,
           UNCHANGED <<lines, partial, conn>>, NEW f \in 0..Len(AtHand),
           newlines' = SubSeq(AtHand, f + 1, Len(AtHand))
    PROVE  newlines' \in Seq(Seq(Piece)) /\ Queue(b + f)'
<1>1. /\ kernel \in Seq(Piece) /\ inbuf \in Seq(Piece) /\ newlines \in Seq(Seq(Piece))
      /\ Len(newlines) \in Nat /\ Len(Arrived.done) \in Nat
      /\ Arrived.buf \in Seq(Piece)
  BY ArrivedType DEF TypeOK
<1>2. Complete \in Nat /\ Complete' = Complete  BY CompleteFacts DEF Complete
<1>3. \A n : LineOf(n)' = LineOf(n)  BY DEF LineOf
<1>4. AtHand \in Seq(Seq(Piece)) /\ Holds(AtHand, b)  BY ReadFacts
<1>5. PICK n \in Nat : n = Len(AtHand)  BY <1>4
<1>6. PICK t : t = newlines'  OBVIOUS
<1>7. /\ t \in Seq(Seq(Piece)) /\ Len(t) = n - f
      /\ \A i \in 1..(n - f) : t[i] = AtHand[f + i]
  <2>1. f \in 0..n /\ f + 1 \in Int /\ n \in Int  BY <1>5
  <2>2. \A i \in (f + 1)..n : AtHand[i] \in Seq(Piece)
    <3> SUFFICES ASSUME NEW i \in (f + 1)..n PROVE AtHand[i] \in Seq(Piece)  OBVIOUS
    <3>1. i \in 1..Len(AtHand)  BY <1>5, <2>1
    <3> QED  BY <1>4, <3>1, ElementOfSeq
  <2>3. t = SubSeq(AtHand, f + 1, n)  BY <1>5, <1>6
  <2>4. /\ t \in Seq(Seq(Piece)) /\ Len(t) = IF f + 1 <= n THEN n - (f + 1) + 1 ELSE 0
        /\ \A i \in 1..(n - (f + 1) + 1) : t[i] = AtHand[(f + 1) + i - 1]
    BY <2>1, <2>2, <2>3, SubSeqProperties
  <2>5. (IF f + 1 <= n THEN n - (f + 1) + 1 ELSE 0) = n - f /\ n - (f + 1) + 1 = n - f
    BY <2>1
  <2>6. \A i \in 1..(n - f) : (f + 1) + i - 1 = f + i  BY <2>1
  <2> QED  BY <2>4, <2>5, <2>6
<1>8. Holds(newlines, b + f)'
  <2> SUFFICES ASSUME NEW i \in 1..(n - f) PROVE t[i] = LineOf((b + f) + i)
    BY <1>3, <1>6, <1>7 DEF Holds
  <2>1. f + i \in 1..Len(AtHand) /\ b + (f + i) = (b + f) + i  BY <1>5
  <2>2. AtHand[f + i] = LineOf(b + (f + i))  BY <1>4, <2>1 DEF Holds
  <2> QED  BY <1>7, <2>1, <2>2
<1>9. CASE newlines # <<>> /\ newlines[1] # <<>>
  <2>1. AtHand = newlines /\ Arrived' = Arrived  BY <1>9 DEF AtHand, ReadSocket, Arrived
  <2>2. (b + f) + Len(t) = b + Len(newlines)  BY <1>1, <1>5, <1>7, <2>1
  <2>3. Holds(Arrived.done, (b + f) + Len(newlines))'
    BY <1>3, <1>6, <2>1, <2>2 DEF Queue, Holds
  <2> QED  BY <1>2, <1>3, <1>6, <1>7, <1>8, <2>1, <2>2, <2>3 DEF Queue
<1>10. CASE ~(newlines # <<>> /\ newlines[1] # <<>>)
  <2>1. AtHand = newlines \o Arrived.done /\ kernel' = <<>> /\ inbuf' = Arrived.buf
    BY <1>10 DEF AtHand, ReadSocket, Arrived
  <2>2. Arrived' = [buf |-> Arrived.buf, done |-> <<>>]
    <3>1. Split(Arrived.buf, <<>>) = [buf |-> Arrived.buf, done |-> <<>>]
      BY <1>1, SplitFacts
    <3> QED  BY <2>1, <3>1 DEF Arrived
  <2>3. Arrived'.buf = Arrived.buf /\ Arrived'.done = <<>> /\ Len(Arrived'.done) = 0  BY <2>2
  <2>4. n = Len(newlines) + Len(Arrived.done)
    BY <1>5, <2>1, ConcatProperties, ArrivedType, <1>1
  <2>5. (b + f) + Len(t) + 0 = b + Len(newlines) + Len(Arrived.done)
    <3>1. \A l, k \in Nat : n = l + k => (b + f) + (n - f) + 0 = b + l + k  BY <1>5
    <3> QED  BY <1>1, <1>7, <2>4, <3>1
  <2>6. Holds(Arrived.done, (b + f) + Len(newlines))'  BY <2>3 DEF Holds
  <2> QED  BY <1>2, <1>3, <1>6, <1>7, <1>8, <2>3, <2>5, <2>6 DEF Queue
<1> QED  BY <1>6, <1>7, <1>9, <1>10

-----------------------------------------------------------------------------
(* The steps of the harness *)

\* Nothing was sent.
LEMMA InitIInv == Init => IInv
<1> SUFFICES ASSUME Init PROVE IInv  OBVIOUS
<1>1. TypeOK
  <2>1. \A S : <<>> \in Seq(S)  BY EmptySeq
  <2>2. \A S : lines \in Seq(S) /\ kernel \in Seq(S) /\ inbuf \in Seq(S) /\ newlines \in Seq(S)
               /\ taken \in Seq(S) /\ outbuf \in Seq(S) /\ received \in Seq(S)
    BY <2>1 DEF Init
  <2>3. partial = FALSE /\ conn = "open" /\ sockfd = "open" /\ ppc = "select"  BY DEF Init
  <2> QED  BY <2>2, <2>3 DEF TypeOK
<1>2. Arrived = [buf |-> <<>>, done |-> <<>>]
  <2>1. <<>> \in Seq(Piece)  OBVIOUS
  <2> QED  BY <2>1, SplitFacts DEF Init, Arrived
<1>3. InOrder(0)
  <2>1. lines \in Seq(LineKinds) /\ Len(lines) = 0 /\ Len(newlines) = 0
    BY EmptySeq DEF Init
  <2>2. taken = Full(lines)[0]  BY <2>1, FullEquation DEF Init
  <2>3. Arrived.done = <<>> /\ Arrived.buf = <<>> /\ Len(Arrived.done) = 0  BY <1>2
  <2>4. Complete = 0 /\ partial = FALSE  BY <2>1 DEF Init, Complete
  <2>5. Holds(newlines, 0) /\ Holds(Arrived.done, 0 + Len(newlines))
    BY <2>1, <2>3 DEF Holds
  <2> QED  BY <2>1, <2>2, <2>3, <2>4, <2>5 DEF InOrder, Queue
<1>4. Responses
  <2>1. WithKinds(taken) = <<>>  BY DEF Init, WithKinds
  <2>2. Promised!Replies(<<>>) = <<>>
    <3>1. [i \in DOMAIN <<>> |-> Reply(<<>>[i])] = <<>>  OBVIOUS
    <3>2. FlattenSeq(<<>>) = <<>>  BY DEF FlattenSeq
    <3> QED  BY <3>1, <3>2, PromisedOperators DEF Promised!Replies
  <2> QED  BY <2>1, <2>2 DEF Init, Responses
<1>5. NothingAfterReset /\ StillRequests  BY DEF Init, NothingAfterReset, StillRequests
<1> QED  BY <1>1, <1>3, <1>4, <1>5 DEF IInv, Stream

\* The lines taken are some of those sent.
LEMMA TakenSent ==
    ASSUME TypeOK, NEW b \in Nat, InOrder(b)
    PROVE  /\ b \in 0..Complete /\ b \in 0..Len(lines)
           /\ \A i \in DOMAIN taken : taken[i] \in 1..b /\ taken[i] \in 1..Len(lines)
<1>1. b \in 0..Complete
  <2>1. PICK l \in Nat : l = Len(newlines)  BY ArrivedType
  <2>2. PICK d \in Nat : d = Len(Arrived.done)  BY ArrivedType
  <2>3. PICK c \in Nat : c = Complete  BY CompleteFacts
  <2>4. b + l + d <= c  BY <2>1, <2>2, <2>3 DEF InOrder, Queue
  <2>5. b \in 0..c  BY <2>4
  <2> QED  BY <2>3, <2>5
<1>2. b \in 0..Len(lines)  BY <1>1, CompleteFacts
<1>3. \A i \in DOMAIN taken : taken[i] \in 1..b
  BY <1>2, FullElements DEF TypeOK, InOrder
<1>4. \A i \in DOMAIN taken : taken[i] \in 1..Len(lines)  BY <1>2, <1>3
<1> QED  BY <1>1, <1>2, <1>3, <1>4

\* Requests keep their kinds when another line is sent.
LEMMA KindsKept ==
    ASSUME IInv, NEW k \in LineKinds, lines' = Append(lines, k), UNCHANGED taken
    PROVE  /\ \A n \in 1..Len(lines) : lines'[n] = lines[n] /\ LineOf(n)' = LineOf(n)
           /\ WithKinds(taken)' = WithKinds(taken)
           /\ lines' \in Seq(LineKinds) /\ Len(lines') = Len(lines) + 1
           /\ lines'[Len(lines) + 1] = k
           /\ \A n \in 0..Len(lines) : Full(lines')[n] = Full(lines)[n]
<1>1. lines \in Seq(LineKinds)  BY DEF IInv, TypeOK
<1>2. /\ lines' \in Seq(LineKinds) /\ Len(lines') = Len(lines) + 1
      /\ lines'[Len(lines) + 1] = k
      /\ \A n \in 1..Len(lines) : lines'[n] = lines[n]
  BY <1>1, AppendProperties
<1>3. \A n \in 1..Len(lines) : LineOf(n)' = LineOf(n)  BY <1>2 DEF LineOf
<1>4. PICK b \in Nat : InOrder(b)  BY DEF IInv, Stream
<1>5. \A i \in DOMAIN taken : lines'[taken[i]] = lines[taken[i]]
  BY <1>2, <1>4, TakenSent DEF IInv
<1>6. WithKinds(taken)' = WithKinds(taken)  BY <1>5 DEF WithKinds
<1>7. \A n \in 0..Len(lines) : Full(lines')[n] = Full(lines)[n]  BY <1>1, FullPrefix
<1> QED  BY <1>2, <1>3, <1>6, <1>7

\* The body of another line has been sent.
LEMMA SendBodyIInv ==
    ASSUME IInv, NEW k \in LineKinds, SendBody(k)
    PROVE  IInv'
<1> USE DEF IInv
<1>1. /\ conn = "open" /\ partial = FALSE /\ lines' = Append(lines, k) /\ partial' = TRUE
      /\ kernel' = IF k = "empty" THEN kernel ELSE Append(kernel, <<Len(lines) + 1, "body">>)
      /\ UNCHANGED <<conn, inbuf, newlines, taken, sockfd, outbuf, received, ppc>>
  BY DEF SendBody, outVars, TypeOK
<1>2. PICK b \in Nat : InOrder(b)  BY DEF Stream
<1>3. PICK n \in Nat : n = Len(lines)  BY CompleteFacts
<1>4. /\ \A i \in 1..n : lines'[i] = lines[i] /\ LineOf(i)' = LineOf(i)
      /\ WithKinds(taken)' = WithKinds(taken)
      /\ lines' \in Seq(LineKinds) /\ Len(lines') = n + 1 /\ lines'[n + 1] = k
      /\ \A i \in 0..n : Full(lines')[i] = Full(lines)[i]
  BY <1>1, <1>3, KindsKept
<1>5. Complete = n /\ Complete' = n  BY <1>1, <1>3, <1>4 DEF Complete
<1>6. PICK p : p = <<n + 1, "body">>  OBVIOUS
<1>7. p \in Piece /\ p[2] = "body"  BY <1>6 DEF Piece
<1>8. TypeOK'
  <2>1. kernel' \in Seq(Piece)  BY <1>1, <1>3, <1>6, <1>7, AppendProperties DEF TypeOK
  <2>2. lines' # <<>>  BY <1>4, EmptySeq
  <2> QED  BY <1>1, <1>4, <2>1, <2>2 DEF TypeOK
<1>9. /\ Arrived.buf = <<>> /\ Holds(newlines, b) /\ Holds(Arrived.done, b + Len(newlines))
      /\ b + Len(newlines) + Len(Arrived.done) = n
  BY <1>1, <1>2, <1>5 DEF InOrder, Queue
<1>10. LineOf(n + 1)' = IF k = "empty" THEN <<>> ELSE <<p>>
  BY <1>4, <1>6 DEF LineOf
<1>11. Arrived'.done = Arrived.done /\ Arrived'.buf = LineOf(n + 1)'
  <2>1. CASE k = "empty"
    <3>1. Arrived' = Arrived  BY <1>1, <2>1 DEF Arrived
    <3> QED  BY <1>9, <1>10, <2>1, <3>1
  <2>2. CASE k # "empty"
    <3>1. Arrived' = AddPiece(Arrived, p)
      <4>1. kernel' = Append(kernel, p)  BY <1>1, <1>3, <1>6, <2>2
      <4>2. Split(inbuf, Append(kernel, p)) = AddPiece(Split(inbuf, kernel), p)
        BY <1>7, SplitFacts DEF TypeOK
      <4> QED  BY <1>1, <4>1, <4>2 DEF Arrived
    <3>2. Arrived' = [buf |-> Append(Arrived.buf, p), done |-> Arrived.done]
      BY <1>7, <3>1 DEF AddPiece
    <3>3. Append(<<>>, p) = <<p>>  OBVIOUS
    <3> QED  BY <1>9, <1>10, <2>2, <3>2, <3>3
  <2> QED  BY <2>1, <2>2
<1>12. InOrder(b)'
  <2>1. Len(newlines) \in Nat /\ Len(Arrived.done) \in Nat  BY ArrivedType
  <2>2. \A i \in 1..Len(newlines) : b + i \in 1..n
    <3>1. \A l, d \in Nat : b + l + d = n => \A i \in 1..l : b + i \in 1..n  OBVIOUS
    <3> QED  BY <1>9, <2>1, <3>1
  <2>3. \A i \in 1..Len(Arrived.done) : b + Len(newlines) + i \in 1..n
    <3>1. \A l, d \in Nat : b + l + d = n => \A i \in 1..d : b + l + i \in 1..n  OBVIOUS
    <3> QED  BY <1>9, <2>1, <3>1
  <2>4. Holds(newlines, b)'  BY <1>1, <1>4, <1>9, <2>2 DEF Holds
  <2>5. Holds(Arrived.done, b + Len(newlines))'
    BY <1>1, <1>4, <1>9, <1>11, <2>3 DEF Holds
  <2>6. Queue(b)'
    <3>1. b + Len(newlines') + Len(Arrived'.done) = Complete'  BY <1>1, <1>5, <1>9, <1>11
    <3>2. Complete' \in Nat  BY <1>5
    <3>3. Arrived'.buf = LineOf(Len(lines))'  BY <1>4, <1>11
    <3>4. partial' = TRUE  BY <1>1
    <3>5. b + Len(newlines') + Len(Arrived'.done) <= Complete'
      <4>1. \A c \in Nat : c <= c  OBVIOUS
      <4> QED  BY Zenon, <3>1, <3>2, <4>1
    <3> QED  BY Zenon, <2>4, <2>5, <3>1, <3>3, <3>4, <3>5 DEF Queue
  <2>7. taken' = Full(lines')[b]
    <3>1. b \in 0..n  BY <1>2, <1>3, TakenSent
    <3> QED  BY <1>1, <1>2, <1>4, <3>1 DEF InOrder
  <2> QED  BY <2>6, <2>7 DEF InOrder
<1>13. Responses'  BY <1>1, <1>4 DEF Responses, Promised!Replies
<1>14. NothingAfterReset'  BY <1>1 DEF NothingAfterReset
<1>15. StillRequests'
  <2>1. \A i \in DOMAIN taken : taken[i] \in 1..n  BY <1>2, <1>3, TakenSent
  <2> QED  BY <1>1, <1>4, <2>1 DEF StillRequests
<1> QED  BY <1>8, <1>12, <1>13, <1>14, <1>15 DEF Stream

\* The line is complete.
LEMMA SendNewlineIInv ==
    ASSUME IInv, SendNewline
    PROVE  IInv'
<1> USE DEF IInv
<1>1. /\ conn = "open" /\ partial = TRUE /\ partial' = FALSE
      /\ kernel' = Append(kernel, <<Len(lines), "nl">>)
      /\ UNCHANGED <<lines, conn, inbuf, newlines, taken, sockfd, outbuf, received, ppc>>
  BY DEF SendNewline, outVars, TypeOK
<1>2. PICK b \in Nat : InOrder(b)  BY DEF Stream
<1>3. PICK n \in Nat : n = Len(lines)  BY CompleteFacts
<1>4. Complete' = n /\ Complete + 1 = n /\ Complete \in Nat  BY <1>1, <1>3, CompleteFacts DEF Complete
<1>5. \A i : LineOf(i)' = LineOf(i)  BY <1>1 DEF LineOf
<1>6. PICK p : p = <<n, "nl">>  OBVIOUS
<1>7. p \in Piece /\ p[2] = "nl"  BY <1>6 DEF Piece
<1>8. kernel' = Append(kernel, p) /\ kernel' \in Seq(Piece)
  BY <1>1, <1>3, <1>6, <1>7, AppendProperties DEF TypeOK
<1>9. TypeOK'  BY <1>1, <1>8 DEF TypeOK
<1>10. /\ Arrived.buf = LineOf(n) /\ Holds(newlines, b) /\ Holds(Arrived.done, b + Len(newlines))
       /\ b + Len(newlines) + Len(Arrived.done) = Complete
  BY <1>1, <1>2, <1>3 DEF InOrder, Queue
<1>11. Arrived'.buf = <<>> /\ Arrived'.done = Append(Arrived.done, LineOf(n))
  <2>1. Split(inbuf, Append(kernel, p)) = AddPiece(Split(inbuf, kernel), p)
    BY <1>7, SplitFacts DEF TypeOK
  <2>2. Arrived' = AddPiece(Arrived, p)  BY <1>1, <1>8, <2>1 DEF Arrived
  <2>3. Arrived' = [buf |-> <<>>, done |-> Append(Arrived.done, Arrived.buf)]
    BY <1>7, <2>2 DEF AddPiece
  <2> QED  BY <1>10, <2>3
<1>12. Queue(b)'
  <2>1. PICK d \in Nat : d = Len(Arrived.done)  BY ArrivedType
  <2>2. PICK l \in Nat : l = Len(newlines)  BY ArrivedType
  <2>3. PICK e : e = Arrived'.done  OBVIOUS
  <2>4. Len(e) = d + 1 /\ e[d + 1] = LineOf(n) /\ \A i \in 1..d : e[i] = Arrived.done[i]
    <3>1. LineOf(n) \in Seq(Piece) /\ Arrived.done \in Seq(Seq(Piece))
      BY LineFacts, ArrivedType
    <3> QED  BY <1>11, <2>1, <2>3, <3>1, AppendProperties
  <2>5. b + l + (d + 1) = n
    <3>1. b + l + d = Complete  BY <1>10, <2>1, <2>2
    <3> QED  BY <1>4, <3>1
  <2>6. \A i \in 1..(d + 1) : e[i] = LineOf((b + l) + i)
    <3> SUFFICES ASSUME NEW i \in 1..(d + 1) PROVE e[i] = LineOf((b + l) + i)  OBVIOUS
    <3>1. CASE i = d + 1  BY <2>4, <2>5, <3>1
    <3>2. CASE i \in 1..d  BY <1>10, <2>1, <2>2, <2>4, <3>2 DEF Holds
    <3> QED  BY <3>1, <3>2
  <2>7. Holds(Arrived.done, b + Len(newlines))'
    BY <1>1, <1>5, <2>2, <2>3, <2>4, <2>6 DEF Holds
  <2>8. Holds(newlines, b)'  BY <1>1, <1>5, <1>10 DEF Holds
  <2>9. b + Len(newlines') + Len(Arrived'.done) = n  BY <1>1, <2>2, <2>3, <2>4, <2>5
  <2>10. partial' = FALSE /\ Complete' = n  BY <1>1, <1>4
  <2>11. n <= n  OBVIOUS
  <2>12. /\ b + Len(newlines') + Len(Arrived'.done) = Complete'
         /\ b + Len(newlines') + Len(Arrived'.done) <= Complete'
    BY Zenon, <2>9, <2>10, <2>11
  <2> QED  BY Zenon, <1>11, <2>7, <2>8, <2>10, <2>12 DEF Queue
<1>13. Stream'  BY <1>1, <1>2, <1>12 DEF Stream, InOrder
<1>14. Responses'  BY <1>1 DEF Responses, Promised!Replies, WithKinds
<1>15. NothingAfterReset' /\ StillRequests'  BY <1>1 DEF NothingAfterReset, StillRequests
<1> QED  BY <1>9, <1>13, <1>14, <1>15

\* The harness closes its end.
LEMMA CloseIInv ==
    ASSUME IInv, Close
    PROVE  IInv'
<1> USE DEF IInv
<1>1. /\ conn = "open" /\ conn' = "eof"
      /\ UNCHANGED <<lines, partial, kernel, inbuf, newlines, taken, sockfd, outbuf, received, ppc>>
  BY DEF Close, inVars, outVars
<1>2. PICK b \in Nat : InOrder(b)  BY DEF Stream
<1>3. Queue(b)'
  BY <1>1, <1>2 DEF InOrder, Queue, Holds, LineOf, Arrived, Complete
<1>4. Stream'  BY <1>1, <1>2, <1>3 DEF Stream, InOrder
<1>5. TypeOK'  BY <1>1 DEF TypeOK
<1>6. Responses'  BY <1>1 DEF Responses, Promised!Replies, WithKinds
<1>7. NothingAfterReset' /\ StillRequests'  BY <1>1 DEF NothingAfterReset, StillRequests
<1> QED  BY <1>4, <1>5, <1>6, <1>7

\* The connection breaks: what was to be read is lost, what is at hand is not.
LEMMA ResetIInv ==
    ASSUME IInv, Reset
    PROVE  IInv'
<1> USE DEF IInv
<1>1. /\ conn' = "reset" /\ kernel' = <<>>
      /\ UNCHANGED <<lines, partial, inbuf, newlines, taken, sockfd, outbuf, received, ppc>>
  BY DEF Reset, outVars
<1>2. PICK b \in Nat : InOrder(b)  BY DEF Stream
<1>3. TypeOK'  BY <1>1, EmptySeq DEF TypeOK
<1>4. Arrived' = [buf |-> inbuf, done |-> <<>>]
  BY <1>1, SplitFacts DEF TypeOK, Arrived
<1>5. Arrived'.done = <<>> /\ Len(Arrived'.done) = 0  BY <1>4
<1>6. Queue(b)'
  <2>1. Holds(Arrived.done, b + Len(newlines))'  BY <1>5 DEF Holds
  <2>2. Holds(newlines, b)'  BY <1>1, <1>2 DEF InOrder, Queue, Holds, LineOf
  <2>3. b + Len(newlines) + 0 <= Complete
    <3>1. b + Len(newlines) + Len(Arrived.done) <= Complete  BY <1>2 DEF InOrder, Queue
    <3>2. \A l, d, c \in Nat : b + l + d <= c => b + l + 0 <= c  OBVIOUS
    <3>3. Len(newlines) \in Nat /\ Len(Arrived.done) \in Nat /\ Complete \in Nat
      BY ArrivedType, CompleteFacts
    <3> QED  BY <3>1, <3>2, <3>3
  <2>4. Complete' = Complete  BY <1>1 DEF Complete
  <2> QED  BY <1>1, <1>5, <2>1, <2>2, <2>3, <2>4 DEF Queue
<1>7. Stream'  BY <1>1, <1>2, <1>6 DEF Stream, InOrder
<1>8. Responses'  BY <1>1 DEF Responses, Promised!Replies, WithKinds
<1>9. NothingAfterReset' /\ StillRequests'  BY <1>1 DEF NothingAfterReset, StillRequests
<1> QED  BY <1>3, <1>7, <1>8, <1>9

-----------------------------------------------------------------------------
(* The steps of the daemon *)

\* A line that is not empty is taken, the empty ones before it are dropped.
LEMMA TakeFacts ==
    ASSUME IInv, TakeLine, NEW b \in Nat, InOrder(b)
    PROVE  \E n \in (b + 1)..Complete :
              /\ n = AtHand[FirstFull(AtHand)][1][1] /\ n \in 1..Len(lines)
              /\ lines[n] # "empty" /\ Full(lines)[n] = Append(taken, n)
              /\ taken' = Append(taken, n) /\ InOrder(n)'
              /\ newlines' \in Seq(Seq(Piece))
<1> USE DEF IInv
<1>1. /\ ReadSocket /\ FirstFull(AtHand) # 0
      /\ newlines' = SubSeq(AtHand, FirstFull(AtHand) + 1, Len(AtHand))
      /\ taken' = Append(taken, AtHand[FirstFull(AtHand)][1][1])
      /\ UNCHANGED <<lines, partial, conn>>
  BY DEF TakeLine, harnessVars
<1>2. AtHand \in Seq(Seq(Piece)) /\ Holds(AtHand, b) /\ b + Len(AtHand) <= Complete
  BY <1>1, ReadFacts DEF InOrder
<1>3. PICK f : f = FirstFull(AtHand)  OBVIOUS
<1>4. PICK l \in Nat : l = Len(AtHand)  BY <1>2
<1>5. f \in 1..l /\ AtHand[f] # <<>> /\ \A i \in 1..(f - 1) : AtHand[i] = <<>>
  BY <1>1, <1>2, <1>3, <1>4, FirstFullFacts
<1>6. PICK c \in Nat : c = Complete /\ c <= Len(lines) /\ Len(lines) \in Nat  BY CompleteFacts
<1>7. PICK n : n = b + f  OBVIOUS
<1>8. n \in (b + 1)..c /\ n \in Nat /\ n \in 1..Len(lines) /\ n - 1 = b + (f - 1)
  BY <1>2, <1>4, <1>5, <1>6, <1>7
<1>9. AtHand[f] = LineOf(n)  BY <1>2, <1>4, <1>5, <1>7 DEF Holds
<1>10. lines[n] # "empty" /\ AtHand[f][1][1] = n  BY <1>5, <1>8, <1>9, LineFacts
<1>11. \A i \in 1..(f - 1) : lines[b + i] = "empty"
  <2> SUFFICES ASSUME NEW i \in 1..(f - 1) PROVE lines[b + i] = "empty"  OBVIOUS
  <2>1. i \in 1..Len(AtHand) /\ b + i \in Nat  BY <1>4, <1>5
  <2>2. LineOf(b + i) = <<>>  BY <1>2, <1>5, <2>1 DEF Holds
  <2> QED  BY <2>1, <2>2, LineFacts
<1>12. lines \in Seq(LineKinds)  BY DEF TypeOK
<1>13. Full(lines)[n] = Append(taken, n)
  <2>1. PICK d \in Nat : d = f - 1  BY <1>5
  <2>2. b + d = n - 1 /\ b + d <= Len(lines)  BY <1>7, <1>8, <2>1
  <2>3. Full(lines)[b + d] = Full(lines)[b]  BY <1>11, <1>12, <2>1, <2>2, FullSkip
  <2>4. Full(lines)[n] = Append(Full(lines)[n - 1], n)
    BY <1>8, <1>10, <1>12, FullEquation
  <2>5. taken = Full(lines)[b]  BY DEF InOrder
  <2> QED  BY <2>2, <2>3, <2>4, <2>5
<1>14. newlines' \in Seq(Seq(Piece)) /\ Queue(n)'
  <2>1. f \in 0..Len(AtHand) /\ newlines' = SubSeq(AtHand, f + 1, Len(AtHand))
    BY <1>1, <1>3, <1>4, <1>5
  <2>2. Queue(b)  BY DEF InOrder
  <2> QED  BY <1>1, <1>7, <2>1, <2>2, QueueAfter
<1>15. taken' = Append(taken, n)  BY <1>1, <1>3, <1>10
<1>16. InOrder(n)'  BY <1>1, <1>13, <1>14, <1>15 DEF InOrder
<1> QED  BY <1>3, <1>6, <1>8, <1>10, <1>13, <1>14, <1>15, <1>16

\* One more line has its kind.
LEMMA WithKindsAppend ==
    ASSUME TypeOK, NEW s \in Seq(Nat), NEW n \in 1..Len(lines),
           \A i \in DOMAIN s : s[i] \in 1..Len(lines)
    PROVE  /\ WithKinds(s) \in Seq(Request) /\ <<n, lines[n]>> \in Request
           /\ WithKinds(Append(s, n)) = Append(WithKinds(s), <<n, lines[n]>>)
           /\ Len(WithKinds(s)) = Len(s)
<1>1. PICK m \in Nat : m = Len(s)  OBVIOUS
<1>2. DOMAIN s = 1..m  BY <1>1, LenProperties
<1>3. \A j \in 1..Len(lines) : j \in Nat /\ <<j, lines[j]>> \in Request
  BY ElementOfSeq DEF TypeOK, Request
<1>4. PICK t : t = Append(s, n)  OBVIOUS
<1>5. Len(t) = m + 1 /\ DOMAIN t = 1..(m + 1) /\ t[m + 1] = n /\ \A i \in 1..m : t[i] = s[i]
  <2>1. n \in Nat  BY <1>3
  <2> QED  BY <1>1, <1>4, <2>1, AppendProperties, LenProperties
<1>6. PICK w : w = WithKinds(s)  OBVIOUS
<1>7. w = [i \in 1..m |-> <<s[i], lines[s[i]]>>]  BY <1>2, <1>6 DEF WithKinds
<1>8. w \in Seq(Request) /\ Len(w) = m
  <2>1. \A i \in 1..m : <<s[i], lines[s[i]]>> \in Request  BY <1>2, <1>3
  <2> QED  BY <1>1, <1>7, <2>1
<1>9. PICK u : u = WithKinds(t)  OBVIOUS
<1>10. u = [i \in 1..(m + 1) |-> <<t[i], lines[t[i]]>>]  BY <1>5, <1>9 DEF WithKinds
<1>11. u = Append(w, <<n, lines[n]>>)
  <2>1. PICK v : v = Append(w, <<n, lines[n]>>)  OBVIOUS
  <2>2. /\ v \in Seq(Request) /\ Len(v) = m + 1 /\ v[m + 1] = <<n, lines[n]>>
        /\ \A i \in 1..m : v[i] = w[i]
    BY <1>3, <1>8, <2>1, AppendProperties
  <2>3. \A i \in 1..(m + 1) : u[i] = v[i]
    <3> SUFFICES ASSUME NEW i \in 1..(m + 1) PROVE u[i] = v[i]  OBVIOUS
    <3>1. CASE i = m + 1  BY <1>5, <1>10, <2>2, <3>1
    <3>2. CASE i \in 1..m  BY <1>5, <1>7, <1>10, <2>2, <3>2
    <3> QED  BY <3>1, <3>2
  <2>4. u \in Seq(Request) /\ Len(u) = m + 1
    <3>1. \A i \in 1..(m + 1) : u[i] \in Request
      <4>1. \A i \in 1..(m + 1) : v[i] \in Request  BY <2>2, ElementOfSeq
      <4> QED  BY <2>3, <4>1
    <3>2. u = [i \in 1..(m + 1) |-> u[i]]  BY <1>10
    <3> QED  BY <3>1, <3>2
  <2>5. u = v  BY <2>2, <2>3, <2>4, SeqEqual
  <2> QED  BY <2>1, <2>5
<1> QED  BY <1>1, <1>3, <1>4, <1>6, <1>8, <1>9, <1>11

\* The line taken is the first one that is not empty: the boundary moves behind it.
LEMMA TakeLineIInv ==
    ASSUME IInv, TakeLine
    PROVE  IInv'
<1> USE DEF IInv
<1>1. PICK b \in Nat : InOrder(b)  BY DEF Stream
<1>2. PICK n \in (b + 1)..Complete :
         /\ n = AtHand[FirstFull(AtHand)][1][1] /\ n \in 1..Len(lines)
         /\ taken' = Append(taken, n) /\ InOrder(n)' /\ newlines' \in Seq(Seq(Piece))
  BY <1>1, TakeFacts
<1>3. /\ ppc = "select" /\ ReadSocket
      /\ outbuf' = IF IsAnswered(n) THEN outbuf \o Response(n) ELSE outbuf
      /\ ppc' = IF lines[n] = "request" THEN "select" ELSE "flush"
      /\ UNCHANGED <<lines, partial, conn, sockfd, received>>
  BY <1>2 DEF TakeLine, harnessVars
<1>4. n \in Nat /\ b \in 0..Complete /\ Complete \in Nat
  BY <1>1, <1>2, CompleteFacts DEF TypeOK
<1>5. \A i \in DOMAIN taken : taken[i] \in 1..Len(lines)  BY <1>1, TakenSent
<1>6. kernel' \in Seq(Piece) /\ inbuf' \in Seq(Piece) /\ (conn = "reset" => kernel' = <<>>)
  BY <1>1, <1>3, ReadFacts DEF InOrder
<1>7. outbuf \in Seq(Part) /\ received \in Seq(Part) /\ taken \in Seq(Nat)  BY DEF TypeOK
<1>8. /\ WithKinds(taken) \in Seq(Request) /\ <<n, lines[n]>> \in Request
      /\ WithKinds(taken)' = Append(WithKinds(taken), <<n, lines[n]>>)
  <2>1. WithKinds(taken)' = WithKinds(taken')  BY <1>3 DEF WithKinds
  <2> QED  BY <1>2, <1>5, <1>7, <2>1, WithKindsAppend
<1>9. PICK r : r = Reply(<<n, lines[n]>>)  OBVIOUS
<1>10. r \in Seq(Part)  BY <1>8, <1>9, ReplyType
<1>11. outbuf' = outbuf \o r
  <2>1. r = IF IsAnswered(n) THEN Response(n) ELSE <<>>  BY <1>9 DEF Reply, IsAnswered
  <2>2. outbuf \o <<>> = outbuf  BY <1>7, ConcatEmptySeq
  <2> QED  BY <1>3, <2>1, <2>2
<1>12. TypeOK'
  <2>1. outbuf' \in Seq(Part)  BY <1>7, <1>10, <1>11, ConcatProperties
  <2>2. taken' \in Seq(Nat)  BY <1>2, <1>4, <1>7, AppendProperties
  <2>3. ppc' \in {"select", "flush"}  BY <1>3
  <2> QED  BY <1>2, <1>3, <1>6, <2>1, <2>2, <2>3 DEF TypeOK
<1>13. Responses'
  <2>1. Promised!Replies(WithKinds(taken)') = Promised!Replies(WithKinds(taken)) \o r
    BY <1>8, <1>9, RepliesAppend
  <2>2. received' \o outbuf' = (received \o outbuf) \o r
    <3>1. received \o (outbuf \o r) = (received \o outbuf) \o r
      BY <1>7, <1>10, ConcatAssociative
    <3> QED  BY <1>3, <1>11, <3>1
  <2>3. Promised!Replies(WithKinds(taken))' = Promised!Replies(WithKinds(taken)')
    BY DEF Promised!Replies
  <2> QED  BY <2>1, <2>2, <2>3 DEF Responses
<1>14. StillRequests'
  <2> SUFFICES ASSUME lines[n] = "request", NEW i \in DOMAIN taken'
               PROVE  lines[taken'[i]] = "request"
    BY <1>3 DEF StillRequests
  <2>1. PICK m \in Nat : m = Len(taken)  BY <1>7
  <2>2. i \in 1..(m + 1) /\ DOMAIN taken = 1..m
    BY <1>2, <1>4, <1>7, <2>1, AppendProperties, LenProperties
  <2>3. taken'[m + 1] = n /\ \A j \in 1..m : taken'[j] = taken[j]
    BY <1>2, <1>4, <1>7, <2>1, AppendProperties
  <2>4. \A j \in 1..m : lines[taken[j]] = "request"  BY <1>3, <2>2 DEF StillRequests
  <2> QED  BY <2>2, <2>3, <2>4
<1>15. NothingAfterReset'  BY <1>3, <1>6 DEF NothingAfterReset
<1>16. Stream'  BY <1>2, <1>4 DEF Stream
<1> QED  BY <1>12, <1>13, <1>14, <1>15, <1>16

\* Only empty lines have come: they are dropped.
LEMMA NoLineIInv ==
    ASSUME IInv, NoLine
    PROVE  IInv'
<1> USE DEF IInv
<1>1. PICK b \in Nat : InOrder(b)  BY DEF Stream
<1>2. /\ ppc = "select" /\ ReadSocket /\ FirstFull(AtHand) = 0 /\ newlines' = <<>>
      /\ ppc' \in {"select", "flush"} /\ sockfd' \in {sockfd, "closed"}
      /\ UNCHANGED <<lines, partial, conn, taken, outbuf, received>>
  BY DEF NoLine, harnessVars, outVars
<1>3. /\ AtHand \in Seq(Seq(Piece)) /\ Holds(AtHand, b) /\ b + Len(AtHand) <= Complete
      /\ kernel' \in Seq(Piece) /\ inbuf' \in Seq(Piece) /\ (conn = "reset" => kernel' = <<>>)
  BY <1>1, <1>2, ReadFacts DEF InOrder
<1>4. PICK l \in Nat : l = Len(AtHand)  BY <1>3
<1>5. \A i \in 1..l : lines[b + i] = "empty"
  <2> SUFFICES ASSUME NEW i \in 1..l PROVE lines[b + i] = "empty"  OBVIOUS
  <2>1. AtHand[i] = <<>>  BY <1>2, <1>3, <1>4, FirstFullFacts
  <2>2. LineOf(b + i) = <<>> /\ b + i \in Nat  BY <1>3, <1>4, <2>1 DEF Holds
  <2> QED  BY <2>2, LineFacts
<1>6. Full(lines)[b + l] = taken
  <2>1. PICK c \in Nat : c = Complete /\ c <= Len(lines) /\ Len(lines) \in Nat
    BY CompleteFacts
  <2>2. b + l <= Len(lines)  BY <1>3, <1>4, <2>1
  <2>3. lines \in Seq(LineKinds)  BY DEF TypeOK
  <2> QED  BY <1>1, <1>5, <2>2, <2>3, FullSkip DEF InOrder
<1>7. Queue(b + l)'
  <2>1. newlines' = SubSeq(AtHand, l + 1, Len(AtHand)) /\ l \in 0..Len(AtHand)
    <3>1. SubSeq(AtHand, l + 1, l) = <<>>  BY SubSeqEmpty
    <3> QED  BY <1>2, <1>4, <3>1
  <2>2. Queue(b)  BY <1>1 DEF InOrder
  <2> QED  BY <1>2, <2>1, <2>2, QueueAfter
<1>8. InOrder(b + l)'  BY <1>2, <1>6, <1>7 DEF InOrder
<1>9. Stream'  BY <1>8 DEF Stream
<1>10. TypeOK'
  <2>1. newlines' \in Seq(Seq(Piece))  BY <1>2, EmptySeq
  <2> QED  BY <1>2, <1>3, <2>1 DEF TypeOK
<1>11. Responses'  BY <1>2 DEF Responses, Promised!Replies, WithKinds
<1>12. NothingAfterReset'  BY <1>2, <1>3 DEF NothingAfterReset
<1>13. StillRequests'  BY <1>2 DEF StillRequests
<1> QED  BY <1>9, <1>10, <1>11, <1>12, <1>13

\* Nothing that is read changes.
LEMMA StreamKept ==
    ASSUME Stream, UNCHANGED <<harnessVars, inVars>>
    PROVE  Stream'
<1>1. PICK b \in Nat : InOrder(b)  BY DEF Stream
<1>2. InOrder(b)'
  BY <1>1 DEF InOrder, Queue, Holds, LineOf, Arrived, Complete, harnessVars, inVars
<1> QED  BY <1>2 DEF Stream

\* The socket takes a part of what is to be sent.
LEMMA SendIInv ==
    ASSUME IInv, NEW k \in 1..Len(outbuf), Send(k), UNCHANGED <<harnessVars, inVars, ppc>>
    PROVE  IInv'
<1> USE DEF IInv
<1>1. /\ received' = received \o SubSeq(outbuf, 1, k)
      /\ outbuf' = SubSeq(outbuf, k + 1, Len(outbuf))
  BY DEF Send
<1>2. received \in Seq(Part) /\ outbuf \in Seq(Part)  BY DEF TypeOK
<1>3. received' \in Seq(Part) /\ outbuf' \in Seq(Part) /\ received' \o outbuf' = received \o outbuf
  BY <1>1, <1>2, SendKeeps
<1>4. TypeOK'  BY <1>3 DEF TypeOK, harnessVars, inVars
<1>5. Responses'
  BY <1>3 DEF Responses, Promised!Replies, WithKinds, harnessVars, inVars
<1>6. NothingAfterReset' /\ StillRequests'
  BY DEF NothingAfterReset, StillRequests, harnessVars, inVars
<1> QED  BY <1>4, <1>5, <1>6, StreamKept

\* The loop or the worker ends.
LEMMA EndingIInv ==
    ASSUME IInv, UNCHANGED <<harnessVars, inVars, outVars>>, ppc' \in {"flush", "ended", "ub"}
    PROVE  IInv'
<1> USE DEF IInv
<1>1. TypeOK'  BY DEF TypeOK, harnessVars, inVars, outVars
<1>2. Responses'
  BY DEF Responses, Promised!Replies, WithKinds, harnessVars, inVars, outVars
<1>3. NothingAfterReset' /\ StillRequests'
  BY DEF NothingAfterReset, StillRequests, harnessVars, inVars
<1> QED  BY <1>1, <1>2, <1>3, StreamKept

\* All that goes out, and the ends of the loop and of the worker.
LEMMA WritingIInv ==
    ASSUME IInv, Writing
    PROVE  IInv'
<1>1. CASE FlushBuffer  BY <1>1, SendIInv DEF FlushBuffer
<1>2. CASE FlushFails  BY <1>2, EndingIInv DEF FlushFails
<1>3. CASE FlushBufferBlock
  <2>1. CASE \E k \in 1..Len(outbuf) : Send(k) /\ UNCHANGED ppc
    BY <1>3, <2>1, SendIInv DEF FlushBufferBlock
  <2>2. CASE ppc' = "ended" /\ UNCHANGED outVars
    BY <1>3, <2>2, EndingIInv DEF FlushBufferBlock
  <2> QED  BY <1>3, <2>1, <2>2 DEF FlushBufferBlock
<1>4. CASE FlushClosed  BY <1>4, EndingIInv DEF FlushClosed
<1>5. CASE Flushed  BY <1>5, EndingIInv DEF Flushed
<1> QED  BY <1>1, <1>2, <1>3, <1>4, <1>5 DEF Writing

\* readSocket and getRawMessage lose, split and reorder no line, and flushBuffer no response:
\* every line is taken in order, and every response is in order, sent or to be sent.
THEOREM LinesInOrder == Spec => []IInv
<1>1. IInv /\ [Next]_vars => IInv'
  <2> SUFFICES ASSUME IInv, [Next]_vars PROVE IInv'  OBVIOUS
  <2>1. CASE Harness
    BY <2>1, SendBodyIInv, SendNewlineIInv, CloseIInv, ResetIInv DEF Harness
  <2>2. CASE Reading  BY <2>2, TakeLineIInv, NoLineIInv DEF Reading
  <2>3. CASE Writing  BY <2>3, WritingIInv
  <2>4. CASE UNCHANGED vars
    <3>1. UNCHANGED <<harnessVars, inVars, outVars, ppc>>  BY <2>4 DEF vars
    <3>2. TypeOK'  BY <3>1 DEF IInv, TypeOK, harnessVars, inVars, outVars
    <3>3. Responses'
      BY <3>1 DEF IInv, Responses, Promised!Replies, WithKinds, harnessVars, inVars, outVars
    <3>4. NothingAfterReset' /\ StillRequests'
      BY <3>1 DEF IInv, NothingAfterReset, StillRequests, harnessVars, inVars
    <3>5. Stream'  BY <3>1, StreamKept DEF IInv
    <3> QED  BY <3>2, <3>3, <3>4, <3>5 DEF IInv
  <2> QED  BY <2>1, <2>2, <2>3, <2>4 DEF Next
<1> QED  BY <1>1, InitIInv, PTL DEF Spec

-----------------------------------------------------------------------------
(* The end of a connection *)

\* A line that ends the connection was taken.
LastTaken == \E i \in DOMAIN taken : lines[taken[i]] \in {"invalid", "close"}

\* The loop has been left only because the connection broke, because all that the harness
\* sent before it closed its end was taken, or because of a line that was to end it; and
\* unless the connection broke, the worker ends with all responses sent.
OrderlyEnd ==
    /\ ppc # "select" => conn = "reset" \/ (conn = "eof" /\ taken = Sent) \/ LastTaken
    /\ ppc = "ended" => conn = "reset" \/ received = Promised!Replies(WithKinds(taken))

\* At the end of the stream no line is left when none is taken.
LEMMA NoLineTakesAll ==
    ASSUME IInv, NoLine, conn # "reset"
    PROVE  taken' = Sent'
<1>1. IInv'  BY NoLineIInv
<1>2. PICK b \in Nat : InOrder(b)'  BY <1>1 DEF IInv, Stream
<1>3. /\ ReadSocket /\ newlines' = <<>> /\ conn' = conn /\ FirstFull(AtHand) = 0
  BY DEF NoLine, harnessVars
<1>4. kernel' = <<>>
  <2> SUFFICES ASSUME newlines # <<>>, newlines[1] # <<>> PROVE FALSE
    BY <1>3 DEF ReadSocket
  <2>1. AtHand = newlines /\ newlines \in Seq(Seq(Piece))  BY DEF AtHand, IInv, TypeOK
  <2>2. 1 \in 1..Len(newlines)  BY <2>1
  <2>3. newlines[1] = <<>>  BY <1>3, <2>1, <2>2, FirstFullFacts
  <2> QED  BY <2>3
<1>5. Arrived'.done = <<>>
  <2>1. inbuf' \in Seq(Piece)  BY <1>1 DEF IInv, TypeOK
  <2>2. Split(inbuf', <<>>) = [buf |-> inbuf', done |-> <<>>]  BY <2>1, SplitFacts
  <2> QED  BY <1>4, <2>2 DEF Arrived
<1>6. b + Len(newlines') + Len(Arrived'.done) = Complete'
  BY <1>2, <1>3 DEF InOrder, Queue
<1>7. Complete' = b
  <2>1. Len(<<>>) = 0  OBVIOUS
  <2> QED  BY <1>3, <1>5, <1>6, <2>1
<1> QED  BY <1>2, <1>7 DEF InOrder, Sent

\* What ended the loop stays so.
LEMMA LastStays ==
    ASSUME IInv, LastTaken, UNCHANGED taken,
           lines' = lines \/ \E k \in LineKinds : lines' = Append(lines, k)
    PROVE  LastTaken'
<1>1. PICK b \in Nat : InOrder(b)  BY DEF IInv, Stream
<1>2. \A i \in DOMAIN taken : taken[i] \in 1..Len(lines)  BY <1>1, TakenSent DEF IInv
<1>3. \A n \in 1..Len(lines) : lines'[n] = lines[n]  BY KindsKept
<1> QED  BY <1>2, <1>3 DEF LastTaken

\* Nothing that OrderlyEnd is about changes, but for the end of the loop or the worker.
LEMMA OrderlyKept ==
    ASSUME OrderlyEnd, UNCHANGED <<lines, partial, conn, taken>>,
           ppc' = ppc \/ conn = "reset" \/ (ppc # "select" /\ ppc' = "ub"),
           received' = received \/ ppc' # "ended"
    PROVE  OrderlyEnd'
BY DEF OrderlyEnd, LastTaken, Sent, Complete, WithKinds, Promised!Replies

\* No request that came before the end of the stream is left unread (getRawMessage) and no
\* response unsent (flushBufferBlock), however the pieces came and whatever the socket took:
\* what EofTakesAll says of the end of the loop, without fairness.
THEOREM EndIsOrderly == Spec => []OrderlyEnd
<1>1. Init => OrderlyEnd  BY DEF Init, OrderlyEnd
<1>2. IInv /\ OrderlyEnd /\ [Next]_vars => OrderlyEnd'
  <2> SUFFICES ASSUME IInv, OrderlyEnd, [Next]_vars PROVE OrderlyEnd'  OBVIOUS
  <2>1. ASSUME NEW k \in LineKinds, SendBody(k) PROVE OrderlyEnd'
    <3>1. /\ conn = "open" /\ conn' = "open" /\ lines' = Append(lines, k)
          /\ UNCHANGED <<taken, received, ppc>>
      BY <2>1 DEF SendBody, outVars
    <3>2. LastTaken => LastTaken'  BY <3>1, LastStays
    <3>3. WithKinds(taken)' = WithKinds(taken)  BY <3>1, KindsKept
    <3> QED  BY <3>1, <3>2, <3>3 DEF OrderlyEnd, Promised!Replies
  <2>2. CASE SendNewline \/ Close
    <3>1. conn = "open" /\ UNCHANGED <<lines, taken, received, ppc>>
      BY <2>2 DEF SendNewline, Close, inVars, outVars
    <3> QED  BY <3>1 DEF OrderlyEnd, LastTaken, WithKinds, Promised!Replies
  <2>3. CASE Reset  BY <2>3 DEF Reset, OrderlyEnd
  <2>4. CASE TakeLine
    <3>1. PICK b \in Nat : InOrder(b)  BY DEF IInv, Stream
    <3>2. PICK n \in (b + 1)..Complete :
             /\ n = AtHand[FirstFull(AtHand)][1][1] /\ n \in 1..Len(lines)
             /\ lines[n] # "empty" /\ taken' = Append(taken, n)
      BY <2>4, <3>1, TakeFacts
    <3>3. lines' = lines /\ ppc' = IF lines[n] = "request" THEN "select" ELSE "flush"
      BY <2>4, <3>2 DEF TakeLine, harnessVars
    <3>4. lines[n] \in LineKinds /\ taken \in Seq(Nat)
      BY <3>2, ElementOfSeq DEF IInv, TypeOK
    <3>5. lines[n] # "request" => LastTaken'
      <4>1. n \in Nat  BY <3>2
      <4>2. Len(taken') \in DOMAIN taken' /\ taken'[Len(taken')] = n
        BY <3>2, <3>4, <4>1, AppendProperties
      <4>3. lines[n] # "request" => lines[n] \in {"invalid", "close"}
        BY <3>2, <3>4, IOProtoAssumption
      <4> QED  BY <3>3, <4>2, <4>3 DEF LastTaken
    <3> QED  BY <3>3, <3>5 DEF OrderlyEnd
  <2>5. CASE NoLine
    <3>1. conn' = conn /\ ppc' = IF conn = "open" THEN "select" ELSE "flush"
      BY <2>5 DEF NoLine, harnessVars
    <3>2. conn \in {"open", "eof", "reset"}  BY DEF IInv, TypeOK
    <3> QED  BY <2>5, <3>1, <3>2, NoLineTakesAll DEF OrderlyEnd
  <2>6. CASE FlushBuffer
    <3>1. ppc = "select" /\ ppc' = ppc /\ UNCHANGED <<lines, partial, conn, taken>>
      BY <2>6 DEF FlushBuffer, harnessVars, inVars
    <3> QED  BY <3>1, OrderlyKept
  <2>7. CASE FlushFails \/ FlushClosed
    <3>1. /\ UNCHANGED <<lines, partial, conn, taken, received>>
          /\ conn = "reset" \/ (ppc = "flush" /\ ppc' = "ub")
      BY <2>7 DEF FlushFails, FlushClosed, harnessVars, inVars, outVars
    <3> QED  BY <3>1, OrderlyKept
  <2>8. CASE FlushBufferBlock
    <3>1. /\ ppc = "flush" /\ UNCHANGED <<lines, partial, conn, taken>>
          /\ ppc' = ppc \/ (conn = "reset" /\ UNCHANGED received)
      BY <2>8 DEF FlushBufferBlock, harnessVars, inVars, outVars
    <3> QED  BY <3>1, OrderlyKept
  <2>9. CASE Flushed
    <3>1. received = Promised!Replies(WithKinds(taken))
      <4>1. received \in Seq(Part) /\ outbuf = <<>>  BY <2>9 DEF Flushed, IInv, TypeOK
      <4>2. received \o outbuf = received  BY <4>1, ConcatEmptySeq
      <4> QED  BY <4>2 DEF IInv, Responses
    <3>2. ppc = "flush" /\ UNCHANGED <<lines, partial, conn, taken, received>>
      BY <2>9 DEF Flushed, harnessVars, inVars, outVars
    <3> QED
      BY <3>1, <3>2 DEF OrderlyEnd, LastTaken, Sent, Complete, WithKinds, Promised!Replies
  <2>10. CASE UNCHANGED vars
    <3>1. received' = received /\ ppc' = ppc /\ UNCHANGED <<lines, partial, conn, taken>>
      BY <2>10 DEF vars, harnessVars, inVars, outVars
    <3> QED  BY <3>1, OrderlyKept
  <2> QED
    BY <2>1, <2>2, <2>3, <2>4, <2>5, <2>6, <2>7, <2>8, <2>9, <2>10
    DEF Next, Harness, Reading, Writing
<1> QED  BY <1>1, <1>2, LinesInOrder, PTL DEF Spec

-----------------------------------------------------------------------------
(* The connection does what Connection promises *)

\* The complete lines are some of those sent.
LEMMA SentFacts ==
    ASSUME TypeOK
    PROVE  /\ Sent \in Seq(Nat)
           /\ \A i \in DOMAIN Sent : Sent[i] \in 1..Len(lines)
<1>1. Complete \in 0..Len(lines) /\ Len(lines) \in Nat  BY CompleteFacts
<1>2. Sent \in Seq(Nat)  BY <1>1, FullEquation DEF TypeOK, Sent
<1>3. \A i \in DOMAIN Sent : Sent[i] \in 1..Complete
  BY <1>1, FullElements DEF TypeOK, Sent
<1>4. \A i \in DOMAIN Sent : Sent[i] \in 1..Len(lines)  BY <1>1, <1>3
<1> QED  BY <1>2, <1>4

\* A step that leaves the lines, what was taken and what was received is none of Connection.
LEMMA Unheard ==
    ASSUME UNCHANGED <<lines, partial, taken, received>>
    PROVE  UNCHANGED Promised!vars
BY DEF Promised!vars, WithKinds, Sent, Complete

\* A line that is not complete is no request.
LEMMA SendBodyRefines ==
    ASSUME IInv, NEW k \in LineKinds, SendBody(k)
    PROVE  UNCHANGED Promised!vars
<1>1. /\ partial = FALSE /\ lines' = Append(lines, k) /\ partial' = TRUE
      /\ UNCHANGED <<taken, received>>
  BY DEF SendBody, outVars, IInv, TypeOK
<1>2. /\ \A n \in 1..Len(lines) : lines'[n] = lines[n]
      /\ WithKinds(taken)' = WithKinds(taken) /\ Len(lines') = Len(lines) + 1
      /\ \A n \in 0..Len(lines) : Full(lines')[n] = Full(lines)[n]
  BY <1>1, KindsKept
<1>3. Len(lines) \in Nat  BY CompleteFacts DEF IInv
<1>4. Complete = Len(lines) /\ Complete' = Len(lines)  BY <1>1, <1>2, <1>3 DEF Complete
<1>5. Sent' = Sent  BY <1>2, <1>3, <1>4 DEF Sent
<1>6. \A i \in DOMAIN Sent : lines'[Sent[i]] = lines[Sent[i]]  BY <1>2, SentFacts DEF IInv
<1>7. WithKinds(Sent)' = WithKinds(Sent)  BY <1>5, <1>6 DEF WithKinds
<1> QED  BY <1>1, <1>2, <1>7 DEF Promised!vars

\* A line that is complete and not empty is a request.
LEMMA SendNewlineRefines ==
    ASSUME IInv, SendNewline
    PROVE  [Promised!Next]_Promised!vars
<1>1. /\ partial = TRUE /\ partial' = FALSE /\ UNCHANGED <<lines, taken, received>>
  BY DEF SendNewline, outVars, IInv, TypeOK
<1>2. PICK n \in Nat : n = Len(lines)  BY CompleteFacts DEF IInv
<1>3. Complete' = n /\ Complete = n - 1 /\ n \in 1..Len(lines) /\ n - 1 \in Nat
  BY <1>1, <1>2, CompleteFacts DEF Complete, IInv
<1>4. lines \in Seq(LineKinds) /\ TypeOK  BY DEF IInv, TypeOK
<1>5. Sent' = Full(lines)[n]  BY <1>1, <1>3 DEF Sent
<1>6. Sent' = IF lines[n] = "empty" THEN Sent ELSE Append(Sent, n)
  BY <1>3, <1>4, <1>5, FullEquation DEF Sent
<1>7. WithKinds(taken)' = WithKinds(taken) /\ WithKinds(Sent)' = WithKinds(Sent')
  BY <1>1 DEF WithKinds
<1>8. CASE lines[n] = "empty"
  <2>1. UNCHANGED Promised!vars  BY <1>1, <1>6, <1>7, <1>8 DEF Promised!vars
  <2> QED  BY <2>1
<1>9. CASE lines[n] # "empty"
  <2>1. /\ WithKinds(Sent) \in Seq(Request) /\ <<n, lines[n]>> \in Request
        /\ WithKinds(Sent)' = Append(WithKinds(Sent), <<n, lines[n]>>)
    BY <1>3, <1>4, <1>6, <1>7, <1>9, SentFacts, WithKindsAppend
  <2>2. PICK s : s = WithKinds(Sent)  OBVIOUS
  <2>3. PICK r : r = <<n, lines[n]>>  OBVIOUS
  <2>4. s \in Seq(Request) /\ r \in Request  BY <2>1, <2>2, <2>3
  <2>5. Len(Append(s, r)) = Len(s) + 1  BY <2>4, AppendProperties
  <2>6. Append(s, r) = s \o <<r>> /\ <<r>> \in Seq(Request)  BY <2>4, AppendIsConcat
  <2>7. Promised!IsPrefix(s, Append(s, r))  BY <2>4, <2>6, ConcatIsPrefix
  <2>8. Promised!Ask  BY <1>1, <1>7, <2>1, <2>2, <2>3, <2>5, <2>7 DEF Promised!Ask
  <2> QED  BY <2>8 DEF Promised!Next
<1> QED  BY <1>8, <1>9

\* The request taken is the first that was sent and not served, and none before it was to
\* end the connection.
LEMMA TakeLineRefines ==
    ASSUME IInv, TakeLine
    PROVE  Promised!Next
<1>1. PICK b \in Nat : InOrder(b)  BY DEF IInv, Stream
<1>2. PICK n \in (b + 1)..Complete :
         /\ n \in 1..Len(lines) /\ Full(lines)[n] = Append(taken, n)
         /\ taken' = Append(taken, n)
  BY <1>1, TakeFacts
<1>3. ppc = "select" /\ UNCHANGED <<lines, partial, received>>
  BY DEF TakeLine, harnessVars
<1>4. TypeOK /\ lines \in Seq(LineKinds) /\ taken \in Seq(Nat)  BY DEF IInv, TypeOK
<1>5. PICK c \in Nat : c = Complete /\ c <= Len(lines) /\ Len(lines) \in Nat
  BY <1>4, CompleteFacts
<1>6. PICK m \in Nat : m = Len(taken)  BY <1>4
<1>7. DOMAIN taken = 1..m  BY <1>4, <1>6, LenProperties
<1>8. n \in Nat /\ c - n \in Nat /\ n + (c - n) = c  BY <1>1, <1>2, <1>5
<1>9. PICK t : t = Append(taken, n)  OBVIOUS
<1>10. Len(t) = m + 1 /\ t[m + 1] = n  BY <1>4, <1>6, <1>8, <1>9, AppendProperties
<1>11. Len(t) <= Len(Sent) /\ \A i \in 1..Len(t) : Sent[i] = t[i]
  <2>1. n + (c - n) <= Len(lines)  BY <1>5, <1>8
  <2>2. /\ Len(Full(lines)[n]) <= Len(Full(lines)[n + (c - n)])
        /\ \A i \in 1..Len(Full(lines)[n]) : Full(lines)[n + (c - n)][i] = Full(lines)[n][i]
    BY <1>4, <1>8, <2>1, FullGrows
  <2>3. Full(lines)[n] = t /\ Full(lines)[n + (c - n)] = Sent
    BY <1>2, <1>5, <1>8, <1>9 DEF Sent
  <2> QED  BY <2>2, <2>3
<1>12. PICK l \in Nat : l = Len(Sent)  BY <1>4, SentFacts
<1>13. m + 1 <= l /\ Sent[m + 1] = n /\ m + 1 \in 1..l  BY <1>10, <1>11, <1>12
<1>14. DOMAIN Sent = 1..l /\ Len(WithKinds(Sent)) = l
  <2>1. DOMAIN Sent = 1..l  BY <1>4, <1>12, SentFacts, LenProperties
  <2>2. Len(WithKinds(Sent)) = Len(Sent)  BY <1>2, <1>4, SentFacts, WithKindsAppend
  <2> QED  BY <1>12, <2>1, <2>2
<1>15. WithKinds(Sent)[m + 1] = <<n, lines[n]>>
  BY <1>13, <1>14 DEF WithKinds
<1>16. /\ Len(WithKinds(taken)) = m
       /\ WithKinds(taken)' = Append(WithKinds(taken), <<n, lines[n]>>)
  <2>1. WithKinds(taken)' = WithKinds(taken')  BY <1>3 DEF WithKinds
  <2>2. \A i \in DOMAIN taken : taken[i] \in 1..Len(lines)  BY <1>1, <1>4, TakenSent
  <2> QED  BY <1>2, <1>4, <1>6, <2>1, <2>2, WithKindsAppend
<1>17. WithKinds(taken) # <<>> => ~EndsLoop(WithKinds(taken)[m])
  <2> SUFFICES ASSUME WithKinds(taken) # <<>> PROVE ~EndsLoop(WithKinds(taken)[m])  OBVIOUS
  <2>1. m # 0
    <3>1. m = 0 => WithKinds(taken) = <<>>  BY <1>7 DEF WithKinds
    <3> QED  BY <3>1
  <2>2. m \in DOMAIN taken  BY <1>7, <2>1
  <2>3. lines[taken[m]] = "request"  BY <1>3, <2>2 DEF IInv, StillRequests
  <2>4. WithKinds(taken)[m] = <<taken[m], lines[taken[m]]>>  BY <2>2 DEF WithKinds
  <2> QED  BY <2>3, <2>4 DEF EndsLoop
<1>18. WithKinds(Sent)' = WithKinds(Sent)  BY <1>3 DEF WithKinds, Sent, Complete
<1>19. Promised!Serve
  <2>1. m < l  BY <1>13
  <2> QED  BY <1>3, <1>14, <1>15, <1>16, <1>17, <1>18, <2>1 DEF Promised!Serve
<1> QED  BY <1>19 DEF Promised!Next

\* What the socket took goes on with the responses.
LEMMA SendRefines ==
    ASSUME IInv, NEW k \in 1..Len(outbuf), Send(k), UNCHANGED <<harnessVars, inVars>>
    PROVE  Promised!Next
<1>1. /\ received' = received \o SubSeq(outbuf, 1, k)
      /\ outbuf' = SubSeq(outbuf, k + 1, Len(outbuf))
  BY DEF Send
<1>2. received \in Seq(Part) /\ outbuf \in Seq(Part)  BY DEF IInv, TypeOK
<1>3. /\ received' \in Seq(Part) /\ outbuf' \in Seq(Part)
      /\ received' \o outbuf' = received \o outbuf
      /\ received' # received /\ Promised!IsPrefix(received, received')
  BY <1>1, <1>2, SendKeeps
<1>4. PICK r : r = received'  OBVIOUS
<1>5. PICK o : o = outbuf'  OBVIOUS
<1>6. Promised!IsPrefix(r, r \o o)  BY <1>3, <1>4, <1>5, ConcatIsPrefix
<1>7. Promised!IsPrefix(received', Promised!Replies(WithKinds(taken)))
  <2>1. r \o o = Promised!Replies(WithKinds(taken))
    BY <1>3, <1>4, <1>5 DEF IInv, Responses
  <2> QED  BY <1>4, <1>6, <2>1
<1>8. WithKinds(taken)' = WithKinds(taken) /\ WithKinds(Sent)' = WithKinds(Sent)
  BY DEF WithKinds, Sent, Complete, harnessVars, inVars
<1>9. Promised!Hear  BY <1>3, <1>7, <1>8 DEF Promised!Hear
<1> QED  BY <1>9 DEF Promised!Next

\* Every step is one of Connection, or none.
LEMMA StepRefines ==
    ASSUME IInv, [Next]_vars
    PROVE  [Promised!Next]_Promised!vars
<1>1. CASE \E k \in LineKinds : SendBody(k)  BY <1>1, SendBodyRefines
<1>2. CASE SendNewline  BY <1>2, SendNewlineRefines
<1>3. CASE Close  BY <1>3, Unheard DEF Close, inVars, outVars
<1>4. CASE Reset  BY <1>4, Unheard DEF Reset, outVars
<1>5. CASE TakeLine  BY <1>5, TakeLineRefines
<1>6. CASE NoLine  BY <1>6, Unheard DEF NoLine, harnessVars, outVars
<1>7. CASE \E k \in 1..Len(outbuf) : Send(k) /\ UNCHANGED <<harnessVars, inVars>>
  BY <1>7, SendRefines
<1>8. CASE UNCHANGED <<harnessVars, inVars, outVars>>
  BY <1>8, Unheard DEF harnessVars, inVars, outVars
<1>9. CASE Writing
  <2>1. CASE FlushBuffer  BY <1>7, <2>1 DEF FlushBuffer
  <2>2. CASE FlushFails  BY <1>8, <2>2 DEF FlushFails
  <2>3. CASE FlushBufferBlock  BY <1>7, <1>8, <2>3 DEF FlushBufferBlock
  <2>4. CASE FlushClosed  BY <1>8, <2>4 DEF FlushClosed
  <2>5. CASE Flushed  BY <1>8, <2>5 DEF Flushed
  <2> QED  BY <1>9, <2>1, <2>2, <2>3, <2>4, <2>5 DEF Writing
<1>10. CASE UNCHANGED vars  BY <1>8, <1>10 DEF vars
<1> QED
  BY <1>1, <1>2, <1>3, <1>4, <1>5, <1>6, <1>9, <1>10 DEF Next, Harness, Reading

\* However the network cuts and joins the lines (readSocket), however many are at hand
\* (getRawMessage) and however little the socket takes (flushBuffer, flushBufferBlock),
\* requests are served once and in order, none after the one that ends the connection, and
\* what the harness has received is a prefix of their responses.
THEOREM ConnectionKept == Spec => RequestsServed
<1>1. Init => Promised!Init
  <2> SUFFICES ASSUME Init PROVE Promised!Init  OBVIOUS
  <2>1. lines \in Seq(LineKinds) /\ Complete = 0
    BY EmptySeq DEF Init, Complete
  <2>2. Sent = <<>>  BY <2>1, FullEquation DEF Sent
  <2> QED  BY <2>2 DEF Init, Promised!Init, WithKinds
<1>2. IInv /\ [Next]_vars => [Promised!Next]_Promised!vars  BY StepRefines
<1> QED  BY <1>1, <1>2, LinesInOrder, PTL DEF Spec, RequestsServed, Promised!Spec

=============================================================================
