-------------------------- MODULE HandleOps_proofs --------------------------
(***************************************************************************)
(* Proofs about HandleOps, for every window, dataset and batch size:       *)
(* rs.remaining counts what is outstanding, no window is exceeded, nothing *)
(* is left in flight by an operation, a response counts exactly the        *)
(* outcomes of its requests, and HandleOps implements Awaited and the      *)
(* safety part of OpLoop.                                                  *)
(*                                                                         *)
(* What makes the properties inductive (Flow): at the head of the loop no  *)
(* future has been taken, and the batch begun so far is short of its limit *)
(* (a loader's by the residue of jj).  For the figures of the response     *)
(* (Balance): every request is in flight, completed but not taken from its *)
(* vector, or reported.                                                    *)
(***************************************************************************)
EXTENDS HandleOps, FiniteSetTheorems, TLAPS

\* Nothing is in flight when an operation is answered: neither the next one nor the
\* deletion of the handle meets a future of it.
NothingLeft == pc \in {"idle", "respond"} => pending = <<>> /\ taken = 0

Flow ==
    /\ NothingLeft
    /\ pc = "loop" => taken = 0
    /\ pc = "loop" /\ req.kind \in Counting /\ req.iterwait > 0 => Len(pending) < req.iterwait
    /\ pc = "loop" /\ req.kind \in Querying \cup {"view_load"} => pending = <<>>
    /\ pc = "loop" /\ req.kind = "load" => Len(pending) = (IF jj = 0 THEN 0 ELSE (jj - 1) % BatchSize)
    /\ pc = "drain" /\ req.kind = "load" => jj > 0 /\ (jj - 1) % BatchSize = 0

IInv == TypeOK /\ RemainingCounts /\ WindowBounded /\ Flow

-----------------------------------------------------------------------------
(* The batches of a loader end where jj % BatchSize = 0. *)

\* What % and \div give for the batch size.
LEMMA Div ==
    \A a \in Nat : /\ a % BatchSize \in 0..(BatchSize-1) /\ a \div BatchSize \in Nat
                  /\ a = BatchSize * (a \div BatchSize) + (a % BatchSize)
  BY HandleOpsAssumption

\* Multiples of the batch size are at least a batch apart.
LEMMA Mono == \A q, p \in Int : q < p => BatchSize * q + BatchSize <= BatchSize * p
<1>. SUFFICES ASSUME NEW q \in Int, NEW p \in Int, q < p PROVE BatchSize * q + BatchSize <= BatchSize * p
  OBVIOUS
<1>1. PICK d \in Nat : p = q + 1 + d
  <2>1. p - q - 1 \in Nat /\ p = q + 1 + (p - q - 1)
    OBVIOUS
  <2>. QED BY <2>1
<1>2. BatchSize * p = BatchSize * q + BatchSize + BatchSize * d
  BY <1>1, HandleOpsAssumption
<1>3. BatchSize * d >= 0
  BY <1>1, HandleOpsAssumption
<1>4. BatchSize * p \in Int /\ BatchSize * q \in Int /\ BatchSize * d \in Int
  BY <1>1, HandleOpsAssumption
<1>. QED BY <1>2, <1>3, <1>4, HandleOpsAssumption

\* Quotient and remainder are unique.
LEMMA Uniq ==
    ASSUME NEW q \in Int, NEW p \in Int, NEW r \in 0..(BatchSize-1), NEW s \in 0..(BatchSize-1),
           BatchSize*q + r = BatchSize*p + s
    PROVE  r = s
<1>1. BatchSize*q \in Int /\ BatchSize*p \in Int
  BY HandleOpsAssumption
<1>2. CASE q < p
  BY <1>1, <1>2, Mono, HandleOpsAssumption
<1>3. CASE p < q
  BY <1>1, <1>3, Mono, HandleOpsAssumption
<1>4. CASE p = q
  BY <1>1, <1>4, HandleOpsAssumption
<1>. QED BY <1>2, <1>3, <1>4

\* The residue of the next item of a batch.
LEMMA NextResidue ==
    ASSUME NEW n \in Nat
    PROVE  (n + 1) % BatchSize = IF n % BatchSize = BatchSize - 1 THEN 0 ELSE (n % BatchSize) + 1
<1>. DEFINE q == n \div BatchSize
            r == n % BatchSize
<1>1. r \in 0..(BatchSize-1) /\ q \in Nat /\ n = BatchSize * q + r /\ BatchSize * q \in Nat
  BY Div, HandleOpsAssumption
<1>2. /\ (n + 1) % BatchSize \in 0..(BatchSize-1) /\ (n + 1) \div BatchSize \in Nat
      /\ n + 1 = BatchSize * ((n + 1) \div BatchSize) + ((n + 1) % BatchSize)
  BY Div
<1>. HIDE DEF q, r
<1>3. CASE r = BatchSize - 1
  <2>1. BatchSize * (q + 1) = BatchSize * q + BatchSize
    BY <1>1, HandleOpsAssumption
  <2>2. n + 1 = BatchSize * (q + 1) + 0
    BY <1>1, <1>3, <2>1, HandleOpsAssumption
  <2>3. (n + 1) % BatchSize = 0
    BY <1>1, <1>2, <2>2, Uniq, HandleOpsAssumption
  <2>. QED BY <2>3, <1>3 DEF r
<1>4. CASE r # BatchSize - 1
  <2>1. r + 1 \in 0..(BatchSize-1)
    BY <1>1, <1>4, HandleOpsAssumption
  <2>2. n + 1 = BatchSize * q + (r + 1)
    BY <1>1
  <2>3. (n + 1) % BatchSize = r + 1
    BY <1>1, <1>2, <2>1, <2>2, Uniq, HandleOpsAssumption
  <2>. QED BY <2>3, <1>4 DEF r
<1>. QED BY <1>3, <1>4

\* The first item of a dataset ends a batch of one.
LEMMA ZeroResidue == 0 % BatchSize = 0
<1>1. 0 % BatchSize \in 0..(BatchSize - 1) /\ 0 = BatchSize * (0 \div BatchSize) + (0 % BatchSize)
  BY Div
<1>2. 0 \div BatchSize \in Nat /\ 0 = BatchSize * 0 + 0
  BY Div, HandleOpsAssumption
<1>. QED
  BY <1>1, <1>2, Uniq, HandleOpsAssumption

-----------------------------------------------------------------------------
(* The inductive invariant *)

\* An idle handle satisfies the invariant.
LEMMA InvInit == Init => IInv
<1>. SUFFICES ASSUME Init PROVE IInv
  OBVIOUS
<1>1. pending = <<>> /\ Len(pending) = 0 /\ pending \in Seq({"inflight", "ok", "err"})
  BY DEF Init
<1>2. TypeOK
  <2>1. req \in [kind : Kinds, iterwait : Nat, count : Nat,
                 continuous : BOOLEAN, seeded : BOOLEAN]
    BY DEF Init, NoRequest, Kinds
  <2>2. stats \in [ok : Nat, err : Nat] /\ completed \in [ok : Nat, err : Nat]
    BY DEF Init, NoStats
  <2>3. values \in 0..BatchSize
    BY HandleOpsAssumption DEF Init
  <2>4. taken \in 0..Len(pending)
    BY <1>1 DEF Init
  <2>5. failed \in BOOLEAN /\ do_cancel \in BOOLEAN
    BY DEF Init
  <2>6. pc = "idle" /\ left = 0 /\ jj = 0 /\ remaining = 0 /\ issued = 0
    BY DEF Init
  <2>. QED BY <1>1, <2>1, <2>2, <2>3, <2>4, <2>5, <2>6 DEF TypeOK
<1>3. RemainingCounts /\ WindowBounded /\ Flow
  BY <1>1 DEF Init, RemainingCounts, WindowBounded, Flow, NothingLeft, Outstanding, NoRequest,
     Counting, Querying
<1>. QED BY <1>2, <1>3 DEF IInv

\* An item is taken only while the iterator has one.
LEMMA MoreType == TypeOK /\ More => left' \in Nat
  BY DEF TypeOK, More, Finished

\* A decoded request has the type of one.
LEMMA RequestType ==
    \A r \in Requests : r \in [kind : Kinds, iterwait : Nat, count : Nat,
                               continuous : BOOLEAN, seeded : BOOLEAN] /\ Turns(r) \in Nat
  BY HandleOpsAssumption DEF Requests, Turns

\* No step leaves the types; FlushValues needs Flow: its vector is new, and taken is 0.
LEMMA TypeStep == TypeOK /\ Flow /\ [Next]_vars => TypeOK'
<1>. SUFFICES ASSUME TypeOK, Flow, [Next]_vars PROVE TypeOK'
  OBVIOUS
<1>. USE HandleOpsAssumption DEF TypeOK, opVars, futureVars, resultVars, histVars
<1>1. CASE Item
  BY <1>1, MoreType DEF Item, More, Submit
<1>2. CASE UnknownItem
  BY <1>2, MoreType DEF UnknownItem, More
<1>3. CASE LoadItem
  BY <1>3, MoreType DEF LoadItem, LoadBatchFull, More, Submit
<1>4. CASE StoreValue
  <2>1. values' \in 0..BatchSize
    BY <1>4 DEF StoreValue
  <2>. QED BY <2>1, <1>4, MoreType DEF StoreValue, More
<1>5. CASE FlushValues
  <2>1. pending' \in Seq({"inflight", "ok", "err"}) /\ Len(pending') = values
    BY <1>5 DEF FlushValues
  <2>2. taken' \in 0..Len(pending')
    BY <2>1, <1>5 DEF FlushValues, Flow
  <2>. QED BY <2>1, <2>2, <1>5 DEF FlushValues
<1>6. CASE Query
  BY <1>6, MoreType DEF Query, More, Submit
<1>7. CASE Take
  <2>1. pending[taken + 1] \in {"ok", "err"} /\ taken' \in 0..Len(pending')
    BY <1>7 DEF Take, SpoilsBatch
  <2>2. stats' \in [ok : Nat, err : Nat] /\ remaining' \in Int
    BY <1>7, <2>1 DEF Take, SpoilsBatch
  <2>3. failed' \in BOOLEAN
    BY <1>7 DEF Take, SpoilsBatch
  <2>. QED BY <2>1, <2>2, <2>3, <1>7 DEF Take, SpoilsBatch
<1>8. CASE BatchDone
  BY <1>8 DEF BatchDone
<1>9. CASE Collect
  BY <1>9 DEF Collect
<1>10. CASE Respond
  BY <1>10 DEF Respond
<1>11. CASE CancelCurrent
  BY <1>11 DEF CancelCurrent
<1>12. ASSUME NEW r \in Requests, Begin(r) PROVE TypeOK'
  <2>1. /\ req' \in [kind : Kinds, iterwait : Nat, count : Nat,
                     continuous : BOOLEAN, seeded : BOOLEAN]
        /\ left' \in Nat
    BY <1>12, RequestType DEF Begin
  <2>2. do_cancel' \in BOOLEAN
    BY <1>12 DEF Begin
  <2>3. stats' \in [ok : Nat, err : Nat] /\ completed' \in [ok : Nat, err : Nat]
    BY <1>12 DEF Begin, NoStats
  <2>4. values' \in 0..BatchSize /\ jj' \in Nat /\ remaining' \in Int /\ issued' \in Nat
    BY <1>12 DEF Begin
  <2>5. /\ pending' \in Seq({"inflight", "ok", "err"}) /\ taken' \in 0..Len(pending')
        /\ failed' \in BOOLEAN /\ pc' = "loop"
    BY <1>12 DEF Begin
  <2>. QED BY <2>1, <2>2, <2>3, <2>4, <2>5
<1>13. ASSUME NEW r \in Requests, NamelessView(r) PROVE TypeOK'
  <2>1. req' \in [kind : Kinds, iterwait : Nat, count : Nat,
                  continuous : BOOLEAN, seeded : BOOLEAN]
    BY <1>13, RequestType DEF NamelessView
  <2>2. stats' \in [ok : Nat, err : Nat] /\ completed' \in [ok : Nat, err : Nat]
    BY <1>13 DEF NamelessView, NoStats
  <2>3. values' \in 0..BatchSize /\ jj' \in Nat /\ remaining' \in Int /\ issued' \in Nat
    BY <1>13 DEF NamelessView
  <2>4. /\ pending' \in Seq({"inflight", "ok", "err"}) /\ taken' \in 0..Len(pending')
        /\ failed' \in BOOLEAN /\ pc' = "respond" /\ left' \in Nat /\ do_cancel' \in BOOLEAN
    BY <1>13 DEF NamelessView
  <2>. QED BY <2>1, <2>2, <2>3, <2>4
<1>14. ASSUME NEW i \in DOMAIN pending, NEW outcome \in {"ok", "err"}, Complete(i, outcome)
       PROVE  TypeOK'
  <2>0. pending' = [pending EXCEPT ![i] = outcome] /\ pending \in Seq({"inflight", "ok", "err"})
    BY <1>14 DEF Complete
  <2>1. pending' \in Seq({"inflight", "ok", "err"}) /\ Len(pending') = Len(pending)
    BY <2>0
  <2>2. completed' \in [ok : Nat, err : Nat]
    <3>0. completed \in [ok : Nat, err : Nat] /\ completed' = [completed EXCEPT ![outcome] = @ + 1]
      BY <1>14 DEF Complete
    <3>1. CASE outcome = "ok"
      BY <3>0, <3>1
    <3>2. CASE outcome = "err"
      BY <3>0, <3>2
    <3>. QED BY <3>1, <3>2
  <2>. QED BY <2>1, <2>2, <1>14 DEF Complete
<1>15. CASE UNCHANGED vars
  BY <1>15 DEF vars
<1>. QED
  BY <1>1, <1>2, <1>3, <1>4, <1>5, <1>6, <1>7, <1>8, <1>9, <1>10, <1>11, <1>12, <1>13, <1>14, <1>15
  DEF Next, Worker, Library

\* A step of the library changes no length.
LEMMA CompleteLen ==
    ASSUME TypeOK, NEW i \in DOMAIN pending, NEW outcome \in {"ok", "err"}, Complete(i, outcome)
    PROVE  /\ Len(pending') = Len(pending) /\ pending # <<>> /\ pending' # <<>>
           /\ UNCHANGED <<pc, opVars, taken, resultVars>>
  BY DEF Complete, TypeOK

\* A request is added at the end.
LEMMA SubmitLen == TypeOK /\ Submit => Len(pending') = Len(pending) + 1
  BY DEF TypeOK, Submit

\* The view loader sends what it put aside, a batch at most.
LEMMA FlushLen == TypeOK /\ FlushValues => Len(pending') = values /\ values \in 1..BatchSize
  BY HandleOpsAssumption DEF TypeOK, FlushValues

\* pending_futures is empty when its length is 0.
LEMMA EmptyLen == TypeOK => (pending = <<>> <=> Len(pending) = 0)
  BY DEF TypeOK

\* What goes out is counted in rs.remaining, what is taken is counted off.
LEMMA CountStep == IInv /\ [Next]_vars => RemainingCounts'
<1>. SUFFICES ASSUME IInv, [Next]_vars PROVE RemainingCounts'
  OBVIOUS
<1>. USE DEF IInv, RemainingCounts, Outstanding, opVars, futureVars, resultVars, histVars
<1>0. Len(pending) \in Nat /\ taken \in 0..Len(pending) /\ remaining \in Int /\ TypeOK
  BY DEF TypeOK
<1>1. CASE Item
  BY <1>0, <1>1, SubmitLen DEF Item
<1>2. CASE UnknownItem
  BY <1>0, <1>2 DEF UnknownItem
<1>3. CASE LoadItem
  BY <1>3 DEF LoadItem
<1>4. CASE StoreValue
  BY <1>4 DEF StoreValue
<1>5. CASE FlushValues
  BY <1>5 DEF FlushValues
<1>6. CASE Query
  BY <1>6 DEF Query, Querying
<1>7. CASE Take
  BY <1>0, <1>7 DEF Take, Counting
<1>8. CASE BatchDone
  BY <1>0, <1>8 DEF BatchDone
<1>9. CASE Collect
  BY <1>9 DEF Collect
<1>10. CASE Respond
  BY <1>10 DEF Respond
<1>11. CASE CancelCurrent
  BY <1>11 DEF CancelCurrent
<1>12. ASSUME NEW r \in Requests, Begin(r) PROVE RemainingCounts'
  BY <1>0, <1>12 DEF Begin, Flow, NothingLeft
<1>13. ASSUME NEW r \in Requests, NamelessView(r) PROVE RemainingCounts'
  BY <1>13 DEF NamelessView
<1>14. ASSUME NEW i \in DOMAIN pending, NEW outcome \in {"ok", "err"}, Complete(i, outcome)
       PROVE  RemainingCounts'
  BY <1>0, <1>14, CompleteLen
<1>15. CASE UNCHANGED vars
  BY <1>15 DEF vars
<1>. QED
  BY <1>1, <1>2, <1>3, <1>4, <1>5, <1>6, <1>7, <1>8, <1>9, <1>10, <1>11, <1>12, <1>13, <1>14, <1>15
  DEF Next, Worker, Library

\* At the head of the loop the batch is short of its limit, so one more fits.
LEMMA WindowStep == IInv /\ [Next]_vars => WindowBounded'
<1>. SUFFICES ASSUME IInv, [Next]_vars PROVE WindowBounded'
  OBVIOUS
<1>. USE DEF IInv, WindowBounded, opVars, futureVars, resultVars, histVars
<1>0. Len(pending) \in Nat /\ jj \in Nat /\ req.iterwait \in Nat /\ TypeOK
  BY DEF TypeOK
<1>1. CASE Item
  <2>1. pc = "loop" /\ Len(pending') = Len(pending) + 1 /\ req' = req /\ req.kind \in Counting
    BY <1>0, <1>1, SubmitLen DEF Item, More
  <2>. QED BY <1>0, <2>1 DEF Flow, Counting, Querying
<1>2. CASE UnknownItem
  BY <1>2 DEF UnknownItem
<1>3. CASE LoadItem
  <2>1. pc = "loop" /\ Len(pending') = Len(pending) + 1 /\ req' = req /\ req.kind = "load"
    BY <1>0, <1>3, SubmitLen DEF LoadItem, LoadBatchFull, More
  <2>2. Len(pending) \in 0..(BatchSize - 1)
    <3>1. CASE jj = 0
      BY <2>1, <3>1, HandleOpsAssumption DEF Flow
    <3>2. CASE jj # 0
      <4>1. jj - 1 \in Nat /\ Len(pending) = (jj - 1) % BatchSize
        BY <1>0, <2>1, <3>2 DEF Flow
      <4>. QED BY <4>1, Div
    <3>. QED BY <3>1, <3>2
  <2>. QED BY <2>1, <2>2, HandleOpsAssumption DEF Counting, Querying
<1>4. CASE StoreValue
  BY <1>4 DEF StoreValue
<1>5. CASE FlushValues
  <2>1. Len(pending') = values /\ values \in 1..BatchSize /\ req' = req /\ req.kind = "view_load"
    BY <1>0, <1>5, FlushLen DEF FlushValues
  <2>. QED BY <2>1, HandleOpsAssumption DEF Counting, Querying
<1>6. CASE Query
  <2>1. /\ Len(pending') = Len(pending) + 1 /\ Len(pending) = 0
        /\ req' = req /\ req.kind \in Querying
    BY <1>0, <1>6, SubmitLen DEF Query, More, Flow
  <2>. QED BY <2>1 DEF Counting, Querying
<1>7. CASE Take
  BY <1>7 DEF Take, SpoilsBatch
<1>8. CASE BatchDone
  <2>1. Len(pending') = 0 /\ req' = req
    BY <1>8 DEF BatchDone
  <2>. QED BY <1>0, <2>1, HandleOpsAssumption
<1>9. CASE Collect
  BY <1>9 DEF Collect
<1>10. CASE Respond
  BY <1>10 DEF Respond
<1>11. CASE CancelCurrent
  BY <1>11 DEF CancelCurrent
<1>12. ASSUME NEW r \in Requests, Begin(r) PROVE WindowBounded'
  <2>1. Len(pending') = 0
    BY <1>12 DEF Begin, Flow, NothingLeft
  <2>2. req'.iterwait \in Nat
    BY <1>12, RequestType DEF Begin
  <2>. QED BY <2>1, <2>2, HandleOpsAssumption
<1>13. ASSUME NEW r \in Requests, NamelessView(r) PROVE WindowBounded'
  <2>1. Len(pending') = 0
    BY <1>13 DEF NamelessView, Flow, NothingLeft
  <2>2. req'.iterwait \in Nat
    BY <1>13, RequestType DEF NamelessView
  <2>. QED BY <2>1, <2>2, HandleOpsAssumption
<1>14. ASSUME NEW i \in DOMAIN pending, NEW outcome \in {"ok", "err"}, Complete(i, outcome)
       PROVE  WindowBounded'
  BY <1>0, <1>14, CompleteLen
<1>15. CASE UNCHANGED vars
  BY <1>15 DEF vars
<1>. QED
  BY <1>1, <1>2, <1>3, <1>4, <1>5, <1>6, <1>7, <1>8, <1>9, <1>10, <1>11, <1>12, <1>13, <1>14, <1>15
  DEF Next, Worker, Library

\* The loops keep their batches: BatchFull and jj % BatchSize cut them in time.
LEMMA FlowStep == IInv /\ [Next]_vars => Flow'
<1>. SUFFICES ASSUME IInv, [Next]_vars PROVE Flow'
  OBVIOUS
<1>. USE DEF IInv, Flow, NothingLeft, opVars, futureVars, resultVars, histVars
<1>0. /\ Len(pending) \in Nat /\ jj \in Nat /\ req.iterwait \in Nat /\ TypeOK
      /\ remaining \in Int /\ taken \in 0..Len(pending)
  BY DEF TypeOK
<1>1. CASE Item
  <2>1. /\ pc = "loop" /\ pc' \in {"loop", "drain"} /\ Len(pending') = Len(pending) + 1
        /\ req' = req /\ taken' = 0 /\ req.kind \in Counting
    BY <1>0, <1>1, SubmitLen DEF Item, More
  <2>2. pc' = "loop" /\ req.iterwait > 0 => remaining + 1 < req.iterwait
    BY <1>0, <1>1, <2>1 DEF Item, BatchFull
  <2>3. remaining >= Len(pending)
    BY <1>0, <2>1 DEF RemainingCounts, Outstanding, Counting
  <2>. QED BY <1>0, <2>1, <2>2, <2>3 DEF Counting, Querying
<1>2. CASE UnknownItem
  BY <1>2 DEF UnknownItem, More, Counting, Querying
<1>3. CASE LoadItem
  <2>1. /\ pc = "loop" /\ pc' = (IF jj % BatchSize = 0 THEN "drain" ELSE "loop")
        /\ Len(pending') = Len(pending) + 1
        /\ req' = req /\ taken' = 0 /\ req.kind = "load" /\ jj' = jj + 1
    BY <1>0, <1>3, SubmitLen DEF LoadItem, LoadBatchFull, More
  <2>2. jj' > 0 /\ jj' - 1 = jj
    BY <1>0, <2>1
  <2>3. pc' = "drain" => (jj' - 1) % BatchSize = 0
    BY <2>1, <2>2
  <2>4. ASSUME pc' = "loop" PROVE Len(pending') = (jj' - 1) % BatchSize
    <3>1. jj % BatchSize # 0
      BY <2>1, <2>4
    <3>2. jj # 0
      BY <3>1, ZeroResidue
    <3>3. jj - 1 \in Nat /\ jj - 1 + 1 = jj /\ Len(pending) = (jj - 1) % BatchSize
      BY <1>0, <2>1, <3>2
    <3>4. (jj - 1 + 1) % BatchSize = IF (jj - 1) % BatchSize = BatchSize - 1
                                      THEN 0 ELSE ((jj - 1) % BatchSize) + 1
      BY <3>3, NextResidue
    <3>5. jj % BatchSize = Len(pending) + 1
      BY <3>1, <3>3, <3>4
    <3>. QED BY <2>1, <2>2, <3>5
  <2>. QED BY <2>1, <2>2, <2>3, <2>4 DEF Counting, Querying
<1>4. CASE StoreValue
  BY <1>4 DEF StoreValue, Counting, Querying
<1>5. CASE FlushValues
  BY <1>5 DEF FlushValues, Counting, Querying
<1>6. CASE Query
  BY <1>6 DEF Query, More, Counting, Querying
<1>7. CASE Take
  BY <1>7 DEF Take, Counting, Querying
<1>8. CASE BatchDone
  <2>1. /\ pending' = <<>> /\ Len(pending') = 0 /\ taken' = 0 /\ req' = req /\ jj' = jj
        /\ pc' \in {"loop", "respond"} /\ (pc' = "loop" => pc = "drain")
    BY <1>8 DEF BatchDone
  <2>. QED BY <1>0, <2>1
<1>9. CASE Collect
  <2>1. /\ pc = "loop" /\ taken = 0 /\ pending' = pending /\ taken' = taken
        /\ pc' = IF req.kind \in Counting /\ remaining = 0 THEN "respond" ELSE "collect"
    BY <1>9 DEF Collect
  <2>2. ASSUME pc' = "respond" PROVE pending = <<>>
    <3>1. req.kind \in Counting /\ remaining = 0
      BY <2>1, <2>2
    <3>2. Len(pending) = 0
      BY <1>0, <2>1, <3>1 DEF RemainingCounts, Outstanding, Counting
    <3>. QED BY <1>0, <3>2, EmptyLen
  <2>. QED BY <2>1, <2>2
<1>10. CASE Respond
  BY <1>10 DEF Respond
<1>11. CASE CancelCurrent
  BY <1>11 DEF CancelCurrent
<1>12. ASSUME NEW r \in Requests, Begin(r) PROVE Flow'
  <2>1. pending' = <<>> /\ Len(pending') = 0 /\ taken' = 0 /\ pc' = "loop" /\ jj' = 0
    BY <1>12 DEF Begin
  <2>2. req'.iterwait \in Nat
    BY <1>12, RequestType DEF Begin
  <2>. QED BY <2>1, <2>2
<1>13. ASSUME NEW r \in Requests, NamelessView(r) PROVE Flow'
  BY <1>13 DEF NamelessView
<1>14. ASSUME NEW i \in DOMAIN pending, NEW outcome \in {"ok", "err"}, Complete(i, outcome)
       PROVE  Flow'
  BY <1>0, <1>14, CompleteLen
<1>15. CASE UNCHANGED vars
  BY <1>15 DEF vars
<1>. QED
  BY <1>1, <1>2, <1>3, <1>4, <1>5, <1>6, <1>7, <1>8, <1>9, <1>10, <1>11, <1>12, <1>13, <1>14, <1>15
  DEF Next, Worker, Library

\* IInv holds of every behaviour, whatever the options, datasets and batch size.
THEOREM Invariance == Spec => []IInv
<1>1. IInv /\ [Next]_vars => IInv'
  BY TypeStep, CountStep, WindowStep, FlowStep DEF IInv
<1>. QED BY InvInit, <1>1, PTL DEF Spec

\* The variables keep their types, and drainPendingFutures stays in its vector.
THEOREM TypeCorrect == Spec => []TypeOK
BY Invariance, PTL DEF IInv

\* rs.remaining counts the requests not reported (postsubmit, drainPendingFutures).
THEOREM RemainingIsRight == Spec => []RemainingCounts
BY Invariance, PTL DEF IInv

\* No more requests are in flight than IterWait or the loader's batch allows.
THEOREM WindowHolds == Spec => []WindowBounded
BY Invariance, PTL DEF IInv

\* When an operation is answered none of its requests is in flight.
THEOREM AnsweredIsDone == Spec => []NothingLeft
<1>1. IInv => NothingLeft
  BY DEF IInv, Flow
<1>. QED BY Invariance, <1>1, PTL

-----------------------------------------------------------------------------
(* The response counts each outcome exactly. *)

\* The futures not taken yet that are in state o, and their number.
Waiting(o) == {i \in (taken + 1)..Len(pending) : pending[i] = o}
Weight(o) == Cardinality(Waiting(o))

\* A request is in flight, completed and not taken, or reported.
Balance ==
    /\ \A i \in 1..taken : pending[i] # "inflight"
    /\ issued = completed.ok + completed.err + Weight("inflight")
    /\ req.kind \in Counting \cup Querying =>
          /\ completed.ok = stats.ok + Weight("ok")
          /\ completed.err = stats.err + Weight("err")
    /\ req.kind = "view_load" =>
          /\ stats.ok = 0
          /\ completed.err = stats.err + Weight("err")

States == {"inflight", "ok", "err"}

\* The futures waiting are finitely many.
LEMMA WaitingFinite ==
    ASSUME TypeOK, NEW o \in States
    PROVE  IsFiniteSet(Waiting(o)) /\ Weight(o) \in Nat
<1>1. taken + 1 \in Int /\ Len(pending) \in Int
  BY DEF TypeOK
<1>2. IsFiniteSet((taken + 1)..Len(pending))
  BY <1>1, FS_Interval
<1>3. Waiting(o) \in SUBSET ((taken + 1)..Len(pending))
  BY DEF Waiting
<1>4. IsFiniteSet(Waiting(o))
  BY <1>2, <1>3, FS_Subset
<1>. QED BY <1>4, FS_CardinalityType DEF Weight

\* None waits once all are taken.
LEMMA NoneWaits ==
    ASSUME NEW o \in States, taken \in Nat, Len(pending) \in Nat, Len(pending) <= taken
    PROVE  Weight(o) = 0
<1>1. Waiting(o) = {}
  BY DEF Waiting
<1>. QED BY <1>1, FS_EmptySet DEF Weight

\* None waits in an emptied vector.
LEMMA NoneWaitsNext ==
    ASSUME NEW o \in States, taken' = 0, Len(pending') = 0
    PROVE  Weight(o)' = 0
<1>1. Waiting(o)' = {}
  BY DEF Waiting
<1>. QED BY <1>1, FS_EmptySet DEF Weight

\* Where the futures do not change, nor does their number.
LEMMA SameWeight ==
    ASSUME NEW o \in States, UNCHANGED futureVars
    PROVE  Weight(o)' = Weight(o)
  BY DEF Weight, Waiting, futureVars

\* A request that goes out is one more in flight.
LEMMA SubmitWeight ==
    ASSUME TypeOK, Submit, UNCHANGED taken, NEW o \in States
    PROVE  /\ Weight(o)' = IF o = "inflight" THEN Weight(o) + 1 ELSE Weight(o)
           /\ \A i \in 1..taken : pending'[i] = pending[i]
<1>. DEFINE n == Len(pending) + 1
<1>0. taken \in 0..Len(pending) /\ Len(pending) \in Nat /\ pending \in Seq(States)
  BY DEF TypeOK, States
<1>1. pending' = Append(pending, "inflight")
  BY DEF Submit
<1>2. Len(pending') = n /\ pending'[n] = "inflight" /\ \A i \in 1..Len(pending) : pending'[i] = pending[i]
  BY <1>0, <1>1
<1>3. n \notin Waiting(o)
  BY <1>0 DEF Waiting
<1>4. CASE o = "inflight"
  <2>1. Waiting(o)' = Waiting(o) \cup {n}
    BY <1>0, <1>2, <1>4 DEF Waiting
  <2>. QED BY <1>0, <1>2, <1>3, <1>4, <2>1, WaitingFinite, FS_AddElement DEF Weight
<1>5. CASE o # "inflight"
  <2>1. Waiting(o)' = Waiting(o)
    BY <1>0, <1>2, <1>5 DEF Waiting
  <2>. QED BY <1>0, <1>2, <1>5, <2>1 DEF Weight
<1>. QED BY <1>4, <1>5

\* A completion moves a future from the flight to its outcome.
LEMMA CompleteWeight ==
    ASSUME TypeOK, Balance, NEW i \in DOMAIN pending, NEW outcome \in {"ok", "err"},
           Complete(i, outcome), NEW o \in States
    PROVE  Weight(o)' = IF o = "inflight" THEN Weight(o) - 1
                        ELSE IF o = outcome THEN Weight(o) + 1 ELSE Weight(o)
<1>0. taken \in 0..Len(pending) /\ Len(pending) \in Nat /\ pending \in Seq(States)
  BY DEF TypeOK, States
<1>1. pending[i] = "inflight" /\ pending' = [pending EXCEPT ![i] = outcome] /\ taken' = taken
  BY DEF Complete
<1>2. i \in (taken + 1)..Len(pending)
  BY <1>0, <1>1 DEF Balance
<1>3. /\ Len(pending') = Len(pending) /\ pending'[i] = outcome
      /\ \A j \in 1..Len(pending) : j # i => pending'[j] = pending[j]
  BY <1>0, <1>1
<1>4. CASE o = "inflight"
  <2>1. Waiting(o)' = Waiting(o) \ {i} /\ i \in Waiting(o)
    BY <1>0, <1>1, <1>2, <1>3, <1>4 DEF Waiting
  <2>. QED BY <1>4, <2>1, WaitingFinite, FS_RemoveElement DEF Weight
<1>5. CASE o = outcome
  <2>1. Waiting(o)' = Waiting(o) \cup {i} /\ i \notin Waiting(o)
    BY <1>0, <1>1, <1>2, <1>3, <1>5 DEF Waiting
  <2>. QED BY <1>5, <2>1, WaitingFinite, FS_AddElement DEF Weight
<1>6. CASE o # "inflight" /\ o # outcome
  <2>1. Waiting(o)' = Waiting(o)
    BY <1>0, <1>1, <1>2, <1>3, <1>6 DEF Waiting
  <2>. QED BY <1>6, <2>1 DEF Weight
<1>. QED BY <1>4, <1>5, <1>6

\* A result that is taken waits no more.
LEMMA TakeWeight ==
    ASSUME TypeOK, Take, NEW o \in States
    PROVE  Weight(o)' = IF o = pending[taken + 1] THEN Weight(o) - 1 ELSE Weight(o)
<1>. DEFINE n == taken + 1
<1>0. taken \in 0..Len(pending) /\ Len(pending) \in Nat /\ pending \in Seq(States)
  BY DEF TypeOK, States
<1>1. taken < Len(pending) /\ taken' = n /\ pending' = pending
  BY DEF Take
<1>2. n \in (taken + 1)..Len(pending)
  BY <1>0, <1>1
<1>3. CASE o = pending[n]
  <2>1. Waiting(o)' = Waiting(o) \ {n} /\ n \in Waiting(o)
    BY <1>0, <1>1, <1>2, <1>3 DEF Waiting
  <2>. QED BY <1>3, <2>1, WaitingFinite, FS_RemoveElement DEF Weight
<1>4. CASE o # pending[n]
  <2>1. Waiting(o)' = Waiting(o)
    BY <1>0, <1>1, <1>2, <1>4 DEF Waiting
  <2>. QED BY <1>4, <2>1 DEF Weight
<1>. QED BY <1>3, <1>4

\* A batch of the view loader goes out at once.
LEMMA FlushWeight ==
    ASSUME IInv, FlushValues, NEW o \in States
    PROVE  /\ Weight(o) = 0 /\ taken' = 0
           /\ Weight(o)' = IF o = "inflight" THEN values ELSE 0
<1>0. TypeOK /\ pending = <<>> /\ taken = 0 /\ values \in Nat /\ taken' = 0
  BY DEF IInv, TypeOK, Flow, FlushValues
<1>1. Weight(o) = 0
  BY <1>0, NoneWaits
<1>2. Len(pending') = values /\ \A i \in 1..values : pending'[i] = "inflight"
  BY <1>0 DEF FlushValues
<1>3. CASE o = "inflight"
  <2>1. Waiting(o)' = 1..values
    BY <1>0, <1>2, <1>3 DEF Waiting
  <2>2. Cardinality(1..values) = values
    BY <1>0, FS_Interval
  <2>. QED BY <1>0, <1>1, <1>3, <2>1, <2>2 DEF Weight
<1>4. CASE o # "inflight"
  <2>1. Waiting(o)' = {}
    BY <1>0, <1>2, <1>4 DEF Waiting
  <2>. QED BY <1>0, <1>1, <1>4, <2>1, FS_EmptySet DEF Weight
<1>. QED BY <1>3, <1>4

\* Each step moves a request one stage on and counts it there.
LEMMA BalanceStep == IInv /\ Balance /\ [Next]_vars => Balance'
<1>. SUFFICES ASSUME IInv, Balance, [Next]_vars PROVE Balance'
  OBVIOUS
<1>0. /\ TypeOK /\ Weight("inflight") \in Nat /\ Weight("ok") \in Nat /\ Weight("err") \in Nat
      /\ taken \in Nat /\ Len(pending) \in Nat /\ issued \in Nat
      /\ stats \in [ok : Nat, err : Nat] /\ completed \in [ok : Nat, err : Nat]
  BY WaitingFinite DEF IInv, TypeOK, States
<1>1. ASSUME UNCHANGED <<req, futureVars, stats, histVars>> PROVE Balance'
  <2>1. Weight("inflight")' = Weight("inflight") /\ Weight("ok")' = Weight("ok")
        /\ Weight("err")' = Weight("err")
    BY <1>1, SameWeight DEF States
  <2>. QED BY <1>1, <2>1 DEF Balance, futureVars, histVars
<1>2. ASSUME Submit, UNCHANGED <<req, taken, stats, completed>> PROVE Balance'
  <2>1. Weight("inflight")' = Weight("inflight") + 1 /\ Weight("ok")' = Weight("ok")
        /\ Weight("err")' = Weight("err")
    BY <1>0, <1>2, SubmitWeight DEF States
  <2>2. \A i \in 1..taken : pending'[i] = pending[i]
    BY <1>0, <1>2, SubmitWeight DEF States
  <2>3. issued' = issued + 1
    BY <1>2 DEF Submit
  <2>4. \A i \in 1..taken' : pending'[i] # "inflight"
    BY <1>0, <1>2, <2>2 DEF Balance
  <2>5. issued' = completed'.ok + completed'.err + Weight("inflight")'
    <3>1. completed.ok \in Nat /\ completed.err \in Nat /\ completed' = completed
      BY <1>0, <1>2
    <3>. QED BY <1>0, <3>1, <2>1, <2>3 DEF Balance
  <2>. QED BY <1>2, <2>1, <2>4, <2>5 DEF Balance
<1>3. CASE Item
  BY <1>2, <1>3 DEF Item
<1>4. CASE UnknownItem
  BY <1>1, <1>4 DEF UnknownItem, futureVars, histVars
<1>5. CASE LoadItem
  BY <1>2, <1>5 DEF LoadItem, resultVars
<1>6. CASE StoreValue
  BY <1>1, <1>6 DEF StoreValue, resultVars
<1>7. CASE FlushValues
  <2>1. /\ Weight("inflight") = 0 /\ Weight("ok") = 0 /\ Weight("err") = 0 /\ taken' = 0
        /\ Weight("inflight")' = values /\ Weight("ok")' = 0 /\ Weight("err")' = 0
    BY <1>7, FlushWeight DEF States
  <2>2. issued' = issued + values /\ UNCHANGED <<req, stats, completed>> /\ values \in Nat
    BY <1>0, <1>7 DEF FlushValues, resultVars, TypeOK
  <2>. QED BY <1>0, <2>1, <2>2 DEF Balance
<1>8. CASE Query
  BY <1>2, <1>8 DEF Query, resultVars
<1>9. CASE Take
  <2>. DEFINE outcome == pending[taken + 1]
  <2>1. outcome \in {"ok", "err"}
    BY <1>0, <1>9 DEF Take, TypeOK
  <2>2. Weight("inflight")' = Weight("inflight")
        /\ Weight("ok")' = (IF outcome = "ok" THEN Weight("ok") - 1 ELSE Weight("ok"))
        /\ Weight("err")' = (IF outcome = "err" THEN Weight("err") - 1 ELSE Weight("err"))
    BY <1>0, <1>9, <2>1, TakeWeight DEF States
  <2>3. taken' = taken + 1 /\ UNCHANGED <<req, pending, issued, completed>>
    BY <1>9 DEF Take, histVars
  <2>4. \A i \in 1..taken' : pending'[i] # "inflight"
    <3>. SUFFICES ASSUME NEW i \in 1..(taken + 1) PROVE pending[i] # "inflight"
      BY <2>3
    <3>1. CASE i = taken + 1
      BY <2>1, <3>1
    <3>2. CASE i # taken + 1
      BY <1>0, <3>2 DEF Balance
    <3>. QED BY <3>1, <3>2
  <2>5. issued' = completed'.ok + completed'.err + Weight("inflight")'
    BY <2>2, <2>3 DEF Balance
  <2>6. ASSUME stats' = [stats EXCEPT ![outcome] = @ + 1]
        PROVE  /\ stats'.ok = (IF outcome = "ok" THEN stats.ok + 1 ELSE stats.ok)
               /\ stats'.err = (IF outcome = "err" THEN stats.err + 1 ELSE stats.err)
    <3>1. CASE outcome = "ok"
      BY <1>0, <2>6, <3>1
    <3>2. CASE outcome = "err"
      BY <1>0, <2>6, <3>2
    <3>. QED BY <2>1, <3>1, <3>2
  <2>. HIDE DEF outcome
  <2>7. CASE req.kind \in Counting \cup Querying
    <3>1. stats' = [stats EXCEPT ![outcome] = @ + 1]
      BY <1>9, <2>7 DEF Take, outcome
    <3>2. req'.kind # "view_load"
      BY <2>3, <2>7 DEF Counting, Querying
    <3>3. completed'.ok = stats'.ok + Weight("ok")' /\ completed'.err = stats'.err + Weight("err")'
      <4>1. /\ completed.ok = stats.ok + Weight("ok") /\ completed.err = stats.err + Weight("err")
            /\ completed' = completed
        BY <2>3, <2>7 DEF Balance
      <4>2. /\ stats'.ok = (IF outcome = "ok" THEN stats.ok + 1 ELSE stats.ok)
            /\ stats'.err = (IF outcome = "err" THEN stats.err + 1 ELSE stats.err)
        BY <2>6, <3>1
      <4>3. CASE outcome = "ok"
        BY <1>0, <2>2, <4>1, <4>2, <4>3
      <4>4. CASE outcome = "err"
        BY <1>0, <2>2, <4>1, <4>2, <4>4
      <4>. QED BY <2>1, <4>3, <4>4
    <3>. QED BY <2>4, <2>5, <3>2, <3>3 DEF Balance
  <2>8. CASE req.kind = "view_load"
    <3>1. outcome = "err" => stats' = [stats EXCEPT ![outcome] = @ + 1]
      BY <1>9, <2>8 DEF Take, outcome
    <3>2. outcome = "ok" => stats' = stats
      BY <1>9, <2>8 DEF Take, outcome, resultVars, Counting, Querying
    <3>3. req'.kind \notin Counting \cup Querying
      BY <2>3, <2>8 DEF Counting, Querying
    <3>4. stats'.ok = 0 /\ completed'.err = stats'.err + Weight("err")'
      BY <1>0, <2>1, <2>2, <2>3, <2>6, <2>8, <3>1, <3>2 DEF Balance
    <3>. QED BY <2>4, <2>5, <3>3, <3>4 DEF Balance
  <2>9. CASE req.kind \notin Counting \cup Querying \cup {"view_load"}
    BY <2>3, <2>4, <2>5, <2>9 DEF Balance
  <2>. QED BY <2>7, <2>8, <2>9
<1>10. CASE BatchDone
  <2>1. /\ taken = Len(pending) /\ taken' = 0 /\ Len(pending') = 0
        /\ UNCHANGED <<req, stats, issued, completed>>
    BY <1>10 DEF BatchDone, opVars, resultVars, histVars
  <2>2. Weight("inflight") = 0 /\ Weight("ok") = 0 /\ Weight("err") = 0
    BY <1>0, <2>1, NoneWaits DEF States
  <2>3. Weight("inflight")' = 0 /\ Weight("ok")' = 0 /\ Weight("err")' = 0
    BY <2>1, NoneWaitsNext DEF States
  <2>. QED BY <2>1, <2>2, <2>3 DEF Balance
<1>11. CASE Collect
  BY <1>1, <1>11 DEF Collect, opVars, resultVars
<1>12. CASE Respond
  BY <1>1, <1>12 DEF Respond, opVars, resultVars
<1>13. CASE CancelCurrent
  BY <1>1, <1>13 DEF CancelCurrent, opVars, resultVars
<1>14. ASSUME NEW r \in Requests, Begin(r) \/ NamelessView(r) PROVE Balance'
  <2>1. /\ taken' = 0 /\ Len(pending') = 0 /\ issued' = 0 /\ stats' = NoStats
        /\ completed' = NoStats
    BY <1>14 DEF Begin, NamelessView, IInv, Flow, NothingLeft, futureVars
  <2>2. Weight("inflight")' = 0 /\ Weight("ok")' = 0 /\ Weight("err")' = 0
    BY <2>1, NoneWaitsNext DEF States
  <2>. QED BY <2>1, <2>2 DEF Balance, NoStats
<1>15. ASSUME NEW i \in DOMAIN pending, NEW outcome \in {"ok", "err"}, Complete(i, outcome)
       PROVE  Balance'
  <2>1. /\ Weight("inflight")' = Weight("inflight") - 1
        /\ Weight("ok")' = (IF outcome = "ok" THEN Weight("ok") + 1 ELSE Weight("ok"))
        /\ Weight("err")' = (IF outcome = "err" THEN Weight("err") + 1 ELSE Weight("err"))
    BY <1>0, <1>15, CompleteWeight DEF States
  <2>2. /\ completed'.ok = (IF outcome = "ok" THEN completed.ok + 1 ELSE completed.ok)
        /\ completed'.err = (IF outcome = "err" THEN completed.err + 1 ELSE completed.err)
    <3>0. completed' = [completed EXCEPT ![outcome] = @ + 1]
      BY <1>15 DEF Complete
    <3>1. CASE outcome = "ok"
      BY <1>0, <3>0, <3>1
    <3>2. CASE outcome = "err"
      BY <1>0, <3>0, <3>2
    <3>. QED BY <3>1, <3>2
  <2>3. UNCHANGED <<req, taken, stats, issued>>
    BY <1>15 DEF Complete, opVars, resultVars
  <2>4. \A j \in 1..taken' : pending'[j] # "inflight"
    <3>1. pending' = [pending EXCEPT ![i] = outcome] /\ outcome # "inflight"
      BY <1>15 DEF Complete
    <3>2. ASSUME NEW j \in 1..taken PROVE pending'[j] # "inflight"
      <4>1. pending[j] # "inflight"
        BY DEF Balance
      <4>2. j \in DOMAIN pending
        BY <1>0 DEF TypeOK
      <4>. QED BY <3>1, <4>1, <4>2
    <3>. QED BY <2>3, <3>2
  <2>5. /\ completed.ok \in Nat /\ completed.err \in Nat
        /\ stats.ok \in Nat /\ stats.err \in Nat
    BY <1>0
  <2>6. issued' = completed'.ok + completed'.err + Weight("inflight")'
    <3>1. issued = completed.ok + completed.err + Weight("inflight")
      BY DEF Balance
    <3>2. completed'.ok + completed'.err = completed.ok + completed.err + 1
      <4>1. CASE outcome = "ok"
        BY <2>2, <2>5, <4>1
      <4>2. CASE outcome = "err"
        BY <2>2, <2>5, <4>2
      <4>. QED BY <4>1, <4>2
    <3>. QED BY <1>0, <2>1, <2>3, <2>5, <3>1, <3>2
  <2>7. ASSUME req'.kind \in Counting \cup Querying
        PROVE  /\ completed'.ok = stats'.ok + Weight("ok")'
               /\ completed'.err = stats'.err + Weight("err")'
    <3>1. req.kind \in Counting \cup Querying /\ stats' = stats
      BY <2>3, <2>7
    <3>2. completed.ok = stats.ok + Weight("ok") /\ completed.err = stats.err + Weight("err")
      BY <3>1 DEF Balance
    <3>3. CASE outcome = "ok"
      <4>1. /\ completed'.ok = completed.ok + 1 /\ Weight("ok")' = Weight("ok") + 1
            /\ completed'.err = completed.err /\ Weight("err")' = Weight("err")
        BY <2>1, <2>2, <3>3
      <4>. QED BY <1>0, <2>5, <3>1, <3>2, <4>1
    <3>4. CASE outcome = "err"
      <4>1. /\ completed'.err = completed.err + 1 /\ Weight("err")' = Weight("err") + 1
            /\ completed'.ok = completed.ok /\ Weight("ok")' = Weight("ok")
        BY <2>1, <2>2, <3>4
      <4>. QED BY <1>0, <2>5, <3>1, <3>2, <4>1
    <3>. QED BY <3>3, <3>4
  <2>8. ASSUME req'.kind = "view_load"
        PROVE  stats'.ok = 0 /\ completed'.err = stats'.err + Weight("err")'
    <3>1. req.kind = "view_load" /\ stats' = stats
      BY <2>3, <2>8
    <3>2. stats.ok = 0 /\ completed.err = stats.err + Weight("err")
      BY <3>1 DEF Balance
    <3>3. CASE outcome = "ok"
      <4>1. completed'.err = completed.err /\ Weight("err")' = Weight("err")
        BY <2>1, <2>2, <3>3
      <4>. QED BY <3>1, <3>2, <4>1
    <3>4. CASE outcome = "err"
      <4>1. completed'.err = completed.err + 1 /\ Weight("err")' = Weight("err") + 1
        BY <2>1, <2>2, <3>4
      <4>. QED BY <1>0, <2>5, <3>1, <3>2, <4>1
    <3>. QED BY <3>3, <3>4
  <2>. QED BY <2>4, <2>6, <2>7, <2>8 DEF Balance
<1>16. CASE UNCHANGED vars
  BY <1>1, <1>16 DEF vars, opVars, resultVars
<1>. QED
  BY <1>3, <1>4, <1>5, <1>6, <1>7, <1>8, <1>9, <1>10, <1>11, <1>12, <1>13, <1>14, <1>15, <1>16
  DEF Next, Worker, Library

\* A response holds each outcome exactly as often as the cluster gave it: what is not
\* reported waits in pending_futures, and nothing waits when the response goes out.
THEOREM ResponseIsExact == Spec => []ResponseExact
<1>1. Init => Balance
  <2>. SUFFICES ASSUME Init PROVE Balance
    OBVIOUS
  <2>1. taken = 0 /\ Len(pending) = 0
    BY DEF Init
  <2>2. Weight("inflight") = 0
    BY <2>1, NoneWaits DEF States
  <2>3. Weight("ok") = 0 /\ Weight("err") = 0
    BY <2>1, NoneWaits DEF States
  <2>. QED BY <2>1, <2>2, <2>3 DEF Init, Balance, NoStats, NoRequest
<1>2. IInv /\ Balance => ResponseExact
  <2>. SUFFICES ASSUME IInv, Balance, pc = "respond" PROVE ResponseExact
    BY DEF ResponseExact
  <2>1. taken = 0 /\ Len(pending) = 0
    BY DEF IInv, Flow, NothingLeft
  <2>2. Weight("inflight") = 0 /\ Weight("ok") = 0 /\ Weight("err") = 0
    BY <2>1, NoneWaits DEF States
  <2>3. stats \in [ok : Nat, err : Nat] /\ completed \in [ok : Nat, err : Nat]
    BY DEF IInv, TypeOK
  <2>4. req.kind \in Counting \cup Querying => stats = completed
    BY <2>2, <2>3 DEF Balance
  <2>5. req.kind = "view_load" => stats = [ok |-> 0, err |-> completed.err]
    BY <2>2, <2>3 DEF Balance
  <2>6. issued = completed.ok + completed.err
    BY <2>2, <2>3 DEF Balance
  <2>. QED BY <2>4, <2>5, <2>6 DEF ResponseExact
<1>. QED BY Invariance, BalanceStep, <1>1, <1>2, PTL DEF Spec

-----------------------------------------------------------------------------
(* HandleOps implements Awaited. *)

AbsVars == <<pc # "idle", issued, Outstanding>>

\* An idle handle is an idle Awaited.
LEMMA AbsInit == Init => Abstract!Init
  BY DEF Init, Abstract!Init, Outstanding

\* Every step of a handle is a step of Awaited or changes nothing of it.
LEMMA AbsStep == IInv /\ [Next]_vars => [Abstract!Next]_AbsVars
<1>. SUFFICES ASSUME IInv, [Next]_vars PROVE Abstract!Next \/ UNCHANGED AbsVars
  BY DEF AbsVars
<1>. USE DEF IInv, AbsVars, Outstanding, opVars, futureVars, resultVars, histVars
<1>0. /\ Len(pending) \in Nat /\ issued \in Nat /\ TypeOK /\ taken \in 0..Len(pending)
  BY DEF TypeOK
<1>1. ASSUME pc = "loop", pc' # "idle", Submit, UNCHANGED taken PROVE Abstract!Issue
  BY <1>0, <1>1, SubmitLen DEF Submit, Abstract!Issue
<1>2. CASE Item
  BY <1>1, <1>2 DEF Item, More, Abstract!Next
<1>3. CASE UnknownItem
  BY <1>3 DEF UnknownItem, More
<1>4. CASE LoadItem
  BY <1>1, <1>4 DEF LoadItem, More, Abstract!Next
<1>5. CASE StoreValue
  BY <1>5 DEF StoreValue
<1>6. CASE FlushValues
  <2>1. pc = "loop" /\ pc' = "drain" /\ issued' = issued + values /\ taken' = 0 /\ taken = 0
    BY <1>6 DEF FlushValues, Flow
  <2>2. Len(pending) = 0
    BY <2>1, <1>6 DEF FlushValues, Flow
  <2>3. Len(pending') = values /\ values \in Nat /\ values > 0
    BY <1>0, <1>6, FlushLen, HandleOpsAssumption
  <2>. QED BY <1>0, <2>1, <2>2, <2>3 DEF Abstract!Next, Abstract!Issue
<1>7. CASE Query
  BY <1>1, <1>7 DEF Query, More, Abstract!Next
<1>8. CASE Take
  <2>1. pc \in {"drain", "collect"} /\ pc' = pc /\ taken < Len(pending) /\ taken' = taken + 1
        /\ UNCHANGED <<pending, issued>>
    BY <1>8 DEF Take, SpoilsBatch
  <2>. QED BY <1>0, <2>1 DEF Abstract!Next, Abstract!Await
<1>9. CASE BatchDone
  BY <1>0, <1>9 DEF BatchDone
<1>10. CASE Collect
  BY <1>10 DEF Collect
<1>11. CASE Respond
  BY <1>0, <1>11 DEF Respond, Flow, NothingLeft, Abstract!Next, Abstract!Answer
<1>12. CASE CancelCurrent
  BY <1>12 DEF CancelCurrent
<1>13. ASSUME NEW r \in Requests, Begin(r) PROVE Abstract!Begin
  BY <1>0, <1>13 DEF Begin, Flow, NothingLeft, Abstract!Begin
<1>14. ASSUME NEW r \in Requests, NamelessView(r) PROVE Abstract!Begin
  BY <1>0, <1>14 DEF NamelessView, Flow, NothingLeft, Abstract!Begin
<1>15. ASSUME NEW i \in DOMAIN pending, NEW outcome \in {"ok", "err"}, Complete(i, outcome)
       PROVE  UNCHANGED AbsVars
  BY <1>0, <1>15, CompleteLen DEF Complete
<1>16. CASE UNCHANGED vars
  BY <1>16 DEF vars
<1>. QED
  BY <1>2, <1>3, <1>4, <1>5, <1>6, <1>7, <1>8, <1>9, <1>10, <1>11, <1>12, <1>13, <1>14, <1>15, <1>16
  DEF Next, Worker, Library, Abstract!Next

\* Every operation of a handle awaits every request it sends.
THEOREM Refinement == Spec => RequestsAwaited
<1>1. IInv /\ [Next]_vars => [Abstract!Next]_(Abstract!vars)
  BY AbsStep DEF AbsVars, Abstract!vars
<1>. QED BY AbsInit, Invariance, <1>1, PTL DEF Spec, RequestsAwaited, Abstract!Spec

-----------------------------------------------------------------------------
(* The loops of HandleOps are loops of OpLoop. *)

LoopOp == IF pc \in {"idle", "respond"} THEN [resets |-> FALSE, ends |-> {}]
          ELSE [resets |-> req.kind \in Resetting, ends |-> Endings(req)]

LoopVars == <<LoopOp, do_cancel, FALSE>>

\* The loop of a request is one of OpLoop, and not the idle one.
LEMMA LoopOfRequest ==
    ASSUME NEW r, r.kind \in Kinds
    PROVE  [resets |-> r.kind \in Resetting, ends |-> Endings(r)] \in Loop!Loops \ {Loop!Idle}
<1>. DEFINE l == [resets |-> r.kind \in Resetting, ends |-> Endings(r)]
<1>1. l.ends \subseteq {"cancel", "exhausted", "failure"} /\ l.resets \in BOOLEAN
  BY DEF Endings
<1>2. l \in Loop!Loops
  BY <1>1 DEF Loop!Loops
<1>3. l.resets \/ "failure" \in l.ends
  BY DEF Resetting, Kinds, Endings
<1>4. l # Loop!Idle
  BY <1>3 DEF Loop!Idle
<1>. QED BY <1>2, <1>4

\* A step that neither begins nor ends a loop nor sets the flag changes nothing of it.
LEMMA LoopInside ==
    ASSUME pc \in {"loop", "drain", "collect"} , pc' \in {"loop", "drain", "collect"},
           UNCHANGED <<req, do_cancel>>
    PROVE  UNCHANGED LoopVars
  BY DEF LoopVars, LoopOp, Endings, NeverEnds

\* Why a loop may be left: only a loader's batch fails, and the last batch is collected
\* when there is no item left or the operation is cancelled.
Left ==
    /\ failed => req.kind = "load"
    /\ pc = "collect" => \/ ~NeverEnds(req)
                         \/ req.kind \in Checking /\ do_cancel

\* The loop of the handle ends.
LEMMA LoopEnds ==
    ASSUME TypeOK, pc \in {"loop", "drain", "collect"}, pc' = "respond", UNCHANGED do_cancel,
           \/ ~NeverEnds(req)
           \/ req.kind \in Checking /\ do_cancel
           \/ req.kind = "load"
    PROVE  Loop!End
<1>1. req.kind \in Kinds
  BY DEF TypeOK
<1>2. LoopOp = [resets |-> req.kind \in Resetting, ends |-> Endings(req)] /\ LoopOp' = Loop!Idle
  BY DEF LoopOp, Loop!Idle
<1>3. LoopOp # Loop!Idle
  BY <1>1, <1>2, LoopOfRequest
<1>4. \/ "exhausted" \in LoopOp.ends
      \/ "cancel" \in LoopOp.ends /\ do_cancel
      \/ "failure" \in LoopOp.ends
  BY <1>2 DEF Endings
<1>. QED BY <1>2, <1>3, <1>4 DEF Loop!End, Loop!Running, Loop!Due, LoopOp, Loop!Idle

\* Every step of a handle is a step of OpLoop or changes nothing of it, and keeps Left.
LEMMA LoopStep == IInv /\ Left /\ [Next]_vars => Left' /\ [Loop!Next]_LoopVars
<1>. SUFFICES ASSUME IInv, Left, [Next]_vars PROVE Left' /\ (Loop!Next \/ UNCHANGED LoopVars)
  BY DEF LoopVars
<1>0. TypeOK /\ req.kind \in Kinds
  BY DEF IInv, TypeOK
<1>1. ASSUME pc \in {"loop", "drain", "collect"}, pc' \in {"loop", "drain"} \/ pc' = pc,
             UNCHANGED <<req, do_cancel>>, failed' => failed \/ req.kind = "load"
      PROVE  Left' /\ UNCHANGED LoopVars
  <2>1. UNCHANGED LoopVars
    BY <1>1, LoopInside
  <2>2. Left'
    BY <1>1 DEF Left, NeverEnds
  <2>. QED BY <2>1, <2>2
<1>. USE DEF opVars, futureVars, resultVars, histVars
<1>2. CASE Item
  BY <1>1, <1>2 DEF Item, More
<1>3. CASE UnknownItem
  BY <1>1, <1>3 DEF UnknownItem, More
<1>4. CASE LoadItem
  BY <1>1, <1>4 DEF LoadItem, More
<1>5. CASE StoreValue
  BY <1>1, <1>5 DEF StoreValue, More
<1>6. CASE FlushValues
  BY <1>1, <1>6 DEF FlushValues
<1>7. CASE Query
  BY <1>1, <1>7 DEF Query, More
<1>8. CASE Take
  BY <1>1, <1>8 DEF Take, SpoilsBatch
<1>9. CASE BatchDone
  <2>1. CASE pc = "drain" /\ ~failed
    BY <1>1, <1>9, <2>1 DEF BatchDone
  <2>2. CASE ~(pc = "drain" /\ ~failed)
    <3>1. pc \in {"drain", "collect"} /\ pc' = "respond" /\ UNCHANGED <<req, failed, do_cancel>>
      BY <1>9, <2>2 DEF BatchDone
    <3>2. \/ ~NeverEnds(req)
          \/ req.kind \in Checking /\ do_cancel
          \/ req.kind = "load"
      BY <2>2, <3>1 DEF Left
    <3>3. Loop!End
      BY <1>0, <3>1, <3>2, LoopEnds
    <3>. QED BY <3>1, <3>3 DEF Left, Loop!Next
  <2>. QED BY <2>1, <2>2
<1>10. CASE Collect
  <2>1. pc = "loop" /\ pc' \in {"respond", "collect"} /\ UNCHANGED <<req, failed, do_cancel>>
    BY <1>10 DEF Collect
  <2>2. ~NeverEnds(req) \/ (req.kind \in Checking /\ do_cancel)
    BY <1>10 DEF Collect, Finished
  <2>3. Left'
    BY <2>1, <2>2 DEF Left, NeverEnds
  <2>4. CASE pc' = "respond"
    BY <1>0, <2>1, <2>2, <2>3, <2>4, LoopEnds DEF Loop!Next
  <2>5. CASE pc' = "collect"
    BY <2>1, <2>3, <2>5, LoopInside
  <2>. QED BY <2>1, <2>4, <2>5
<1>11. CASE Respond
  BY <1>11 DEF Respond, Left, LoopVars, LoopOp
<1>12. CASE CancelCurrent
  <2>1. UNCHANGED <<pc, req, failed>> /\ do_cancel' = TRUE
    BY <1>12 DEF CancelCurrent
  <2>2. LoopOp' = LoopOp
    BY <2>1 DEF LoopOp, Endings, NeverEnds
  <2>3. Left'
    BY <2>1 DEF Left, NeverEnds
  <2>4. CASE ~Loop!Running
    <3>1. Loop!Rest
      BY <2>1, <2>2, <2>4 DEF Loop!Rest, LoopOp
    <3>. QED BY <2>3, <3>1 DEF Loop!Next
  <2>5. CASE Loop!Running
    <3>1. Loop!Cancel
      BY <2>1, <2>2, <2>5 DEF Loop!Cancel, LoopOp
    <3>. QED BY <2>3, <3>1 DEF Loop!Next
  <2>. QED BY <2>4, <2>5
<1>13. ASSUME NEW r \in Requests, Begin(r) PROVE Left' /\ Loop!Next
  <2>. DEFINE l == [resets |-> r.kind \in Resetting, ends |-> Endings(r)]
  <2>1. pc = "idle" /\ pc' = "loop" /\ req' = r /\ ~failed'
        /\ do_cancel' = (do_cancel /\ r.kind \notin Resetting)
    BY <1>13 DEF Begin
  <2>2. l \in Loop!Loops \ {Loop!Idle}
    BY LoopOfRequest DEF Requests
  <2>3. LoopOp = Loop!Idle /\ LoopOp' = l
    BY <2>1 DEF LoopOp, Loop!Idle
  <2>4. Loop!Start(l)
    BY <2>1, <2>3 DEF Loop!Start, Loop!Running, Loop!Idle, LoopOp
  <2>. QED BY <2>1, <2>2, <2>4 DEF Left, Loop!Next
<1>14. ASSUME NEW r \in Requests, NamelessView(r) PROVE Left' /\ UNCHANGED LoopVars
  BY <1>14 DEF NamelessView, Left, LoopVars, LoopOp
<1>15. ASSUME NEW i \in DOMAIN pending, NEW outcome \in {"ok", "err"}, Complete(i, outcome)
       PROVE  Left' /\ UNCHANGED LoopVars
  BY <1>15 DEF Complete, Left, LoopVars, LoopOp, Endings, NeverEnds
<1>16. CASE UNCHANGED vars
  BY <1>16 DEF vars, Left, LoopVars, LoopOp, Endings, NeverEnds
<1>. QED
  BY <1>2, <1>3, <1>4, <1>5, <1>6, <1>7, <1>8, <1>9, <1>10, <1>11, <1>12, <1>13, <1>14, <1>15, <1>16
  DEF Next, Worker, Library

\* The loops of a handle keep to OpLoop: how they start, that a cancel is not forgotten
\* while they run, and that nothing but a cancel, their own end or a failed batch of a
\* loader ends them.  (That they do end is checked, not proved.)
THEOREM LoopsAreSafe == Spec => Loop!Safe
<1>1. Init => Loop!Init /\ Left
  BY DEF Init, Loop!Init, Loop!Idle, Left, NoRequest
<1>2. IInv /\ Left /\ [Next]_vars => Left' /\ [Loop!Next]_(Loop!vars)
  BY LoopStep DEF LoopVars, LoopOp, Loop!Idle, Loop!vars
<1>. QED BY Invariance, <1>1, <1>2, PTL DEF Spec, Loop!Safe
=============================================================================
