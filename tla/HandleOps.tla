----------------------------- MODULE HandleOps ------------------------------
(***************************************************************************)
(* The operations of one handle: the loops over a dataset (Handle.cpp),    *)
(* the loaders and the query executors, with the futures they collect.     *)
(*                                                                         *)
(* The worker thread submits requests to the client library and keeps      *)
(* their futures in pending_futures; the library's I/O threads complete    *)
(* them in any order; the worker takes the results in the order of         *)
(* submission, blocking on each.  The control thread may set do_cancel at  *)
(* any moment.  A request is abstracted to its state (in flight, completed *)
(* with success or with an error), a dataset to the number of its items.   *)
(***************************************************************************)
EXTENDS Integers, Sequences

CONSTANTS
    IterWaits,  \* the IterWait options the harness uses
    Counts,     \* the sizes of its datasets
    BatchSize,  \* the batch of the loaders (100, and 1000 for the view loader)
    MaxIssued   \* bound on the requests, and on the count, of an endless operation

(* The loops.
     keyop      dsGet, dsMutate, dsKeyop
     subdoc     dsSDSinglePath, whose items may hold an unknown command
     load       the N1QL, SD, FTS and CBAS loaders
     view_load  the view loader
     query      the N1QL, FTS and CBAS query executors
     view       the view executor, which counts its iterations               *)
Kinds == {"keyop", "subdoc", "load", "view_load", "query", "view"}
\* They begin by resetting do_cancel.
Resetting == Kinds \ {"load"}
\* Their loop stops when it is set.
Checking == {"keyop", "subdoc", "query", "view"}
\* They submit items through postsubmit, which counts them in rs.remaining.
Counting == {"keyop", "subdoc"}
\* They execute one request at a time.
Querying == {"query", "view"}

ASSUME HandleOpsAssumption ==
    /\ IterWaits \subseteq Nat /\ Counts \subseteq Nat
    /\ BatchSize \in Nat \ {0} /\ MaxIssued \in Nat \ {0}

\* A request: its loop, the options and dataset it decodes to.  "seeded" is the
\* dataset type processRequest looks into.  Queries have no dataset: the count of
\* a view query is its number of iterations, negative (continuous) for no end.
Requests == [kind : Kinds, iterwait : IterWaits, count : Counts,
             continuous : BOOLEAN, seeded : BOOLEAN]

\* Nothing but a cancel ends the loop.
NeverEnds(r) == r.continuous \/ r.kind = "query"

\* How often the loop runs: a view query at least once.
Turns(r) == IF r.kind = "view" /\ r.count = 0 THEN 1 ELSE r.count

VARIABLES
    pc,        \* where the worker is in the operation
    req,       \* the request it serves
    left,      \* items the iterator has still to give (not used if it never ends)
    jj,        \* items gone through, as the loaders count them
    values,    \* items the view loader has put aside
    pending,   \* pending_futures, each "inflight", "ok" or "err"
    taken,     \* how many of them drainPendingFutures has gone through
    failed,    \* the loader's batch had an error
    remaining, \* rs.remaining
    stats,     \* rs.stats: results reported, by outcome
    do_cancel, \* the handle's flag
    issued,    \* history: requests submitted since the operation began
    completed  \* history: completions since then, by outcome

opVars == <<req, left, jj, values, failed>>
futureVars == <<pending, taken>>
resultVars == <<remaining, stats>>
histVars == <<issued, completed>>
vars == <<pc, opVars, futureVars, resultVars, do_cancel, histVars>>

NoStats == [ok |-> 0, err |-> 0]
NoRequest == [kind |-> "query", iterwait |-> 0, count |-> 0,
              continuous |-> FALSE, seeded |-> FALSE]

Init ==
    /\ pc = "idle" /\ req = NoRequest
    /\ left = 0 /\ jj = 0 /\ values = 0 /\ failed = FALSE
    /\ pending = <<>> /\ taken = 0
    /\ remaining = 0 /\ stats = NoStats
    /\ do_cancel \in BOOLEAN
    /\ issued = 0 /\ completed = NoStats

\* "Continuous must be used with IterWait": refused, but only of a seeded dataset.
Refused(r) == r.seeded /\ r.kind \notin Querying /\ r.continuous /\ r.iterwait = 0

\* Mutant: the result set is not cleared.
Begin_KeepsStats(r) ==
    /\ pc = "idle" /\ ~Refused(r)
    /\ pc' = "loop" /\ req' = r
    /\ left' = Turns(r) /\ jj' = 0 /\ values' = 0 /\ failed' = FALSE
    /\ do_cancel' = (do_cancel /\ r.kind \notin Resetting)
    /\ issued' = 0 /\ completed' = NoStats /\ remaining' = 0
    /\ UNCHANGED <<futureVars, stats>>

\* The operation begins: the result set is cleared, the flag reset.
Begin(r) ==
    /\ pc = "idle" /\ ~Refused(r)
    /\ pc' = "loop" /\ req' = r
    /\ left' = Turns(r) /\ jj' = 0 /\ values' = 0 /\ failed' = FALSE
    /\ remaining' = 0 /\ stats' = NoStats
    /\ do_cancel' = (do_cancel /\ r.kind \notin Resetting)
    /\ issued' = 0 /\ completed' = NoStats
    /\ UNCHANGED futureVars

\* A view query without a design or view name: answered at once, with no result.
NamelessView(r) ==
    /\ pc = "idle" /\ r.kind = "view"
    /\ pc' = "respond" /\ req' = r
    /\ left' = 0 /\ jj' = 0 /\ values' = 0 /\ failed' = FALSE
    /\ remaining' = 0 /\ stats' = NoStats
    /\ issued' = 0 /\ completed' = NoStats
    /\ UNCHANGED <<futureVars, do_cancel>>

\* Mutant: the loop does not look at the flag.
Finished_NoCancel == ~NeverEnds(req) /\ left = 0

\* The test at the head of the loop: no item left, or cancelled.
Finished ==
    \/ ~NeverEnds(req) /\ left = 0
    \/ req.kind \in Checking /\ do_cancel

\* Another item is taken; MaxIssued bounds the endless loops.
More ==
    /\ pc = "loop" /\ ~Finished
    /\ NeverEnds(req) => issued < MaxIssued /\ remaining < MaxIssued
    /\ left' = IF NeverEnds(req) THEN left ELSE left - 1

\* One request goes out.
Submit ==
    /\ pending' = Append(pending, "inflight")
    /\ issued' = issued + 1

\* Mutant: the batch is one request too long.
BatchFull_OffByOne(n) == req.iterwait # 0 /\ ~(0 < n /\ n <= req.iterwait)

\* postsubmit, with n items counted: is it time to wait for the batch?
BatchFull(n) == req.iterwait # 0 /\ ~(0 < n /\ n < req.iterwait)

\* An item of dsGet, dsMutate, dsKeyop or dsSDSinglePath.
Item ==
    /\ req.kind \in Counting /\ More
    /\ Submit
    /\ remaining' = remaining + 1
    /\ pc' = IF BatchFull(remaining + 1) THEN "drain" ELSE "loop"
    /\ UNCHANGED <<req, jj, values, failed, taken, stats, do_cancel, completed>>

\* An item of dsSDSinglePath whose command is not known: nothing is sent, but
\* postsubmit counts it.
UnknownItem ==
    /\ req.kind = "subdoc" /\ More
    /\ remaining' = remaining + 1
    /\ pc' = IF BatchFull(remaining + 1) THEN "drain" ELSE "loop"
    /\ UNCHANGED <<req, jj, values, failed, futureVars, stats, do_cancel, histVars>>

\* A loader waits at its first item and then every BatchSize.
LoadBatchFull == jj % BatchSize = 0

\* An item of a loader.
LoadItem ==
    /\ req.kind = "load" /\ More
    /\ Submit
    /\ jj' = jj + 1
    /\ pc' = IF LoadBatchFull THEN "drain" ELSE "loop"
    /\ UNCHANGED <<req, values, failed, taken, resultVars, do_cancel, completed>>

\* The view loader puts items aside ...
StoreValue ==
    /\ req.kind = "view_load" /\ More
    /\ values < BatchSize
    /\ values' = values + 1
    /\ UNCHANGED <<pc, req, jj, failed, futureVars, resultVars, do_cancel, histVars>>

\* ... and sends them all when the batch is complete or the dataset over.
FlushValues ==
    /\ req.kind = "view_load" /\ pc = "loop"
    /\ values = BatchSize \/ (Finished /\ values > 0)
    /\ NeverEnds(req) => issued < MaxIssued
    /\ pending' = [i \in 1..values |-> "inflight"]
    /\ issued' = issued + values
    /\ values' = 0
    /\ pc' = "drain"
    /\ UNCHANGED <<req, left, jj, failed, taken, resultVars, do_cancel, completed>>

\* A query: sent and awaited.  (The document that an N1QL or at_plus search first
\* writes is awaited in place and reported nowhere.)
Query ==
    /\ req.kind \in Querying /\ More
    /\ Submit
    /\ pc' = "drain"
    /\ UNCHANGED <<req, jj, values, failed, taken, resultVars, do_cancel, completed>>

\* The library completes a request, in any order.
Complete(i, outcome) ==
    /\ i \in DOMAIN pending /\ pending[i] = "inflight"
    /\ pending' = [pending EXCEPT ![i] = outcome]
    /\ completed' = [completed EXCEPT ![outcome] = @ + 1]
    /\ UNCHANGED <<pc, opVars, taken, resultVars, do_cancel, issued>>

\* Mutant: a request that failed is not counted off.
Take_ErrorsStay ==
    /\ pc \in {"drain", "collect"} /\ taken < Len(pending)
    /\ pending[taken + 1] # "inflight"
    /\ taken' = taken + 1
    /\ LET outcome == pending[taken + 1] IN
          /\ stats' = [stats EXCEPT ![outcome] = @ + 1]
          /\ remaining' = IF outcome = "ok" THEN remaining - 1 ELSE remaining
    /\ UNCHANGED <<pc, opVars, pending, do_cancel, histVars>>

\* A loader gives up after a batch with an error.
SpoilsBatch(outcome) == req.kind = "load" /\ outcome = "err"

\* drainPendingFutures: the next future's get() returns and its result is handled:
\* reported with setRescode, noted by a loader, or reported if it is an error.
Take ==
    /\ pc \in {"drain", "collect"} /\ taken < Len(pending)
    /\ pending[taken + 1] # "inflight"
    /\ taken' = taken + 1
    /\ LET outcome == pending[taken + 1] IN
          IF \/ req.kind \in Counting \cup Querying
             \/ req.kind = "view_load" /\ outcome = "err"
          THEN /\ stats' = [stats EXCEPT ![outcome] = @ + 1]
               /\ remaining' = remaining - 1
               /\ UNCHANGED failed
          ELSE /\ failed' = (failed \/ SpoilsBatch(outcome))
               /\ UNCHANGED resultVars
    /\ UNCHANGED <<pc, req, left, jj, values, pending, do_cancel, histVars>>

\* Mutant: the position in pending_futures outlives its contents.
BatchDone_KeepsTaken ==
    /\ pc \in {"drain", "collect"} /\ taken = Len(pending)
    /\ pending' = <<>> /\ UNCHANGED taken
    /\ pc' = IF pc = "drain" /\ ~failed THEN "loop" ELSE "respond"
    /\ UNCHANGED <<opVars, resultVars, do_cancel, histVars>>

\* Mutant: a cancel abandons the rest of the batch.
BatchDone_CancelDrops ==
    /\ pc \in {"drain", "collect"} /\ (taken = Len(pending) \/ do_cancel)
    /\ pending' = <<>> /\ taken' = 0
    /\ pc' = IF pc = "drain" /\ ~failed THEN "loop" ELSE "respond"
    /\ UNCHANGED <<opVars, resultVars, do_cancel, histVars>>

\* The batch is over: the loop goes on, unless it is a loader's and has failed.
\* (A failure in the last, partial batch of a loader is not looked at.)
BatchDone ==
    /\ pc \in {"drain", "collect"} /\ taken = Len(pending)
    /\ pending' = <<>> /\ taken' = 0
    /\ pc' = IF pc = "drain" /\ ~failed THEN "loop" ELSE "respond"
    /\ UNCHANGED <<opVars, resultVars, do_cancel, histVars>>

\* The loop is over: collect_result, or the loader's last drain.
Collect ==
    /\ pc = "loop" /\ Finished /\ values = 0
    /\ pc' = IF req.kind \in Counting /\ remaining = 0 THEN "respond" ELSE "collect"
    /\ UNCHANGED <<opVars, futureVars, resultVars, do_cancel, histVars>>

\* The response goes out.
Respond ==
    /\ pc = "respond"
    /\ pc' = "idle"
    /\ UNCHANGED <<opVars, futureVars, resultVars, do_cancel, histVars>>

\* cancelCurrent, from the control thread.
CancelCurrent ==
    /\ do_cancel' = TRUE
    /\ UNCHANGED <<pc, opVars, futureVars, resultVars, histVars>>

Worker ==
    \/ Item \/ UnknownItem \/ LoadItem \/ StoreValue \/ FlushValues \/ Query
    \/ Take \/ BatchDone \/ Collect \/ Respond

Library == \E i \in DOMAIN pending, outcome \in {"ok", "err"} : Complete(i, outcome)

Next ==
    \/ Worker \/ Library \/ CancelCurrent
    \/ \E r \in Requests : Begin(r) \/ NamelessView(r)

Spec == Init /\ [][Next]_vars

\* The worker runs; the library completes every request, with a timeout at worst.
FairSpec == Spec /\ WF_vars(Worker) /\ WF_vars(Library)

-----------------------------------------------------------------------------
(* Properties *)

\* Every variable has its type; drainPendingFutures never runs past its vector.
TypeOK ==
    /\ pc \in {"idle", "loop", "drain", "collect", "respond"}
    /\ req \in [kind : Kinds, iterwait : Nat, count : Nat,
                continuous : BOOLEAN, seeded : BOOLEAN]
    /\ left \in Nat /\ jj \in Nat /\ values \in 0..BatchSize /\ failed \in BOOLEAN
    /\ pending \in Seq({"inflight", "ok", "err"}) /\ taken \in 0..Len(pending)
    /\ remaining \in Int /\ stats \in [ok : Nat, err : Nat]
    /\ do_cancel \in BOOLEAN
    /\ issued \in Nat /\ completed \in [ok : Nat, err : Nat]

\* Requests whose result the worker has not taken.
Outstanding == Len(pending) - taken

\* rs.remaining is what the batches are cut by: it counts exactly the requests
\* not reported yet, and never falls below them when commands are unknown, so that
\* collect_result neither misses futures nor sees "extra callbacks" (Handle.cpp:168).
RemainingCounts ==
    /\ req.kind = "keyop" => remaining = Outstanding
    /\ req.kind = "subdoc" => remaining >= Outstanding

\* Never more requests outstanding than the harness allowed with IterWait, or than
\* the batch of a loader.
WindowBounded ==
    /\ req.kind \in Counting /\ req.iterwait > 0 => Len(pending) <= req.iterwait
    /\ req.kind \in {"load", "view_load"} => Len(pending) <= BatchSize
    /\ req.kind \in Querying => Len(pending) <= 1

\* The response counts each outcome exactly as often as the cluster gave it (the
\* view loader reports the errors only), whatever the order of completion, the
\* batches and the moment of a cancel.
ResponseExact ==
    pc = "respond" =>
        /\ req.kind \in Counting \cup Querying => stats = completed
        /\ req.kind = "view_load" => stats = [ok |-> 0, err |-> completed.err]
        /\ issued = completed.ok + completed.err

\* What ends the loop of a request.
Endings(r) ==
    (IF r.kind \in Checking THEN {"cancel"} ELSE {})
        \cup (IF NeverEnds(r) THEN {} ELSE {"exhausted"})
        \cup (IF r.kind = "load" THEN {"failure"} ELSE {})

Loop == INSTANCE OpLoop WITH
    op <- IF pc \in {"idle", "respond"} THEN [resets |-> FALSE, ends |-> {}]
          ELSE [resets |-> req.kind \in Resetting, ends |-> Endings(req)],
    flag <- do_cancel, gone <- FALSE

\* The loops do what OpLoop promises and Dispatch is built on: a cancel that arrives in
\* the loop of an operation that looks at the flag has it answered, though its dataset
\* has no end; one over a dataset with an end is answered, cancelled or not; no other
\* ends, and none forgets a cancel once it runs (Handle.cpp:203-515, the loaders).
LoopsEnd == Loop!Spec

\* The operations of a handle do what Awaited promises.
Abstract == INSTANCE Awaited WITH
    running <- pc # "idle", issued <- issued, outstanding <- Outstanding

RequestsAwaited == Abstract!Spec
=============================================================================
