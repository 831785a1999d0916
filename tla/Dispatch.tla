------------------------------ MODULE Dispatch ------------------------------
(***************************************************************************)
(* The threads of the daemon and the handles they share.                   *)
(*                                                                         *)
(* One control thread (MainDispatch, Control.cpp) accepts data connections *)
(* and starts a worker thread (WorkerDispatch, Worker.cpp) for each.  A    *)
(* worker creates a Handle on NEWHANDLE, registers itself under the        *)
(* handle's ID in h2wmap, runs operations, and on its way out unregisters  *)
(* and deletes the handle.  The control thread may cancel the operation of *)
(* any handle (CANCEL), reaps the threads that ended, and at the end of    *)
(* the session cancels and reaps all of them before it closes the cluster. *)
(*                                                                         *)
(* A step ends where another thread can tell the difference: a lock is     *)
(* taken or released, a shared variable is written, a call blocks.         *)
(* A worker is named by the address of its object: a deleted worker's      *)
(* address may be reused by the next connection, as malloc does.           *)
(***************************************************************************)
EXTENDS Naturals, FiniteSets

CONSTANTS
    Workers,        \* addresses a WorkerDispatch may get (bounds the open connections)
    HandleIds,      \* handle IDs the harness uses (a message without an ID decodes to 0)
    Ops,            \* kinds of operation the harness asks for
    NULL,           \* no worker
    Main,           \* the control thread, as the owner of a mutex
    EarlyIds        \* IDs it may use again as soon as it has closed their connection; the
                    \* others it leaves until the daemon has forgotten them

(* The operations, by how their loop treats do_cancel and whether it ends. *)
\* The operation resets do_cancel when it starts (Handle.cpp, externalEnter).
Resetting == {"batch", "batch_continuous", "query", "view_load", "view_load_continuous"}
\* Its loop stops when do_cancel is set.
Checking == {"batch", "batch_continuous", "query"}
\* Its loop has no end of its own.
Endless == {"batch_continuous", "query", "load_continuous", "view_load_continuous"}
\* It gives up after a request that fails.
Fragile == {"load", "load_continuous"}
OpKinds == Resetting \cup {"load", "load_continuous", "no_dataset"}

ASSUME DispatchAssumption ==
    /\ HandleIds \subseteq Nat
    /\ Ops \subseteq OpKinds
    /\ "none" \notin OpKinds
    /\ NULL \notin Workers
    /\ Main \notin Workers
    /\ Main # NULL
    /\ EarlyIds \subseteq HandleIds

VARIABLES
    mpc,       \* where the control thread is
    todo,      \* children it has still to visit in the list walk it is in
    mw,        \* the worker it is cancelling, or NULL
    mid,       \* the handle ID of the CANCEL it is serving
    ready,     \* what its select() reported
    wpc,       \* where each worker thread is; "none": no such object
    conn,      \* TRUE while the harness keeps the worker's connection open
    cur_handle,\* the worker's pointer: "null", "live", "dangling" (deleted)
    cur_hid,   \* the worker's handle ID, 0 for none
    hreq,      \* the ID asked for by the NEWHANDLE in progress
    do_cancel, \* the flag of the worker's handle
    op,        \* the operation the worker runs
    answer,    \* the worker's last response
    hmutex,    \* owner of each worker's handle mutex
    wmutex,    \* owner of the mutex of h2wmap and of the cluster
    h2wmap,    \* handle ID -> worker (an absent ID and one mapped to NULL read the same)
    cluster    \* "closed", "open" (cluster_initialized), "shut"

mainVars == <<mpc, todo, mw, mid, ready>>
ownVars == <<conn, op, answer, hreq>>
handleVars == <<cur_handle, do_cancel, cur_hid>>
sharedVars == <<hmutex, wmutex, h2wmap, cluster>>
vars == <<mainVars, wpc, ownVars, handleVars, sharedVars>>

Ids == HandleIds \cup {0}

\* The objects in MainDispatch::children.
children == {w \in Workers : wpc[w] # "none"}

\* Where a worker runs between registerWDHandle and unregisterWDHandle.
Registered == {"collections", "select", "op_start", "op_loop", "leave",
               "unreg_lock", "unreg"}

\* Where a worker serves a NEWHANDLE that has not registered yet.
Creating == {"ensure", "opening", "mkhandle", "reg_lock", "reg"}

WorkerPcs == Registered \cup Creating
               \cup {"none", "fin_lock", "fin_delete", "fin_null", "exited"}

Scanning == {"collect", "recollect", "shut_collect"}
ShutPcs == {"shut_cancel", "shut_lock", "shut_set", "shut_collect", "shut_close", "done"}
CancelPcs == {"cmd_lock", "cmd_set", "shut_lock", "shut_set"}
MainPcs == Scanning \cup ShutPcs
             \cup {"select", "accept", "control", "cmd_lock", "cmd_set", "aborted"}

Init ==
    /\ mpc = "collect" /\ todo = {} /\ mw = NULL /\ mid = 0 /\ ready = {}
    /\ wpc = [w \in Workers |-> "none"]
    /\ conn = [w \in Workers |-> FALSE]
    /\ cur_handle = [w \in Workers |-> "null"]
    /\ cur_hid = [w \in Workers |-> 0]
    /\ hreq = [w \in Workers |-> 0]
    /\ do_cancel = [w \in Workers |-> FALSE]
    /\ op = [w \in Workers |-> "none"]
    /\ answer = [w \in Workers |-> "none"]
    /\ hmutex = [w \in Workers |-> NULL]
    /\ wmutex = NULL
    /\ h2wmap = [h \in Ids |-> NULL]
    /\ cluster = "closed"

-----------------------------------------------------------------------------
(* The control thread *)

\* Mutant: the reaper takes a worker whose connection is closed for one that ended.
CollectOne_Closed(w) ==
    /\ mpc \in Scanning /\ w \in todo
    /\ todo' = todo \ {w}
    /\ IF wpc[w] # "none" /\ ~conn[w]
       THEN /\ wpc' = [wpc EXCEPT ![w] = "none"]
            /\ cur_handle' = [cur_handle EXCEPT ![w] = "null"]
       ELSE UNCHANGED <<wpc, cur_handle>>
    /\ UNCHANGED <<mpc, mw, mid, ready, ownVars, do_cancel, cur_hid, sharedVars>>

\* One step of _collect_workers: a child that has ended is joined and deleted.
CollectOne(w) ==
    /\ mpc \in Scanning /\ w \in todo
    /\ todo' = todo \ {w}
    /\ IF wpc[w] = "exited"
       THEN /\ wpc' = [wpc EXCEPT ![w] = "none"]
            /\ conn' = [conn EXCEPT ![w] = FALSE]
            /\ answer' = [answer EXCEPT ![w] = "none"]
            /\ do_cancel' = [do_cancel EXCEPT ![w] = FALSE]
            /\ cur_handle' = [cur_handle EXCEPT ![w] = "null"]
            /\ cur_hid' = [cur_hid EXCEPT ![w] = 0]
       ELSE UNCHANGED <<wpc, conn, answer, do_cancel, cur_handle, cur_hid>>
    /\ UNCHANGED <<mpc, mw, mid, ready, op, hreq, sharedVars>>

\* The walk before select() is over.
CollectDone ==
    /\ mpc = "collect" /\ todo = {}
    /\ mpc' = "select"
    /\ UNCHANGED <<todo, mw, mid, ready, wpc, ownVars, handleVars, sharedVars>>

\* select() returns: sockets that are ready, or "error" for all that ends the
\* session (an error, an exception on a socket, and a signal: EINTR leaves the
\* sets as passed in, with acceptfd still in excfds).  The children are walked
\* again before the outcome is looked at.  (A connection beyond Workers is not
\* reported: the bound on open connections.)
Select(r) ==
    /\ mpc = "select"
    /\ "accept" \in r => children # Workers
    /\ ready' = r
    /\ mpc' = "recollect" /\ todo' = children
    /\ UNCHANGED <<mw, mid, wpc, ownVars, handleVars, sharedVars>>

\* Back to the top of loopOnce, or out of run() into ~MainDispatch.
NextLoop == mpc' = "collect" /\ todo' = children
Leave == mpc' = "shut_cancel" /\ todo' = children

\* The second walk is over: the select outcome decides.
SelectDone ==
    /\ mpc = "recollect" /\ todo = {}
    /\ \/ "error" \in ready /\ Leave
       \/ "error" \notin ready /\ "accept" \in ready /\ mpc' = "accept" /\ UNCHANGED todo
       \/ ready = {"control"} /\ mpc' = "control" /\ UNCHANGED todo
       \/ ready = {} /\ NextLoop
    /\ UNCHANGED <<mw, mid, ready, wpc, ownVars, handleVars, sharedVars>>

\* A data connection: a new worker object, pushed on children, its thread started.
Accept(w) ==
    /\ mpc = "accept" /\ wpc[w] = "none"
    /\ wpc' = [wpc EXCEPT ![w] = "select"]
    /\ conn' = [conn EXCEPT ![w] = TRUE]
    /\ IF "control" \in ready
       THEN mpc' = "control" /\ UNCHANGED todo
       ELSE mpc' = "collect" /\ todo' = children \cup {w}
    /\ UNCHANGED <<mw, mid, ready, answer, op, hreq, handleVars, sharedVars>>

\* accept() failed: loopOnce returns false.
AcceptFails ==
    /\ mpc = "accept" /\ Leave
    /\ UNCHANGED <<mw, mid, ready, wpc, ownVars, handleVars, sharedVars>>

\* The control connection ended, or said GOODBYE.
Goodbye ==
    /\ mpc = "control" /\ Leave
    /\ UNCHANGED <<mw, mid, ready, wpc, ownVars, handleVars, sharedVars>>

\* No complete line yet, or a command that has nothing to do with the workers.
OtherCommand ==
    /\ mpc = "control" /\ NextLoop
    /\ UNCHANGED <<mw, mid, ready, wpc, ownVars, handleVars, sharedVars>>

\* What `h2wmap[id]` may read.  The control thread does not take wmutex, so
\* while a worker is inside the map the lookup may also miss an entry.
Lookup(h) ==
    {h2wmap[h]} \cup (IF \E w \in Workers : wpc[w] \in {"reg", "unreg"} THEN {NULL} ELSE {})

\* Mutant: the test for an unknown ID is missing.
CancelLookup_NoTest(h) ==
    /\ mpc = "control"
    /\ mpc' = "cmd_lock" /\ mw' \in Lookup(h) /\ mid' = h
    /\ UNCHANGED <<todo, ready, wpc, ownVars, handleVars, sharedVars>>

\* Mutant: a CANCEL takes the entry out of the map.
CancelLookup_Erases(h) ==
    /\ mpc = "control" /\ h2wmap[h] # NULL
    /\ mpc' = "cmd_lock" /\ mw' = h2wmap[h] /\ mid' = h
    /\ h2wmap' = [h2wmap EXCEPT ![h] = NULL]
    /\ UNCHANGED <<todo, ready, wpc, ownVars, handleVars, hmutex, wmutex, cluster>>

\* CANCEL: an unknown ID is answered with ENOHANDLE, a known one goes on to
\* cancelCurrentHandle of its worker.
CancelLookup(h) ==
    /\ mpc = "control"
    /\ \E w \in Lookup(h) :
          IF w = NULL
          THEN NextLoop /\ UNCHANGED <<mw, mid>>
          ELSE mpc' = "cmd_lock" /\ mw' = w /\ mid' = h /\ UNCHANGED todo
    /\ UNCHANGED <<ready, wpc, ownVars, handleVars, sharedVars>>

\* cancelCurrentHandle, first half: take the worker's handle mutex.
CancelLock ==
    /\ \/ mpc = "cmd_lock" /\ mpc' = "cmd_set"
       \/ mpc = "shut_lock" /\ mpc' = "shut_set"
    /\ hmutex[mw] = NULL
    /\ hmutex' = [hmutex EXCEPT ![mw] = Main]
    /\ UNCHANGED <<todo, mw, mid, ready, wpc, ownVars, handleVars,
                   wmutex, h2wmap, cluster>>

\* Second half: set the flag of the handle the pointer names, if any; unlock.
CancelSet ==
    /\ \/ mpc = "cmd_set" /\ NextLoop
       \/ mpc = "shut_set" /\ mpc' = "shut_cancel" /\ UNCHANGED todo
    /\ do_cancel' = [do_cancel EXCEPT ![mw] = @ \/ cur_handle[mw] # "null"]
    /\ hmutex' = [hmutex EXCEPT ![mw] = NULL]
    /\ mw' = NULL /\ mid' = 0
    /\ UNCHANGED <<ready, wpc, ownVars, cur_handle, cur_hid,
                   wmutex, h2wmap, cluster>>

\* ~MainDispatch: cancel every child ...
ShutCancel(w) ==
    /\ mpc = "shut_cancel" /\ w \in todo
    /\ todo' = todo \ {w}
    /\ mw' = w /\ mpc' = "shut_lock"
    /\ UNCHANGED <<mid, ready, wpc, ownVars, handleVars, sharedVars>>

\* ... then collect those that ended ...
ShutCancelDone ==
    /\ mpc = "shut_cancel" /\ todo = {}
    /\ IF children = {}
       THEN mpc' = "shut_close" /\ UNCHANGED todo
       ELSE mpc' = "shut_collect" /\ todo' = children
    /\ UNCHANGED <<mw, mid, ready, wpc, ownVars, handleVars, sharedVars>>

\* Mutant: the children are cancelled only once.
ShutCollectDone_Once ==
    /\ mpc = "shut_collect" /\ todo = {}
    /\ IF children = {} THEN mpc' = "shut_close" ELSE mpc' = "shut_collect"
    /\ todo' = children
    /\ UNCHANGED <<mw, mid, ready, wpc, ownVars, handleVars, sharedVars>>

\* Mutant: the children are cancelled and collected once, then the cluster is closed.
ShutCollectDone_NoLoop ==
    /\ mpc = "shut_collect" /\ todo = {}
    /\ mpc' = "shut_close"
    /\ UNCHANGED <<todo, mw, mid, ready, wpc, ownVars, handleVars, sharedVars>>

\* ... and again, as long as there are children.
ShutCollectDone ==
    /\ mpc = "shut_collect" /\ todo = {}
    /\ mpc' = "shut_cancel" /\ todo' = children
    /\ UNCHANGED <<mw, mid, ready, wpc, ownVars, handleVars, sharedVars>>

\* The cluster is closed and the I/O threads joined; the server object is gone.
ShutClose ==
    /\ mpc = "shut_close" /\ mpc' = "done"
    /\ cluster' = "shut"
    /\ UNCHANGED <<todo, mw, mid, ready, wpc, ownVars, handleVars,
                   hmutex, wmutex, h2wmap>>

-----------------------------------------------------------------------------
(* A worker thread *)

Goto(w, pc) == wpc' = [wpc EXCEPT ![w] = pc]
Answer(w, a) == answer' = [answer EXCEPT ![w] = a]

\* The IDs the harness may put in a NEWHANDLE.  ID 0 is what a message without
\* an ID decodes to, so nothing keeps it from being used twice.
FreeId(h) ==
    h # 0 => \A v \in Workers :
                \/ h \notin {cur_hid[v], hreq[v]}
                \/ h \in EarlyIds /\ ~conn[v]

\* The harness closes a data connection.
HarnessCloses(w) ==
    /\ conn[w]
    /\ conn' = [conn EXCEPT ![w] = FALSE]
    /\ UNCHANGED <<mainVars, wpc, op, answer, hreq, handleVars, sharedVars>>

\* CLOSEHANDLE, or a request that does not decode: processRequest returns false.
CloseHandle(w) ==
    /\ wpc[w] = "select" /\ conn[w]
    /\ Goto(w, "leave")
    /\ conn' = [conn EXCEPT ![w] = FALSE]
    /\ UNCHANGED <<mainVars, op, answer, hreq, handleVars, sharedVars>>

\* The worker reads the end of the stream.
ReadEof(w) ==
    /\ wpc[w] = "select" /\ ~conn[w]
    /\ Goto(w, "leave")
    /\ UNCHANGED <<mainVars, ownVars, handleVars, sharedVars>>

\* NEWHANDLE: refused when the options are bad or there is a handle already.
NewHandle(w, h) ==
    /\ wpc[w] = "select" /\ conn[w] /\ FreeId(h)
    /\ \/ Answer(w, "error") /\ UNCHANGED <<wpc, hreq>>
       \/ /\ cur_handle[w] = "null"
          /\ Goto(w, "ensure") /\ Answer(w, "none")
          /\ hreq' = [hreq EXCEPT ![w] = h]
    /\ UNCHANGED <<mainVars, conn, op, handleVars, sharedVars>>

\* ensureCluster: under wmutex, done if the cluster is open, else open it.
EnsureCluster(w) ==
    /\ wpc[w] = "ensure" /\ wmutex = NULL
    /\ IF cluster = "open"
       THEN Goto(w, "mkhandle") /\ UNCHANGED wmutex
       ELSE Goto(w, "opening") /\ wmutex' = w
    /\ UNCHANGED <<mainVars, ownVars, handleVars, hmutex, h2wmap, cluster>>

\* open and open_bucket succeeded.
OpenOk(w) ==
    /\ wpc[w] = "opening"
    /\ cluster' = "open" /\ wmutex' = NULL
    /\ Goto(w, "mkhandle")
    /\ UNCHANGED <<mainVars, ownVars, handleVars, hmutex, h2wmap>>

\* Mutant: the error path does not unlock.
OpenFails_Locked(w) ==
    /\ wpc[w] = "opening"
    /\ Goto(w, "select") /\ Answer(w, "handle_ok")
    /\ hreq' = [hreq EXCEPT ![w] = 0]
    /\ UNCHANGED <<mainVars, conn, op, handleVars, sharedVars>>

\* One of them failed: only the text of the error is set, its code stays 0, and
\* the response is the one for success.
OpenFails(w) ==
    /\ wpc[w] = "opening"
    /\ wmutex' = NULL
    /\ Goto(w, "select") /\ Answer(w, "handle_ok")
    /\ hreq' = [hreq EXCEPT ![w] = 0]
    /\ UNCHANGED <<mainVars, conn, op, handleVars, hmutex, h2wmap, cluster>>

\* The handle is created and published in cur_handle (no lock); do_cancel is
\* not initialised by its constructor.
MakeHandle(w) ==
    /\ wpc[w] = "mkhandle"
    /\ cur_handle' = [cur_handle EXCEPT ![w] = "live"]
    /\ \E b \in BOOLEAN : do_cancel' = [do_cancel EXCEPT ![w] = b]
    /\ cur_hid' = [cur_hid EXCEPT ![w] = hreq[w]]
    /\ hreq' = [hreq EXCEPT ![w] = 0]
    /\ Goto(w, "reg_lock")
    /\ UNCHANGED <<mainVars, conn, op, answer, sharedVars>>

\* registerWDHandle and unregisterWDHandle take wmutex.
LockMap(w) ==
    /\ wmutex = NULL
    /\ \/ wpc[w] = "reg_lock" /\ Goto(w, "reg")
       \/ wpc[w] = "unreg_lock" /\ Goto(w, "unreg")
    /\ wmutex' = w
    /\ UNCHANGED <<mainVars, ownVars, handleVars, hmutex, h2wmap, cluster>>

RegisterWDHandle(w) ==
    /\ wpc[w] = "reg"
    /\ h2wmap' = [h2wmap EXCEPT ![cur_hid[w]] = w]
    /\ wmutex' = NULL
    /\ Goto(w, "collections")
    /\ UNCHANGED <<mainVars, ownVars, handleVars, hmutex, cluster>>

\* generateCollections (its outcome is only logged), then the response.
GenerateCollections(w) ==
    /\ wpc[w] = "collections"
    /\ Goto(w, "select") /\ Answer(w, "handle_ok")
    /\ UNCHANGED <<mainVars, conn, op, hreq, handleVars, sharedVars>>

\* An operation is asked for: refused without a handle or with a bad or
\* unknown dataset, or started.
Request(w, o) ==
    /\ wpc[w] = "select" /\ conn[w]
    /\ \/ Answer(w, "error") /\ UNCHANGED <<wpc, op>>
       \/ /\ cur_handle[w] # "null" /\ o # "no_dataset"
          /\ Goto(w, "op_start") /\ Answer(w, "none")
          /\ op' = [op EXCEPT ![w] = o]
    /\ UNCHANGED <<mainVars, conn, hreq, handleVars, sharedVars>>

\* A request whose dataset cannot be told: abort().  The process is gone, with
\* every thread and every connection.
AbortOnBadDataset(w) ==
    /\ "no_dataset" \in Ops
    /\ wpc[w] = "select" /\ conn[w] /\ cur_handle[w] # "null"
    /\ mpc' = "aborted" /\ todo' = {} /\ mw' = NULL /\ mid' = 0
    /\ wpc' = [v \in Workers |-> "none"]
    /\ conn' = [v \in Workers |-> FALSE]
    /\ h2wmap' = [h \in Ids |-> NULL]
    /\ hmutex' = [v \in Workers |-> NULL] /\ wmutex' = NULL
    /\ UNCHANGED <<ready, op, answer, hreq, handleVars, cluster>>

\* Mutant: the flag is cleared for all of them when the request is dispatched.
OpStart_ResetsAll(w) ==
    /\ wpc[w] = "op_start"
    /\ do_cancel' = [do_cancel EXCEPT ![w] = FALSE]
    /\ Goto(w, "op_loop")
    /\ UNCHANGED <<mainVars, ownVars, cur_handle, cur_hid, sharedVars>>

\* The operation begins; most of them forget an earlier cancel.
OpStart(w) ==
    /\ wpc[w] = "op_start"
    /\ do_cancel' = [do_cancel EXCEPT ![w] = @ /\ op[w] \notin Resetting]
    /\ Goto(w, "op_loop")
    /\ UNCHANGED <<mainVars, ownVars, cur_handle, cur_hid, sharedVars>>

\* Mutant: the flag is reset before each batch and not once per operation.
OpEnd_ResetsFlag(w) ==
    /\ wpc[w] = "op_loop" /\ do_cancel[w]
    /\ do_cancel' = [do_cancel EXCEPT ![w] = FALSE]
    /\ UNCHANGED <<mainVars, wpc, ownVars, cur_handle, cur_hid, sharedVars>>

\* It ends, cancelled or exhausted, and its results are sent.
OpEnd(w) ==
    /\ wpc[w] = "op_loop"
    /\ \/ op[w] \in Checking /\ do_cancel[w]
       \/ op[w] \notin Endless
    /\ Goto(w, "select") /\ Answer(w, "ok")
    /\ op' = [op EXCEPT ![w] = "none"]
    /\ UNCHANGED <<mainVars, conn, hreq, handleVars, sharedVars>>

\* The same of a loader whose batch has failed.
LoadFails(w) ==
    /\ wpc[w] = "op_loop" /\ op[w] \in Fragile
    /\ Goto(w, "select") /\ Answer(w, "ok")
    /\ op' = [op EXCEPT ![w] = "none"]
    /\ UNCHANGED <<mainVars, conn, hreq, handleVars, sharedVars>>

\* Mutant: the worker does not unregister.
LeaveLoop_StaysRegistered(w) ==
    /\ wpc[w] = "leave"
    /\ Goto(w, "fin_lock")
    /\ UNCHANGED <<mainVars, ownVars, handleVars, sharedVars>>

\* The select loop is over: flush, then unregister if there is an ID.
LeaveLoop(w) ==
    /\ wpc[w] = "leave"
    /\ Goto(w, IF cur_hid[w] # 0 THEN "unreg_lock" ELSE "fin_lock")
    /\ UNCHANGED <<mainVars, ownVars, handleVars, sharedVars>>

\* Mutant: the ID is cleared first, so that another entry is erased.
UnregisterWDHandle_ClearsFirst(w) ==
    /\ wpc[w] = "unreg"
    /\ h2wmap' = [h2wmap EXCEPT ![0] = NULL]
    /\ wmutex' = NULL
    /\ cur_hid' = [cur_hid EXCEPT ![w] = 0]
    /\ Goto(w, "fin_lock")
    /\ UNCHANGED <<mainVars, ownVars, cur_handle, do_cancel, hmutex, cluster>>

UnregisterWDHandle(w) ==
    /\ wpc[w] = "unreg"
    /\ h2wmap' = [h2wmap EXCEPT ![cur_hid[w]] = NULL]
    /\ wmutex' = NULL
    /\ cur_hid' = [cur_hid EXCEPT ![w] = 0]
    /\ Goto(w, "fin_lock")
    /\ UNCHANGED <<mainVars, ownVars, cur_handle, do_cancel, hmutex, cluster>>

\* Mutant: the handle is deleted without its mutex.
FinLock_Unlocked(w) ==
    /\ wpc[w] = "fin_lock"
    /\ Goto(w, "fin_delete")
    /\ UNCHANGED <<mainVars, ownVars, handleVars, sharedVars>>

FinLock(w) ==
    /\ wpc[w] = "fin_lock" /\ hmutex[w] = NULL
    /\ hmutex' = [hmutex EXCEPT ![w] = w]
    /\ Goto(w, "fin_delete")
    /\ UNCHANGED <<mainVars, ownVars, handleVars, wmutex, h2wmap, cluster>>

\* cancelCurrent and delete: the pointer dangles until the next statement.
FinDelete(w) ==
    /\ wpc[w] = "fin_delete"
    /\ cur_handle' = [cur_handle EXCEPT ![w] = IF @ = "null" THEN "null" ELSE "dangling"]
    /\ do_cancel' = [do_cancel EXCEPT ![w] = @ \/ cur_handle[w] # "null"]
    /\ Goto(w, "fin_null")
    /\ UNCHANGED <<mainVars, ownVars, cur_hid, sharedVars>>

\* The pointer is cleared, the mutex released, and the thread ends.
FinNull(w) ==
    /\ wpc[w] = "fin_null"
    /\ cur_handle' = [cur_handle EXCEPT ![w] = "null"]
    /\ hmutex' = [hmutex EXCEPT ![w] = NULL]
    /\ Goto(w, "exited")
    /\ UNCHANGED <<mainVars, ownVars, do_cancel, cur_hid, wmutex, h2wmap, cluster>>

-----------------------------------------------------------------------------
\* What the control thread does by itself ...
MainStep ==
    \/ CollectDone \/ SelectDone \/ AcceptFails
    \/ Goodbye \/ OtherCommand \/ CancelLock \/ CancelSet
    \/ ShutCancelDone \/ ShutCollectDone \/ ShutClose
    \/ \E w \in Workers : CollectOne(w) \/ Accept(w) \/ ShutCancel(w)
    \/ \E h \in Ids : CancelLookup(h)

\* ... and what it does when its select() returns.
MainWakes ==
    \E r \in {{}, {"accept"}, {"control"}, {"accept", "control"}, {"error"}} : Select(r)

\* What a worker thread does by itself ...
WorkerStep(w) ==
    \/ ReadEof(w) \/ EnsureCluster(w) \/ OpenOk(w) \/ OpenFails(w)
    \/ MakeHandle(w) \/ LockMap(w) \/ RegisterWDHandle(w) \/ GenerateCollections(w)
    \/ OpStart(w) \/ OpEnd(w) \/ LeaveLoop(w) \/ UnregisterWDHandle(w)
    \/ FinLock(w) \/ FinDelete(w) \/ FinNull(w)

\* ... and what the harness makes it do.
HarnessStep(w) ==
    \/ HarnessCloses(w) \/ CloseHandle(w) \/ AbortOnBadDataset(w)
    \/ \E h \in HandleIds : NewHandle(w, h)
    \/ \E o \in Ops : Request(w, o)

\* What the cluster makes it do.
ClusterStep(w) == LoadFails(w)

\* The process has ended.
Ended ==
    /\ mpc \in {"aborted", "done"}
    /\ UNCHANGED vars

Next ==
    \/ MainStep \/ MainWakes
    \/ \E w \in Workers : WorkerStep(w) \/ HarnessStep(w) \/ ClusterStep(w)
    \/ Ended

Spec == Init /\ [][Next]_vars

\* Threads run, the calls of the client library return, and a mutex that is free
\* again and again is eventually obtained.  Nothing is assumed of the harness, nor that a
\* request to the cluster fails.
Fairness ==
    /\ WF_vars(MainStep)
    /\ SF_vars(CancelLock)
    /\ \A w \in Workers :
          /\ WF_vars(WorkerStep(w))
          /\ SF_vars(LockMap(w) \/ EnsureCluster(w))
          /\ SF_vars(FinLock(w))

FairSpec == Spec /\ Fairness

-----------------------------------------------------------------------------
(* Properties *)

\* Every variable has its type (the domains the code's fields range over).
TypeOK ==
    /\ mpc \in MainPcs /\ todo \subseteq Workers
    /\ mw \in (IF mpc \in CancelPcs THEN Workers ELSE {NULL}) /\ mid \in Ids
    /\ ready \subseteq {"accept", "control", "error"}
    /\ wpc \in [Workers -> WorkerPcs]
    /\ conn \in [Workers -> BOOLEAN]
    /\ cur_handle \in [Workers -> {"null", "live", "dangling"}]
    /\ cur_hid \in [Workers -> Ids]
    /\ hreq \in [Workers -> Ids]
    /\ do_cancel \in [Workers -> BOOLEAN]
    /\ op \in [Workers -> Ops \cup {"none"}]
    /\ answer \in [Workers -> {"none", "ok", "error", "handle_ok"}]
    /\ hmutex \in [Workers -> Workers \cup {Main, NULL}]
    /\ wmutex \in Workers \cup {NULL}
    /\ h2wmap \in [Ids -> Workers \cup {NULL}]
    /\ cluster \in {"closed", "open", "shut"}

\* An entry of h2wmap under a real ID names a worker that has that ID and has not
\* begun to unregister: registerWDHandle, unregisterWDHandle and the two deletions
\* (of the handle by its thread, of the worker by _collect_workers) keep the map
\* free of dangling pointers, even when two connections are given the same ID.
MapEntryLive ==
    \A h \in Ids \ {0} :
        h2wmap[h] # NULL => /\ cur_hid[h2wmap[h]] = h
                            /\ wpc[h2wmap[h]] \in Registered

\* The same of every key, the 0 of a NEWHANDLE without an ID included: what the
\* declaration of h2wmap says of it.
MapEntryLiveAll ==
    \A h \in Ids :
        h2wmap[h] # NULL => /\ cur_hid[h2wmap[h]] = h
                            /\ wpc[h2wmap[h]] \in Registered

\* From the lookup of a CANCEL to the unlock, the worker the control thread holds
\* a pointer to has not been deleted, and it is the one with that ID (or it has
\* just unregistered): a CANCEL never stops another connection's operation.
CancelTargetsItsHandle ==
    mpc \in {"cmd_lock", "cmd_set"} /\ mid # 0 =>
        /\ wpc[mw] \in WorkerPcs \ ({"none"} \cup Creating)
        /\ cur_hid[mw] \in {mid, 0}

\* Whenever the control thread looks at a worker's cur_handle (cancelCurrentHandle,
\* of a CANCEL or of ~MainDispatch), the pointer is NULL or names a handle that
\* exists: it is never the one the worker has deleted and not yet cleared.
NoDeadHandleUsed ==
    \A w \in Workers : hmutex[w] = Main => cur_handle[w] # "dangling"

\* A handle is destroyed by the thread that created it, holding its mutex, and not
\* with the worker object by the control thread (the comment at Worker.cpp:397).
DestroyedByItsThread ==
    [][\A w \in Workers :
          cur_handle[w] = "live" /\ cur_handle'[w] # "live" =>
              wpc[w] = "fin_delete" /\ hmutex[w] = w]_vars

\* A worker that has registered under a real ID is the one a CANCEL of that ID
\* finds, until it unregisters, unless the harness has been too early with the ID (a
\* late unregister then erases the new connection's entry).
OpenHandleFound ==
    \A w \in Workers :
        wpc[w] \in Registered /\ cur_hid[w] \notin EarlyIds \cup {0} => h2wmap[cur_hid[w]] = w

\* The one cluster object is opened by one thread at a time, never again once it
\* is open, and it is closed only when no worker is left to use it or to be found
\* in the map (ensureCluster, ~MainDispatch).
ClusterOutlivesWorkers ==
    /\ \A w, v \in Workers : wpc[w] = "opening" /\ wpc[v] = "opening" => w = v
    /\ \A w \in Workers : wpc[w] = "opening" => cluster = "closed"
    /\ \A w \in Workers : wpc[w] # "none" /\ cur_handle[w] = "live" => cluster = "open"
    /\ cluster = "shut" => children = {} /\ \A h \in Ids \ {0} : h2wmap[h] = NULL

\* The response for success to a NEWHANDLE means that there is a handle.
HandleAnswered ==
    \A w \in Workers :
        wpc[w] = "select" /\ answer[w] = "handle_ok" => cur_handle[w] = "live"

\* A CANCEL that finds a handle in the loop of an operation that looks at the flag
\* ends that operation, however long it would have run.
CancelEndsOp ==
    \A w \in Workers :
        (mpc = "cmd_lock" /\ mw = w /\ wpc[w] = "op_loop" /\ op[w] \in Checking)
            ~> (mpc = "aborted" \/ wpc[w] = "select")

\* A CANCEL that finds an operation anywhere between its request and its response
\* ends it: what Handle.h says of cancelCurrent.
CancelEndsAnyOp ==
    \A w \in Workers :
        (mpc = "cmd_set" /\ mw = w /\ wpc[w] \in {"op_start", "op_loop"} /\ op[w] \in Checking)
            ~> (mpc = "aborted" \/ wpc[w] = "select")

\* A NEWHANDLE is answered, whoever else is inside ensureCluster or the map.
NewHandleAnswered ==
    \A w \in Workers : (wpc[w] = "ensure") ~> (mpc = "aborted" \/ wpc[w] = "select")

\* What may end the loop of an operation.
Endings(o) ==
    (IF o \in Checking THEN {"cancel"} ELSE {})
        \cup (IF o \in Endless THEN {} ELSE {"exhausted"})
        \cup (IF o \in Fragile THEN {"failure"} ELSE {})

Loop(w) == INSTANCE OpLoop WITH
    op <- IF wpc[w] = "op_loop"
          THEN [resets |-> op[w] \in Resetting, ends |-> Endings(op[w])]
          ELSE [resets |-> FALSE, ends |-> {}],
    flag <- do_cancel[w], gone <- mpc = "aborted"

\* The operation loop of each worker is one of OpLoop, which HandleOps implements
\* operation by operation: whoever sets the flag meanwhile, and however connections,
\* handles and the process end, a running loop never loses a cancel, and what is due to
\* end ends.
\* (The conjuncts of Loop(w)!Spec, each for all workers.)
LoopsSafe ==
    /\ \A w \in Workers : Loop(w)!Init
    /\ [][\A w \in Workers : [Loop(w)!Next]_(Loop(w)!vars)]_vars

LoopsEnd == LoopsSafe /\ \A w \in Workers : Loop(w)!Progress

\* Once the control session is over and the harness has closed its connections,
\* the server is torn down, though operations may be running or about to start:
\* ~MainDispatch cancels in each round, so a flag that was reset is set again.
ShutdownCompletes ==
    (mpc = "shut_cancel" /\ \A w \in Workers : ~conn[w] /\ op[w] \notin Endless \ Checking)
        ~> mpc \in {"aborted", "done"}
=============================================================================
