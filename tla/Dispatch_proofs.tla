-------------------------- MODULE Dispatch_proofs ---------------------------
(***************************************************************************)
(* Proofs about Dispatch: for any number of connections and of handle IDs, *)
(* no interleaving of the control thread and the workers reaches a deleted *)
(* worker or a deleted handle.                                             *)
(*                                                                         *)
(* The inductive invariant IInv adds to the properties what they rest on:  *)
(* who holds which mutex where (LockInv), that an ID is only kept by a     *)
(* worker that has its handle (HandleInv), that the worker of a CANCEL in  *)
(* progress is still registered or past its unregister (CancelInv), and    *)
(* that the cluster is opened before a handle is made and closed after the *)
(* last worker is gone (ClusterInv).                                       *)
(***************************************************************************)
EXTENDS Dispatch, TLAPS

\* Past unregisterWDHandle, up to the end of the thread.
Unregistered == {"fin_lock", "fin_delete", "fin_null", "exited"}

LockInv ==
    /\ \A w \in Workers : wmutex = w <=> wpc[w] \in {"opening", "reg", "unreg"}
    /\ \A w \in Workers : hmutex[w] \in {w, Main, NULL}
    /\ \A w \in Workers : hmutex[w] = w <=> wpc[w] \in {"fin_delete", "fin_null"}
    /\ \A w \in Workers : hmutex[w] = Main <=> mw = w /\ mpc \in {"cmd_set", "shut_set"}

HandleInv ==
    /\ \A w \in Workers : cur_hid[w] # 0 => cur_handle[w] = "live"
    /\ \A w \in Workers : wpc[w] \in Unregistered => cur_hid[w] = 0
    /\ \A w \in Workers : wpc[w] \in {"fin_null", "exited"} => cur_handle[w] # "live"
    /\ \A w \in Workers : cur_handle[w] = "dangling" => wpc[w] = "fin_null" \/ mpc = "aborted"

CancelInv ==
    mpc \in {"cmd_lock", "cmd_set"} /\ mid # 0 =>
        \/ wpc[mw] \in Registered /\ cur_hid[mw] = mid
        \/ wpc[mw] \in Unregistered

ClusterInv ==
    /\ \A w \in Workers : wpc[w] = "opening" => cluster = "closed"
    /\ \A w \in Workers : wpc[w] = "mkhandle" => cluster = "open"
    /\ \A w \in Workers : mpc # "aborted" /\ wpc[w] = "none" => cur_handle[w] = "null"
    /\ \A w \in Workers : wpc[w] # "none" /\ cur_handle[w] = "live" => cluster = "open"
    /\ mpc \in {"shut_close", "done"} => \A w \in Workers : wpc[w] = "none"
    /\ cluster = "shut" => mpc = "done"

\* The IDs that the harness does not use too early are distinct.
IdInv ==
    /\ \A v, w \in Workers : v # w =>
          /\ cur_hid[v] \notin EarlyIds \cup {0} =>
                cur_hid[w] # cur_hid[v] /\ hreq[w] # cur_hid[v]
          /\ hreq[v] \notin EarlyIds \cup {0} => hreq[w] # hreq[v]
    /\ \A w \in Workers : wpc[w] \in {"ensure", "opening", "mkhandle"} => cur_handle[w] = "null"

IInv == TypeOK /\ LockInv /\ HandleInv /\ MapEntryLive /\ CancelInv /\ ClusterInv
-----------------------------------------------------------------------------
(* Types *)

\* The daemon starts with every variable in its type.
LEMMA TypeInit == Init => TypeOK
  BY DispatchAssumption DEF Init, TypeOK, Ids, WorkerPcs, MainPcs, Scanning, CancelPcs, ShutPcs

\* Every step keeps the types.
LEMMA TypeStep == TypeOK /\ [Next]_vars => TypeOK'
<1>. SUFFICES ASSUME TypeOK, [Next]_vars PROVE TypeOK'
  OBVIOUS
<1>. USE DispatchAssumption DEF TypeOK, Ids, WorkerPcs, Registered, Creating, MainPcs,
         Scanning, CancelPcs, ShutPcs, OpKinds, Resetting, children, Goto,
         vars, mainVars, ownVars, handleVars, sharedVars
<1>1. CASE CollectDone
  BY <1>1 DEF CollectDone
<1>2. CASE SelectDone
  BY <1>2 DEF SelectDone, Leave, NextLoop
<1>3. CASE AcceptFails
  BY <1>3 DEF AcceptFails, Leave
<1>4. CASE Goodbye
  BY <1>4 DEF Goodbye, Leave
<1>5. CASE OtherCommand
  BY <1>5 DEF OtherCommand, NextLoop
<1>6. CASE CancelLock
  BY <1>6 DEF CancelLock
<1>7. CASE CancelSet
  BY <1>7 DEF CancelSet, NextLoop
<1>8. CASE ShutCancelDone
  BY <1>8 DEF ShutCancelDone
<1>9. CASE ShutCollectDone
  BY <1>9 DEF ShutCollectDone
<1>10. CASE ShutClose
  BY <1>10 DEF ShutClose
<1>11. CASE MainWakes
  BY <1>11 DEF MainWakes, Select
<1>12. ASSUME NEW h \in Ids, CancelLookup(h) PROVE TypeOK'
  BY <1>12 DEF CancelLookup, Lookup, NextLoop
<1>13. ASSUME NEW w \in Workers, CollectOne(w) PROVE TypeOK'
  <2>1. CASE wpc[w] = "exited"
    <3>1. /\ wpc' \in [Workers -> WorkerPcs] /\ answer' \in [Workers -> {"none", "ok", "error", "handle_ok"}]
          /\ cur_handle' \in [Workers -> {"null", "live", "dangling"}]
      BY <1>13, <2>1 DEF CollectOne
    <3>2. /\ conn' \in [Workers -> BOOLEAN] /\ do_cancel' \in [Workers -> BOOLEAN]
          /\ cur_hid' \in [Workers -> Ids]
      BY <1>13, <2>1 DEF CollectOne
    <3>3. todo' \subseteq Workers
      BY <1>13 DEF CollectOne
    <3>. QED BY <1>13, <3>1, <3>2, <3>3 DEF CollectOne
  <2>2. CASE wpc[w] # "exited"
    BY <1>13, <2>2 DEF CollectOne
  <2>. QED BY <2>1, <2>2
<1>14. ASSUME NEW w \in Workers, Accept(w) PROVE TypeOK'
  BY <1>14 DEF Accept
<1>15. ASSUME NEW w \in Workers, ShutCancel(w) PROVE TypeOK'
  BY <1>15 DEF ShutCancel
<1>16. ASSUME NEW w \in Workers, ReadEof(w) PROVE TypeOK'
  BY <1>16 DEF ReadEof
<1>17. ASSUME NEW w \in Workers, EnsureCluster(w) PROVE TypeOK'
  BY <1>17 DEF EnsureCluster
<1>18. ASSUME NEW w \in Workers, OpenOk(w) PROVE TypeOK'
  BY <1>18 DEF OpenOk
<1>19. ASSUME NEW w \in Workers, OpenFails(w) PROVE TypeOK'
  BY <1>19 DEF OpenFails, Answer
<1>20. ASSUME NEW w \in Workers, MakeHandle(w) PROVE TypeOK'
  BY <1>20 DEF MakeHandle
<1>21. ASSUME NEW w \in Workers, LockMap(w) PROVE TypeOK'
  BY <1>21 DEF LockMap
<1>22. ASSUME NEW w \in Workers, RegisterWDHandle(w) PROVE TypeOK'
  BY <1>22 DEF RegisterWDHandle
<1>23. ASSUME NEW w \in Workers, GenerateCollections(w) PROVE TypeOK'
  BY <1>23 DEF GenerateCollections, Answer
<1>24. ASSUME NEW w \in Workers, OpStart(w) PROVE TypeOK'
  BY <1>24 DEF OpStart
<1>25. ASSUME NEW w \in Workers, OpEnd(w) PROVE TypeOK'
  BY <1>25 DEF OpEnd, Answer
<1>26. ASSUME NEW w \in Workers, LeaveLoop(w) PROVE TypeOK'
  BY <1>26 DEF LeaveLoop
<1>27. ASSUME NEW w \in Workers, UnregisterWDHandle(w) PROVE TypeOK'
  BY <1>27 DEF UnregisterWDHandle
<1>28. ASSUME NEW w \in Workers, FinLock(w) PROVE TypeOK'
  BY <1>28 DEF FinLock
<1>29. ASSUME NEW w \in Workers, FinDelete(w) PROVE TypeOK'
  BY <1>29 DEF FinDelete
<1>30. ASSUME NEW w \in Workers, FinNull(w) PROVE TypeOK'
  BY <1>30 DEF FinNull
<1>31. ASSUME NEW w \in Workers, HarnessCloses(w) PROVE TypeOK'
  BY <1>31 DEF HarnessCloses
<1>32. ASSUME NEW w \in Workers, CloseHandle(w) PROVE TypeOK'
  BY <1>32 DEF CloseHandle
<1>33. ASSUME NEW w \in Workers, AbortOnBadDataset(w) PROVE TypeOK'
  BY <1>33 DEF AbortOnBadDataset
<1>34. ASSUME NEW w \in Workers, NEW h \in HandleIds, NewHandle(w, h) PROVE TypeOK'
  BY <1>34 DEF NewHandle, Answer
<1>35. ASSUME NEW w \in Workers, NEW o \in Ops, Request(w, o) PROVE TypeOK'
  BY <1>35 DEF Request, Answer
<1>36. CASE UNCHANGED vars
  BY <1>36
<1>37. ASSUME NEW w \in Workers, LoadFails(w) PROVE TypeOK'
  BY <1>37 DEF LoadFails, Answer
<1>. QED
  BY <1>1, <1>2, <1>3, <1>4, <1>5, <1>6, <1>7, <1>8, <1>9, <1>10, <1>11, <1>12, <1>13, <1>14, <1>15, <1>16, <1>17, <1>18, <1>19, <1>20, <1>21, <1>22, <1>23, <1>24, <1>25, <1>26, <1>27, <1>28, <1>29, <1>30, <1>31, <1>32, <1>33, <1>34, <1>35, <1>36, <1>37 DEF Next, MainStep, WorkerStep, HarnessStep, ClusterStep, Ended
-----------------------------------------------------------------------------
(* The parts of the inductive invariant *)

\* Who holds which mutex.
LEMMA LockStep == TypeOK /\ LockInv /\ [Next]_vars => LockInv'
<1>. SUFFICES ASSUME TypeOK, LockInv, [Next]_vars PROVE LockInv'
  OBVIOUS
<1>. USE DispatchAssumption DEF LockInv, vars, mainVars, ownVars, handleVars, sharedVars, Goto, TypeOK, Ids, WorkerPcs, Registered, Creating,
         MainPcs, Scanning, CancelPcs, ShutPcs, children
<1>1. CASE CollectDone
  BY <1>1 DEF CollectDone
<1>2. CASE SelectDone
  BY <1>2 DEF SelectDone, Leave, NextLoop
<1>3. CASE AcceptFails
  BY <1>3 DEF AcceptFails, Leave
<1>4. CASE Goodbye
  BY <1>4 DEF Goodbye, Leave
<1>5. CASE OtherCommand
  BY <1>5 DEF OtherCommand, NextLoop
<1>6. CASE CancelLock
  BY <1>6 DEF CancelLock
<1>7. CASE CancelSet
  BY <1>7 DEF CancelSet, NextLoop
<1>8. CASE ShutCancelDone
  BY <1>8 DEF ShutCancelDone
<1>9. CASE ShutCollectDone
  BY <1>9 DEF ShutCollectDone
<1>10. CASE ShutClose
  BY <1>10 DEF ShutClose
<1>11. CASE MainWakes
  BY <1>11 DEF MainWakes, Select
<1>12. ASSUME NEW h \in Ids, CancelLookup(h) PROVE LockInv'
  BY <1>12 DEF CancelLookup, Lookup, NextLoop
<1>13. ASSUME NEW w \in Workers, CollectOne(w) PROVE LockInv'
  BY <1>13 DEF CollectOne
<1>14. ASSUME NEW w \in Workers, Accept(w) PROVE LockInv'
  BY <1>14 DEF Accept
<1>15. ASSUME NEW w \in Workers, ShutCancel(w) PROVE LockInv'
  BY <1>15 DEF ShutCancel
<1>16. ASSUME NEW w \in Workers, ReadEof(w) PROVE LockInv'
  BY <1>16 DEF ReadEof
<1>17. ASSUME NEW w \in Workers, EnsureCluster(w) PROVE LockInv'
  BY <1>17 DEF EnsureCluster
<1>18. ASSUME NEW w \in Workers, OpenOk(w) PROVE LockInv'
  BY <1>18 DEF OpenOk
<1>19. ASSUME NEW w \in Workers, OpenFails(w) PROVE LockInv'
  BY <1>19 DEF OpenFails, Answer
<1>20. ASSUME NEW w \in Workers, MakeHandle(w) PROVE LockInv'
  BY <1>20 DEF MakeHandle
<1>21. ASSUME NEW w \in Workers, LockMap(w) PROVE LockInv'
  BY <1>21 DEF LockMap
<1>22. ASSUME NEW w \in Workers, RegisterWDHandle(w) PROVE LockInv'
  BY <1>22 DEF RegisterWDHandle
<1>23. ASSUME NEW w \in Workers, GenerateCollections(w) PROVE LockInv'
  BY <1>23 DEF GenerateCollections, Answer
<1>24. ASSUME NEW w \in Workers, OpStart(w) PROVE LockInv'
  BY <1>24 DEF OpStart
<1>25. ASSUME NEW w \in Workers, OpEnd(w) PROVE LockInv'
  BY <1>25 DEF OpEnd, Answer
<1>26. ASSUME NEW w \in Workers, LeaveLoop(w) PROVE LockInv'
  BY <1>26 DEF LeaveLoop
<1>27. ASSUME NEW w \in Workers, UnregisterWDHandle(w) PROVE LockInv'
  BY <1>27 DEF UnregisterWDHandle
<1>28. ASSUME NEW w \in Workers, FinLock(w) PROVE LockInv'
  BY <1>28 DEF FinLock
<1>29. ASSUME NEW w \in Workers, FinDelete(w) PROVE LockInv'
  BY <1>29 DEF FinDelete
<1>30. ASSUME NEW w \in Workers, FinNull(w) PROVE LockInv'
  BY <1>30 DEF FinNull
<1>31. ASSUME NEW w \in Workers, HarnessCloses(w) PROVE LockInv'
  BY <1>31 DEF HarnessCloses
<1>32. ASSUME NEW w \in Workers, CloseHandle(w) PROVE LockInv'
  BY <1>32 DEF CloseHandle
<1>33. ASSUME NEW w \in Workers, AbortOnBadDataset(w) PROVE LockInv'
  BY <1>33 DEF AbortOnBadDataset
<1>34. ASSUME NEW w \in Workers, NEW h \in HandleIds, NewHandle(w, h) PROVE LockInv'
  BY <1>34 DEF NewHandle, Answer
<1>35. ASSUME NEW w \in Workers, NEW o \in Ops, Request(w, o) PROVE LockInv'
  BY <1>35 DEF Request, Answer
<1>36. CASE UNCHANGED vars
  BY <1>36
<1>37. ASSUME NEW w \in Workers, LoadFails(w) PROVE LockInv'
  BY <1>37 DEF LoadFails, Answer
<1>. QED
  BY <1>1, <1>2, <1>3, <1>4, <1>5, <1>6, <1>7, <1>8, <1>9, <1>10, <1>11, <1>12, <1>13, <1>14, <1>15, <1>16, <1>17, <1>18, <1>19, <1>20, <1>21, <1>22, <1>23, <1>24, <1>25, <1>26, <1>27, <1>28, <1>29, <1>30, <1>31, <1>32, <1>33, <1>34, <1>35, <1>36, <1>37 DEF Next, MainStep, WorkerStep, HarnessStep, ClusterStep, Ended

\* What a worker keeps between its phases.
LEMMA HandleStep == TypeOK /\ HandleInv /\ [Next]_vars => HandleInv'
<1>. SUFFICES ASSUME TypeOK, HandleInv, [Next]_vars PROVE HandleInv'
  OBVIOUS
<1>. USE DispatchAssumption DEF HandleInv, Unregistered, vars, mainVars, ownVars, handleVars, sharedVars, Goto, TypeOK, Ids, WorkerPcs, Registered, Creating,
         MainPcs, Scanning, CancelPcs, ShutPcs, children
<1>1. CASE CollectDone
  BY <1>1 DEF CollectDone
<1>2. CASE SelectDone
  BY <1>2 DEF SelectDone, Leave, NextLoop
<1>3. CASE AcceptFails
  BY <1>3 DEF AcceptFails, Leave
<1>4. CASE Goodbye
  BY <1>4 DEF Goodbye, Leave
<1>5. CASE OtherCommand
  BY <1>5 DEF OtherCommand, NextLoop
<1>6. CASE CancelLock
  BY <1>6 DEF CancelLock
<1>7. CASE CancelSet
  BY <1>7 DEF CancelSet, NextLoop
<1>8. CASE ShutCancelDone
  BY <1>8 DEF ShutCancelDone
<1>9. CASE ShutCollectDone
  BY <1>9 DEF ShutCollectDone
<1>10. CASE ShutClose
  BY <1>10 DEF ShutClose
<1>11. CASE MainWakes
  BY <1>11 DEF MainWakes, Select
<1>12. ASSUME NEW h \in Ids, CancelLookup(h) PROVE HandleInv'
  BY <1>12 DEF CancelLookup, Lookup, NextLoop
<1>13. ASSUME NEW w \in Workers, CollectOne(w) PROVE HandleInv'
  BY <1>13 DEF CollectOne
<1>14. ASSUME NEW w \in Workers, Accept(w) PROVE HandleInv'
  BY <1>14 DEF Accept
<1>15. ASSUME NEW w \in Workers, ShutCancel(w) PROVE HandleInv'
  BY <1>15 DEF ShutCancel
<1>16. ASSUME NEW w \in Workers, ReadEof(w) PROVE HandleInv'
  BY <1>16 DEF ReadEof
<1>17. ASSUME NEW w \in Workers, EnsureCluster(w) PROVE HandleInv'
  BY <1>17 DEF EnsureCluster
<1>18. ASSUME NEW w \in Workers, OpenOk(w) PROVE HandleInv'
  BY <1>18 DEF OpenOk
<1>19. ASSUME NEW w \in Workers, OpenFails(w) PROVE HandleInv'
  BY <1>19 DEF OpenFails, Answer
<1>20. ASSUME NEW w \in Workers, MakeHandle(w) PROVE HandleInv'
  BY <1>20 DEF MakeHandle
<1>21. ASSUME NEW w \in Workers, LockMap(w) PROVE HandleInv'
  BY <1>21 DEF LockMap
<1>22. ASSUME NEW w \in Workers, RegisterWDHandle(w) PROVE HandleInv'
  BY <1>22 DEF RegisterWDHandle
<1>23. ASSUME NEW w \in Workers, GenerateCollections(w) PROVE HandleInv'
  BY <1>23 DEF GenerateCollections, Answer
<1>24. ASSUME NEW w \in Workers, OpStart(w) PROVE HandleInv'
  BY <1>24 DEF OpStart
<1>25. ASSUME NEW w \in Workers, OpEnd(w) PROVE HandleInv'
  BY <1>25 DEF OpEnd, Answer
<1>26. ASSUME NEW w \in Workers, LeaveLoop(w) PROVE HandleInv'
  BY <1>26 DEF LeaveLoop
<1>27. ASSUME NEW w \in Workers, UnregisterWDHandle(w) PROVE HandleInv'
  BY <1>27 DEF UnregisterWDHandle
<1>28. ASSUME NEW w \in Workers, FinLock(w) PROVE HandleInv'
  BY <1>28 DEF FinLock
<1>29. ASSUME NEW w \in Workers, FinDelete(w) PROVE HandleInv'
  BY <1>29 DEF FinDelete
<1>30. ASSUME NEW w \in Workers, FinNull(w) PROVE HandleInv'
  BY <1>30 DEF FinNull
<1>31. ASSUME NEW w \in Workers, HarnessCloses(w) PROVE HandleInv'
  BY <1>31 DEF HarnessCloses
<1>32. ASSUME NEW w \in Workers, CloseHandle(w) PROVE HandleInv'
  BY <1>32 DEF CloseHandle
<1>33. ASSUME NEW w \in Workers, AbortOnBadDataset(w) PROVE HandleInv'
  BY <1>33 DEF AbortOnBadDataset
<1>34. ASSUME NEW w \in Workers, NEW h \in HandleIds, NewHandle(w, h) PROVE HandleInv'
  BY <1>34 DEF NewHandle, Answer
<1>35. ASSUME NEW w \in Workers, NEW o \in Ops, Request(w, o) PROVE HandleInv'
  BY <1>35 DEF Request, Answer
<1>36. CASE UNCHANGED vars
  BY <1>36
<1>37. ASSUME NEW w \in Workers, LoadFails(w) PROVE HandleInv'
  BY <1>37 DEF LoadFails, Answer
<1>. QED
  BY <1>1, <1>2, <1>3, <1>4, <1>5, <1>6, <1>7, <1>8, <1>9, <1>10, <1>11, <1>12, <1>13, <1>14, <1>15, <1>16, <1>17, <1>18, <1>19, <1>20, <1>21, <1>22, <1>23, <1>24, <1>25, <1>26, <1>27, <1>28, <1>29, <1>30, <1>31, <1>32, <1>33, <1>34, <1>35, <1>36, <1>37 DEF Next, MainStep, WorkerStep, HarnessStep, ClusterStep, Ended

\* The map never holds a worker past its unregister.
LEMMA MapStep == TypeOK /\ HandleInv /\ MapEntryLive /\ [Next]_vars => MapEntryLive'
<1>. SUFFICES ASSUME TypeOK, HandleInv, MapEntryLive, [Next]_vars PROVE MapEntryLive'
  OBVIOUS
<1>. USE DispatchAssumption DEF HandleInv, Unregistered, MapEntryLive, vars, mainVars, ownVars, handleVars, sharedVars, Goto, TypeOK, Ids, WorkerPcs, Registered, Creating,
         MainPcs, Scanning, CancelPcs, ShutPcs, children
<1>1. CASE CollectDone
  BY <1>1 DEF CollectDone
<1>2. CASE SelectDone
  BY <1>2 DEF SelectDone, Leave, NextLoop
<1>3. CASE AcceptFails
  BY <1>3 DEF AcceptFails, Leave
<1>4. CASE Goodbye
  BY <1>4 DEF Goodbye, Leave
<1>5. CASE OtherCommand
  BY <1>5 DEF OtherCommand, NextLoop
<1>6. CASE CancelLock
  BY <1>6 DEF CancelLock
<1>7. CASE CancelSet
  BY <1>7 DEF CancelSet, NextLoop
<1>8. CASE ShutCancelDone
  BY <1>8 DEF ShutCancelDone
<1>9. CASE ShutCollectDone
  BY <1>9 DEF ShutCollectDone
<1>10. CASE ShutClose
  BY <1>10 DEF ShutClose
<1>11. CASE MainWakes
  BY <1>11 DEF MainWakes, Select
<1>12. ASSUME NEW h \in Ids, CancelLookup(h) PROVE MapEntryLive'
  BY <1>12 DEF CancelLookup, Lookup, NextLoop
<1>13. ASSUME NEW w \in Workers, CollectOne(w) PROVE MapEntryLive'
  BY <1>13 DEF CollectOne
<1>14. ASSUME NEW w \in Workers, Accept(w) PROVE MapEntryLive'
  BY <1>14 DEF Accept
<1>15. ASSUME NEW w \in Workers, ShutCancel(w) PROVE MapEntryLive'
  BY <1>15 DEF ShutCancel
<1>16. ASSUME NEW w \in Workers, ReadEof(w) PROVE MapEntryLive'
  BY <1>16 DEF ReadEof
<1>17. ASSUME NEW w \in Workers, EnsureCluster(w) PROVE MapEntryLive'
  BY <1>17 DEF EnsureCluster
<1>18. ASSUME NEW w \in Workers, OpenOk(w) PROVE MapEntryLive'
  BY <1>18 DEF OpenOk
<1>19. ASSUME NEW w \in Workers, OpenFails(w) PROVE MapEntryLive'
  BY <1>19 DEF OpenFails, Answer
<1>20. ASSUME NEW w \in Workers, MakeHandle(w) PROVE MapEntryLive'
  BY <1>20 DEF MakeHandle
<1>21. ASSUME NEW w \in Workers, LockMap(w) PROVE MapEntryLive'
  BY <1>21 DEF LockMap
<1>22. ASSUME NEW w \in Workers, RegisterWDHandle(w) PROVE MapEntryLive'
  BY <1>22 DEF RegisterWDHandle
<1>23. ASSUME NEW w \in Workers, GenerateCollections(w) PROVE MapEntryLive'
  BY <1>23 DEF GenerateCollections, Answer
<1>24. ASSUME NEW w \in Workers, OpStart(w) PROVE MapEntryLive'
  BY <1>24 DEF OpStart
<1>25. ASSUME NEW w \in Workers, OpEnd(w) PROVE MapEntryLive'
  BY <1>25 DEF OpEnd, Answer
<1>26. ASSUME NEW w \in Workers, LeaveLoop(w) PROVE MapEntryLive'
  BY <1>26 DEF LeaveLoop
<1>27. ASSUME NEW w \in Workers, UnregisterWDHandle(w) PROVE MapEntryLive'
  BY <1>27 DEF UnregisterWDHandle
<1>28. ASSUME NEW w \in Workers, FinLock(w) PROVE MapEntryLive'
  BY <1>28 DEF FinLock
<1>29. ASSUME NEW w \in Workers, FinDelete(w) PROVE MapEntryLive'
  BY <1>29 DEF FinDelete
<1>30. ASSUME NEW w \in Workers, FinNull(w) PROVE MapEntryLive'
  BY <1>30 DEF FinNull
<1>31. ASSUME NEW w \in Workers, HarnessCloses(w) PROVE MapEntryLive'
  BY <1>31 DEF HarnessCloses
<1>32. ASSUME NEW w \in Workers, CloseHandle(w) PROVE MapEntryLive'
  BY <1>32 DEF CloseHandle
<1>33. ASSUME NEW w \in Workers, AbortOnBadDataset(w) PROVE MapEntryLive'
  BY <1>33 DEF AbortOnBadDataset
<1>34. ASSUME NEW w \in Workers, NEW h \in HandleIds, NewHandle(w, h) PROVE MapEntryLive'
  BY <1>34 DEF NewHandle, Answer
<1>35. ASSUME NEW w \in Workers, NEW o \in Ops, Request(w, o) PROVE MapEntryLive'
  BY <1>35 DEF Request, Answer
<1>36. CASE UNCHANGED vars
  BY <1>36
<1>37. ASSUME NEW w \in Workers, LoadFails(w) PROVE MapEntryLive'
  BY <1>37 DEF LoadFails, Answer
<1>. QED
  BY <1>1, <1>2, <1>3, <1>4, <1>5, <1>6, <1>7, <1>8, <1>9, <1>10, <1>11, <1>12, <1>13, <1>14, <1>15, <1>16, <1>17, <1>18, <1>19, <1>20, <1>21, <1>22, <1>23, <1>24, <1>25, <1>26, <1>27, <1>28, <1>29, <1>30, <1>31, <1>32, <1>33, <1>34, <1>35, <1>36, <1>37 DEF Next, MainStep, WorkerStep, HarnessStep, ClusterStep, Ended

\* The control thread's pointer stays good.
LEMMA CancelStep == TypeOK /\ HandleInv /\ MapEntryLive /\ CancelInv /\ [Next]_vars => CancelInv'
<1>. SUFFICES ASSUME TypeOK, HandleInv, MapEntryLive, CancelInv, [Next]_vars PROVE CancelInv'
  OBVIOUS
<1>. USE DispatchAssumption DEF HandleInv, Unregistered, MapEntryLive, CancelInv, vars, mainVars, ownVars, handleVars, sharedVars, Goto, TypeOK, Ids, WorkerPcs, Registered, Creating,
         MainPcs, Scanning, CancelPcs, ShutPcs, children
<1>1. CASE CollectDone
  BY <1>1 DEF CollectDone
<1>2. CASE SelectDone
  BY <1>2 DEF SelectDone, Leave, NextLoop
<1>3. CASE AcceptFails
  BY <1>3 DEF AcceptFails, Leave
<1>4. CASE Goodbye
  BY <1>4 DEF Goodbye, Leave
<1>5. CASE OtherCommand
  BY <1>5 DEF OtherCommand, NextLoop
<1>6. CASE CancelLock
  BY <1>6 DEF CancelLock
<1>7. CASE CancelSet
  BY <1>7 DEF CancelSet, NextLoop
<1>8. CASE ShutCancelDone
  BY <1>8 DEF ShutCancelDone
<1>9. CASE ShutCollectDone
  BY <1>9 DEF ShutCollectDone
<1>10. CASE ShutClose
  BY <1>10 DEF ShutClose
<1>11. CASE MainWakes
  BY <1>11 DEF MainWakes, Select
<1>12. ASSUME NEW h \in Ids, CancelLookup(h) PROVE CancelInv'
  BY <1>12 DEF CancelLookup, Lookup, NextLoop
<1>13. ASSUME NEW w \in Workers, CollectOne(w) PROVE CancelInv'
  BY <1>13 DEF CollectOne
<1>14. ASSUME NEW w \in Workers, Accept(w) PROVE CancelInv'
  BY <1>14 DEF Accept
<1>15. ASSUME NEW w \in Workers, ShutCancel(w) PROVE CancelInv'
  BY <1>15 DEF ShutCancel
<1>16. ASSUME NEW w \in Workers, ReadEof(w) PROVE CancelInv'
  BY <1>16 DEF ReadEof
<1>17. ASSUME NEW w \in Workers, EnsureCluster(w) PROVE CancelInv'
  BY <1>17 DEF EnsureCluster
<1>18. ASSUME NEW w \in Workers, OpenOk(w) PROVE CancelInv'
  BY <1>18 DEF OpenOk
<1>19. ASSUME NEW w \in Workers, OpenFails(w) PROVE CancelInv'
  BY <1>19 DEF OpenFails, Answer
<1>20. ASSUME NEW w \in Workers, MakeHandle(w) PROVE CancelInv'
  BY <1>20 DEF MakeHandle
<1>21. ASSUME NEW w \in Workers, LockMap(w) PROVE CancelInv'
  BY <1>21 DEF LockMap
<1>22. ASSUME NEW w \in Workers, RegisterWDHandle(w) PROVE CancelInv'
  BY <1>22 DEF RegisterWDHandle
<1>23. ASSUME NEW w \in Workers, GenerateCollections(w) PROVE CancelInv'
  BY <1>23 DEF GenerateCollections, Answer
<1>24. ASSUME NEW w \in Workers, OpStart(w) PROVE CancelInv'
  BY <1>24 DEF OpStart
<1>25. ASSUME NEW w \in Workers, OpEnd(w) PROVE CancelInv'
  BY <1>25 DEF OpEnd, Answer
<1>26. ASSUME NEW w \in Workers, LeaveLoop(w) PROVE CancelInv'
  BY <1>26 DEF LeaveLoop
<1>27. ASSUME NEW w \in Workers, UnregisterWDHandle(w) PROVE CancelInv'
  BY <1>27 DEF UnregisterWDHandle
<1>28. ASSUME NEW w \in Workers, FinLock(w) PROVE CancelInv'
  BY <1>28 DEF FinLock
<1>29. ASSUME NEW w \in Workers, FinDelete(w) PROVE CancelInv'
  BY <1>29 DEF FinDelete
<1>30. ASSUME NEW w \in Workers, FinNull(w) PROVE CancelInv'
  BY <1>30 DEF FinNull
<1>31. ASSUME NEW w \in Workers, HarnessCloses(w) PROVE CancelInv'
  BY <1>31 DEF HarnessCloses
<1>32. ASSUME NEW w \in Workers, CloseHandle(w) PROVE CancelInv'
  BY <1>32 DEF CloseHandle
<1>33. ASSUME NEW w \in Workers, AbortOnBadDataset(w) PROVE CancelInv'
  BY <1>33 DEF AbortOnBadDataset
<1>34. ASSUME NEW w \in Workers, NEW h \in HandleIds, NewHandle(w, h) PROVE CancelInv'
  BY <1>34 DEF NewHandle, Answer
<1>35. ASSUME NEW w \in Workers, NEW o \in Ops, Request(w, o) PROVE CancelInv'
  BY <1>35 DEF Request, Answer
<1>36. CASE UNCHANGED vars
  BY <1>36
<1>37. ASSUME NEW w \in Workers, LoadFails(w) PROVE CancelInv'
  BY <1>37 DEF LoadFails, Answer
<1>. QED
  BY <1>1, <1>2, <1>3, <1>4, <1>5, <1>6, <1>7, <1>8, <1>9, <1>10, <1>11, <1>12, <1>13, <1>14, <1>15, <1>16, <1>17, <1>18, <1>19, <1>20, <1>21, <1>22, <1>23, <1>24, <1>25, <1>26, <1>27, <1>28, <1>29, <1>30, <1>31, <1>32, <1>33, <1>34, <1>35, <1>36, <1>37 DEF Next, MainStep, WorkerStep, HarnessStep, ClusterStep, Ended

\* The cluster is open while workers use it.
LEMMA OpeningStep == TypeOK /\ LockInv /\ ClusterInv /\ [Next]_vars => ClusterInv'
<1>. SUFFICES ASSUME TypeOK, LockInv, ClusterInv, [Next]_vars PROVE ClusterInv'
  OBVIOUS
<1>. USE DispatchAssumption DEF LockInv, ClusterInv, vars, mainVars, ownVars, handleVars, sharedVars, Goto, TypeOK, Ids, WorkerPcs, Registered, Creating,
         MainPcs, Scanning, CancelPcs, ShutPcs, children
<1>1. CASE CollectDone
  BY <1>1 DEF CollectDone
<1>2. CASE SelectDone
  BY <1>2 DEF SelectDone, Leave, NextLoop
<1>3. CASE AcceptFails
  BY <1>3 DEF AcceptFails, Leave
<1>4. CASE Goodbye
  BY <1>4 DEF Goodbye, Leave
<1>5. CASE OtherCommand
  BY <1>5 DEF OtherCommand, NextLoop
<1>6. CASE CancelLock
  BY <1>6 DEF CancelLock
<1>7. CASE CancelSet
  BY <1>7 DEF CancelSet, NextLoop
<1>8. CASE ShutCancelDone
  BY <1>8 DEF ShutCancelDone
<1>9. CASE ShutCollectDone
  BY <1>9 DEF ShutCollectDone
<1>10. CASE ShutClose
  BY <1>10 DEF ShutClose
<1>11. CASE MainWakes
  BY <1>11 DEF MainWakes, Select
<1>12. ASSUME NEW h \in Ids, CancelLookup(h) PROVE ClusterInv'
  BY <1>12 DEF CancelLookup, Lookup, NextLoop
<1>13. ASSUME NEW w \in Workers, CollectOne(w) PROVE ClusterInv'
  BY <1>13 DEF CollectOne
<1>14. ASSUME NEW w \in Workers, Accept(w) PROVE ClusterInv'
  BY <1>14 DEF Accept
<1>15. ASSUME NEW w \in Workers, ShutCancel(w) PROVE ClusterInv'
  BY <1>15 DEF ShutCancel
<1>16. ASSUME NEW w \in Workers, ReadEof(w) PROVE ClusterInv'
  BY <1>16 DEF ReadEof
<1>17. ASSUME NEW w \in Workers, EnsureCluster(w) PROVE ClusterInv'
  BY <1>17 DEF EnsureCluster
<1>18. ASSUME NEW w \in Workers, OpenOk(w) PROVE ClusterInv'
  BY <1>18 DEF OpenOk
<1>19. ASSUME NEW w \in Workers, OpenFails(w) PROVE ClusterInv'
  BY <1>19 DEF OpenFails, Answer
<1>20. ASSUME NEW w \in Workers, MakeHandle(w) PROVE ClusterInv'
  BY <1>20 DEF MakeHandle
<1>21. ASSUME NEW w \in Workers, LockMap(w) PROVE ClusterInv'
  BY <1>21 DEF LockMap
<1>22. ASSUME NEW w \in Workers, RegisterWDHandle(w) PROVE ClusterInv'
  BY <1>22 DEF RegisterWDHandle
<1>23. ASSUME NEW w \in Workers, GenerateCollections(w) PROVE ClusterInv'
  BY <1>23 DEF GenerateCollections, Answer
<1>24. ASSUME NEW w \in Workers, OpStart(w) PROVE ClusterInv'
  BY <1>24 DEF OpStart
<1>25. ASSUME NEW w \in Workers, OpEnd(w) PROVE ClusterInv'
  BY <1>25 DEF OpEnd, Answer
<1>26. ASSUME NEW w \in Workers, LeaveLoop(w) PROVE ClusterInv'
  BY <1>26 DEF LeaveLoop
<1>27. ASSUME NEW w \in Workers, UnregisterWDHandle(w) PROVE ClusterInv'
  BY <1>27 DEF UnregisterWDHandle
<1>28. ASSUME NEW w \in Workers, FinLock(w) PROVE ClusterInv'
  BY <1>28 DEF FinLock
<1>29. ASSUME NEW w \in Workers, FinDelete(w) PROVE ClusterInv'
  BY <1>29 DEF FinDelete
<1>30. ASSUME NEW w \in Workers, FinNull(w) PROVE ClusterInv'
  BY <1>30 DEF FinNull
<1>31. ASSUME NEW w \in Workers, HarnessCloses(w) PROVE ClusterInv'
  BY <1>31 DEF HarnessCloses
<1>32. ASSUME NEW w \in Workers, CloseHandle(w) PROVE ClusterInv'
  BY <1>32 DEF CloseHandle
<1>33. ASSUME NEW w \in Workers, AbortOnBadDataset(w) PROVE ClusterInv'
  BY <1>33 DEF AbortOnBadDataset
<1>34. ASSUME NEW w \in Workers, NEW h \in HandleIds, NewHandle(w, h) PROVE ClusterInv'
  BY <1>34 DEF NewHandle, Answer
<1>35. ASSUME NEW w \in Workers, NEW o \in Ops, Request(w, o) PROVE ClusterInv'
  BY <1>35 DEF Request, Answer
<1>36. CASE UNCHANGED vars
  BY <1>36
<1>37. ASSUME NEW w \in Workers, LoadFails(w) PROVE ClusterInv'
  BY <1>37 DEF LoadFails, Answer
<1>. QED
  BY <1>1, <1>2, <1>3, <1>4, <1>5, <1>6, <1>7, <1>8, <1>9, <1>10, <1>11, <1>12, <1>13, <1>14, <1>15, <1>16, <1>17, <1>18, <1>19, <1>20, <1>21, <1>22, <1>23, <1>24, <1>25, <1>26, <1>27, <1>28, <1>29, <1>30, <1>31, <1>32, <1>33, <1>34, <1>35, <1>36, <1>37 DEF Next, MainStep, WorkerStep, HarnessStep, ClusterStep, Ended
\* No two workers have, or ask for, the same ID of those not used too early.
LEMMA IdStep == TypeOK /\ HandleInv /\ ClusterInv /\ IdInv /\ [Next]_vars => IdInv'
<1>. SUFFICES ASSUME TypeOK, HandleInv, ClusterInv, IdInv, [Next]_vars PROVE IdInv'
  OBVIOUS
<1>. USE DispatchAssumption DEF HandleInv, Unregistered, ClusterInv, IdInv, vars, mainVars, ownVars, handleVars, sharedVars, Goto, TypeOK, Ids, WorkerPcs, Registered, Creating,
         MainPcs, Scanning, CancelPcs, ShutPcs, children
<1>1. CASE CollectDone
  BY <1>1 DEF CollectDone
<1>2. CASE SelectDone
  BY <1>2 DEF SelectDone, Leave, NextLoop
<1>3. CASE AcceptFails
  BY <1>3 DEF AcceptFails, Leave
<1>4. CASE Goodbye
  BY <1>4 DEF Goodbye, Leave
<1>5. CASE OtherCommand
  BY <1>5 DEF OtherCommand, NextLoop
<1>6. CASE CancelLock
  BY <1>6 DEF CancelLock
<1>7. CASE CancelSet
  BY <1>7 DEF CancelSet, NextLoop
<1>8. CASE ShutCancelDone
  BY <1>8 DEF ShutCancelDone
<1>9. CASE ShutCollectDone
  BY <1>9 DEF ShutCollectDone
<1>10. CASE ShutClose
  BY <1>10 DEF ShutClose
<1>11. CASE MainWakes
  BY <1>11 DEF MainWakes, Select
<1>12. ASSUME NEW h \in Ids, CancelLookup(h) PROVE IdInv'
  BY <1>12 DEF CancelLookup, Lookup, NextLoop
<1>13. ASSUME NEW w \in Workers, CollectOne(w) PROVE IdInv'
  BY <1>13 DEF CollectOne
<1>14. ASSUME NEW w \in Workers, Accept(w) PROVE IdInv'
  BY <1>14 DEF Accept
<1>15. ASSUME NEW w \in Workers, ShutCancel(w) PROVE IdInv'
  BY <1>15 DEF ShutCancel
<1>16. ASSUME NEW w \in Workers, ReadEof(w) PROVE IdInv'
  BY <1>16 DEF ReadEof
<1>17. ASSUME NEW w \in Workers, EnsureCluster(w) PROVE IdInv'
  BY <1>17 DEF EnsureCluster
<1>18. ASSUME NEW w \in Workers, OpenOk(w) PROVE IdInv'
  BY <1>18 DEF OpenOk
<1>19. ASSUME NEW w \in Workers, OpenFails(w) PROVE IdInv'
  BY <1>19 DEF OpenFails, Answer
<1>20. ASSUME NEW w \in Workers, MakeHandle(w) PROVE IdInv'
  BY <1>20 DEF MakeHandle
<1>21. ASSUME NEW w \in Workers, LockMap(w) PROVE IdInv'
  BY <1>21 DEF LockMap
<1>22. ASSUME NEW w \in Workers, RegisterWDHandle(w) PROVE IdInv'
  BY <1>22 DEF RegisterWDHandle
<1>23. ASSUME NEW w \in Workers, GenerateCollections(w) PROVE IdInv'
  BY <1>23 DEF GenerateCollections, Answer
<1>24. ASSUME NEW w \in Workers, OpStart(w) PROVE IdInv'
  BY <1>24 DEF OpStart
<1>25. ASSUME NEW w \in Workers, OpEnd(w) PROVE IdInv'
  BY <1>25 DEF OpEnd, Answer
<1>26. ASSUME NEW w \in Workers, LeaveLoop(w) PROVE IdInv'
  BY <1>26 DEF LeaveLoop
<1>27. ASSUME NEW w \in Workers, UnregisterWDHandle(w) PROVE IdInv'
  BY <1>27 DEF UnregisterWDHandle
<1>28. ASSUME NEW w \in Workers, FinLock(w) PROVE IdInv'
  BY <1>28 DEF FinLock
<1>29. ASSUME NEW w \in Workers, FinDelete(w) PROVE IdInv'
  BY <1>29 DEF FinDelete
<1>30. ASSUME NEW w \in Workers, FinNull(w) PROVE IdInv'
  BY <1>30 DEF FinNull
<1>31. ASSUME NEW w \in Workers, HarnessCloses(w) PROVE IdInv'
  BY <1>31 DEF HarnessCloses
<1>32. ASSUME NEW w \in Workers, CloseHandle(w) PROVE IdInv'
  BY <1>32 DEF CloseHandle
<1>33. ASSUME NEW w \in Workers, AbortOnBadDataset(w) PROVE IdInv'
  BY <1>33 DEF AbortOnBadDataset
<1>34. ASSUME NEW w \in Workers, NEW h \in HandleIds, NewHandle(w, h) PROVE IdInv'
  BY <1>34 DEF NewHandle, Answer, FreeId
<1>35. ASSUME NEW w \in Workers, NEW o \in Ops, Request(w, o) PROVE IdInv'
  BY <1>35 DEF Request, Answer
<1>36. CASE UNCHANGED vars
  BY <1>36
<1>37. ASSUME NEW w \in Workers, LoadFails(w) PROVE IdInv'
  BY <1>37 DEF LoadFails, Answer
<1>. QED
  BY <1>1, <1>2, <1>3, <1>4, <1>5, <1>6, <1>7, <1>8, <1>9, <1>10, <1>11, <1>12, <1>13, <1>14, <1>15, <1>16, <1>17, <1>18, <1>19, <1>20, <1>21, <1>22, <1>23, <1>24, <1>25, <1>26, <1>27, <1>28, <1>29, <1>30, <1>31, <1>32, <1>33, <1>34, <1>35, <1>36, <1>37 DEF Next, MainStep, WorkerStep, HarnessStep, ClusterStep, Ended

\* An entry is erased by the worker it names.
LEMMA FoundStep == TypeOK /\ HandleInv /\ ClusterInv /\ IdInv /\ OpenHandleFound /\ [Next]_vars => OpenHandleFound'
<1>. SUFFICES ASSUME TypeOK, HandleInv, ClusterInv, IdInv, OpenHandleFound, [Next]_vars PROVE OpenHandleFound'
  OBVIOUS
<1>. USE DispatchAssumption DEF HandleInv, Unregistered, ClusterInv, IdInv, OpenHandleFound, vars, mainVars, ownVars, handleVars, sharedVars, Goto, TypeOK, Ids, WorkerPcs, Registered, Creating,
         MainPcs, Scanning, CancelPcs, ShutPcs, children
<1>1. CASE CollectDone
  BY <1>1 DEF CollectDone
<1>2. CASE SelectDone
  BY <1>2 DEF SelectDone, Leave, NextLoop
<1>3. CASE AcceptFails
  BY <1>3 DEF AcceptFails, Leave
<1>4. CASE Goodbye
  BY <1>4 DEF Goodbye, Leave
<1>5. CASE OtherCommand
  BY <1>5 DEF OtherCommand, NextLoop
<1>6. CASE CancelLock
  BY <1>6 DEF CancelLock
<1>7. CASE CancelSet
  BY <1>7 DEF CancelSet, NextLoop
<1>8. CASE ShutCancelDone
  BY <1>8 DEF ShutCancelDone
<1>9. CASE ShutCollectDone
  BY <1>9 DEF ShutCollectDone
<1>10. CASE ShutClose
  BY <1>10 DEF ShutClose
<1>11. CASE MainWakes
  BY <1>11 DEF MainWakes, Select
<1>12. ASSUME NEW h \in Ids, CancelLookup(h) PROVE OpenHandleFound'
  BY <1>12 DEF CancelLookup, Lookup, NextLoop
<1>13. ASSUME NEW w \in Workers, CollectOne(w) PROVE OpenHandleFound'
  BY <1>13 DEF CollectOne
<1>14. ASSUME NEW w \in Workers, Accept(w) PROVE OpenHandleFound'
  BY <1>14 DEF Accept
<1>15. ASSUME NEW w \in Workers, ShutCancel(w) PROVE OpenHandleFound'
  BY <1>15 DEF ShutCancel
<1>16. ASSUME NEW w \in Workers, ReadEof(w) PROVE OpenHandleFound'
  BY <1>16 DEF ReadEof
<1>17. ASSUME NEW w \in Workers, EnsureCluster(w) PROVE OpenHandleFound'
  BY <1>17 DEF EnsureCluster
<1>18. ASSUME NEW w \in Workers, OpenOk(w) PROVE OpenHandleFound'
  BY <1>18 DEF OpenOk
<1>19. ASSUME NEW w \in Workers, OpenFails(w) PROVE OpenHandleFound'
  BY <1>19 DEF OpenFails, Answer
<1>20. ASSUME NEW w \in Workers, MakeHandle(w) PROVE OpenHandleFound'
  BY <1>20 DEF MakeHandle
<1>21. ASSUME NEW w \in Workers, LockMap(w) PROVE OpenHandleFound'
  BY <1>21 DEF LockMap
<1>22. ASSUME NEW w \in Workers, RegisterWDHandle(w) PROVE OpenHandleFound'
  BY <1>22 DEF RegisterWDHandle
<1>23. ASSUME NEW w \in Workers, GenerateCollections(w) PROVE OpenHandleFound'
  BY <1>23 DEF GenerateCollections, Answer
<1>24. ASSUME NEW w \in Workers, OpStart(w) PROVE OpenHandleFound'
  BY <1>24 DEF OpStart
<1>25. ASSUME NEW w \in Workers, OpEnd(w) PROVE OpenHandleFound'
  BY <1>25 DEF OpEnd, Answer
<1>26. ASSUME NEW w \in Workers, LeaveLoop(w) PROVE OpenHandleFound'
  BY <1>26 DEF LeaveLoop
<1>27. ASSUME NEW w \in Workers, UnregisterWDHandle(w) PROVE OpenHandleFound'
  BY <1>27 DEF UnregisterWDHandle
<1>28. ASSUME NEW w \in Workers, FinLock(w) PROVE OpenHandleFound'
  BY <1>28 DEF FinLock
<1>29. ASSUME NEW w \in Workers, FinDelete(w) PROVE OpenHandleFound'
  BY <1>29 DEF FinDelete
<1>30. ASSUME NEW w \in Workers, FinNull(w) PROVE OpenHandleFound'
  BY <1>30 DEF FinNull
<1>31. ASSUME NEW w \in Workers, HarnessCloses(w) PROVE OpenHandleFound'
  BY <1>31 DEF HarnessCloses
<1>32. ASSUME NEW w \in Workers, CloseHandle(w) PROVE OpenHandleFound'
  BY <1>32 DEF CloseHandle
<1>33. ASSUME NEW w \in Workers, AbortOnBadDataset(w) PROVE OpenHandleFound'
  BY <1>33 DEF AbortOnBadDataset
<1>34. ASSUME NEW w \in Workers, NEW h \in HandleIds, NewHandle(w, h) PROVE OpenHandleFound'
  BY <1>34 DEF NewHandle, Answer
<1>35. ASSUME NEW w \in Workers, NEW o \in Ops, Request(w, o) PROVE OpenHandleFound'
  BY <1>35 DEF Request, Answer
<1>36. CASE UNCHANGED vars
  BY <1>36
<1>37. ASSUME NEW w \in Workers, LoadFails(w) PROVE OpenHandleFound'
  BY <1>37 DEF LoadFails, Answer
<1>. QED
  BY <1>1, <1>2, <1>3, <1>4, <1>5, <1>6, <1>7, <1>8, <1>9, <1>10, <1>11, <1>12, <1>13, <1>14, <1>15, <1>16, <1>17, <1>18, <1>19, <1>20, <1>21, <1>22, <1>23, <1>24, <1>25, <1>26, <1>27, <1>28, <1>29, <1>30, <1>31, <1>32, <1>33, <1>34, <1>35, <1>36, <1>37 DEF Next, MainStep, WorkerStep, HarnessStep, ClusterStep, Ended

-----------------------------------------------------------------------------
(* The theorems *)

\* The daemon starts in the invariant.
LEMMA InvInit == Init => IInv
<1>. SUFFICES ASSUME Init PROVE IInv
  OBVIOUS
<1>1. TypeOK
  BY TypeInit
<1>2. LockInv /\ HandleInv /\ MapEntryLive /\ CancelInv /\ ClusterInv
  BY DispatchAssumption DEF Init, Ids, LockInv, HandleInv, Unregistered, MapEntryLive, CancelInv, ClusterInv
<1>. QED
  BY <1>1, <1>2 DEF IInv

\* Every step keeps the invariant, part by part.
LEMMA InvStep == IInv /\ [Next]_vars => IInv'
  BY TypeStep, LockStep, HandleStep, MapStep, CancelStep, OpeningStep DEF IInv

\* The inductive invariant holds in every reachable state.
THEOREM Invariance == Spec => []IInv
  BY InvInit, InvStep, PTL DEF Spec

\* Every variable keeps its type, for any number of connections and IDs.
THEOREM TypeCorrect == Spec => []TypeOK
<1>1. IInv => TypeOK
  BY DEF IInv
<1>. QED
  BY <1>1, Invariance, PTL

\* h2wmap holds no dangling pointer under a real ID, even if IDs clash.
THEOREM MapHoldsLiveWorkers == Spec => []MapEntryLive
<1>1. IInv => MapEntryLive
  BY DEF IInv
<1>. QED
  BY <1>1, Invariance, PTL

\* A CANCEL touches the worker its ID names, and touches it while it exists.
THEOREM CancelIsPrecise == Spec => []CancelTargetsItsHandle
<1>1. IInv => CancelTargetsItsHandle
  <2>. SUFFICES ASSUME IInv, mpc \in {"cmd_lock", "cmd_set"}, mid # 0
                PROVE  /\ wpc[mw] \in WorkerPcs \ ({"none"} \cup Creating)
                       /\ cur_hid[mw] \in {mid, 0}
    BY DEF CancelTargetsItsHandle
  <2>1. mw \in Workers
    BY DEF IInv, TypeOK, CancelPcs
  <2>2. CASE wpc[mw] \in Registered /\ cur_hid[mw] = mid
    BY <2>2 DEF WorkerPcs, Registered, Creating
  <2>3. CASE wpc[mw] \in Unregistered
    BY <2>1, <2>3 DEF IInv, HandleInv, Unregistered, WorkerPcs, Registered, Creating
  <2>. QED
    BY <2>2, <2>3 DEF IInv, CancelInv
<1>. QED
  BY <1>1, Invariance, PTL

\* The control thread never reads a pointer to a deleted handle.
THEOREM NoUseAfterDelete == Spec => []NoDeadHandleUsed
<1>1. IInv => NoDeadHandleUsed
  BY DispatchAssumption DEF IInv, LockInv, HandleInv, NoDeadHandleUsed
<1>. QED
  BY <1>1, Invariance, PTL

\* A handle is destroyed only by its own thread, under its mutex.
THEOREM OwnThreadDestroys == Spec => DestroyedByItsThread
<1>1. IInv /\ [Next]_vars =>
        [\A w \in Workers : cur_handle[w] = "live" /\ cur_handle'[w] # "live" =>
              wpc[w] = "fin_delete" /\ hmutex[w] = w]_vars
  <2>. SUFFICES ASSUME IInv, Next, NEW v \in Workers,
                       cur_handle[v] = "live", cur_handle'[v] # "live"
                PROVE  wpc[v] = "fin_delete" /\ hmutex[v] = v
    OBVIOUS
  <2>. USE DEF handleVars, sharedVars
  <2>1. ASSUME NEW w \in Workers, FinDelete(w) PROVE wpc[v] = "fin_delete" /\ hmutex[v] = v
    BY <2>1 DEF FinDelete, IInv, TypeOK, LockInv
  <2>2. ASSUME NEW w \in Workers, CollectOne(w) \/ MakeHandle(w) \/ FinNull(w) PROVE FALSE
    BY <2>2 DEF CollectOne, MakeHandle, FinNull, IInv, TypeOK, LockInv, HandleInv
  <2>3. CASE UNCHANGED cur_handle
    BY <2>3
  <2>4. MainStep \/ MainWakes => \/ \E w \in Workers : CollectOne(w)
                                 \/ UNCHANGED cur_handle
    BY DEF MainStep, MainWakes, CollectDone, SelectDone, AcceptFails, Goodbye, OtherCommand,
           CancelLock, CancelSet, ShutCancelDone, ShutCollectDone, ShutClose, Accept,
           ShutCancel, CancelLookup, Select
  <2>5. ASSUME NEW w \in Workers, WorkerStep(w)
        PROVE  \/ FinDelete(w) \/ MakeHandle(w) \/ FinNull(w)
               \/ UNCHANGED cur_handle
    BY <2>5 DEF WorkerStep, ReadEof, EnsureCluster, OpenOk, OpenFails, LockMap, RegisterWDHandle,
           GenerateCollections, OpStart, OpEnd, LeaveLoop, UnregisterWDHandle, FinLock
  <2>6. ASSUME NEW w \in Workers, HarnessStep(w) PROVE UNCHANGED cur_handle
    BY <2>6 DEF HarnessStep, HarnessCloses, CloseHandle, AbortOnBadDataset, NewHandle, Request
  <2>7. ASSUME NEW w \in Workers, ClusterStep(w) PROVE UNCHANGED cur_handle
    BY <2>7 DEF ClusterStep, LoadFails
  <2>. QED
    BY <2>1, <2>2, <2>3, <2>4, <2>5, <2>6, <2>7 DEF Next, Ended, vars
<1>. QED
  BY <1>1, Invariance, PTL DEF Spec, DestroyedByItsThread

\* The cluster is opened by one thread, once, and outlives every worker.
THEOREM ClusterOutlives == Spec => []ClusterOutlivesWorkers
<1>1. IInv => ClusterOutlivesWorkers
  <2>. SUFFICES ASSUME IInv PROVE ClusterOutlivesWorkers
    OBVIOUS
  <2>1. \A w, v \in Workers : wpc[w] = "opening" /\ wpc[v] = "opening" => w = v
    BY DEF IInv, LockInv
  <2>2. ASSUME cluster = "shut"
        PROVE  children = {} /\ \A h \in Ids \ {0} : h2wmap[h] = NULL
    <3>1. \A w \in Workers : wpc[w] = "none"
      BY <2>2 DEF IInv, ClusterInv
    <3>. QED
      BY <3>1 DEF IInv, TypeOK, MapEntryLive, Registered, children
  <2>. QED
    BY <2>1, <2>2 DEF IInv, ClusterInv, ClusterOutlivesWorkers
<1>. QED
  BY <1>1, Invariance, PTL

\* An open handle is always found by a CANCEL of an ID that the harness does not use
\* again before the daemon has forgotten it.
THEOREM OpenHandlesAreFound == Spec => []OpenHandleFound
<1>1. Init => IdInv /\ OpenHandleFound
  BY DEF Init, IdInv, OpenHandleFound, Registered
<1>2. IInv /\ IdInv /\ OpenHandleFound /\ [Next]_vars => IdInv' /\ OpenHandleFound'
  BY IdStep, FoundStep DEF IInv
<1>. QED
  BY <1>1, <1>2, Invariance, PTL DEF Spec

-----------------------------------------------------------------------------
(* The operation loop of each worker is one of OpLoop. *)

\* The process that has aborted has no threads.
NoThreads == mpc = "aborted" => \A w \in Workers : wpc[w] = "none"

LoopVars(v) ==
    <<IF wpc[v] = "op_loop"
      THEN [resets |-> op[v] \in Resetting, ends |-> Endings(op[v])]
      ELSE [resets |-> FALSE, ends |-> {}],
      do_cancel[v], mpc = "aborted">>

\* A loop is left as it is by a step that leaves these alone.
LEMMA LoopSame ==
    ASSUME NEW v \in Workers, wpc'[v] = wpc[v], op'[v] = op[v], do_cancel'[v] = do_cancel[v],
           mpc # "aborted", mpc' # "aborted"
    PROVE  UNCHANGED LoopVars(v)
  BY DEF LoopVars, Endings

\* A worker that is in no operation is at rest.
LEMMA LoopRest ==
    ASSUME NEW v \in Workers, wpc[v] # "op_loop", wpc'[v] # "op_loop", TypeOK',
           mpc # "aborted", mpc' # "aborted"
    PROVE  Loop(v)!Next
<1>1. do_cancel'[v] \in BOOLEAN
  BY DEF TypeOK
<1>2. Loop(v)!Rest
  BY <1>1 DEF Loop!Rest, Loop!Running, Loop!Idle
<1>. QED BY <1>2 DEF Loop!Next

\* The control thread that runs has not aborted, and does not abort.
LEMMA MainRuns == MainStep \/ MainWakes => mpc # "aborted" /\ mpc' # "aborted"
  BY DEF MainStep, MainWakes, CollectDone, SelectDone, AcceptFails, Goodbye, OtherCommand,
         CancelLock, CancelSet, ShutCancelDone, ShutCollectDone, ShutClose, Accept,
         ShutCancel, CancelLookup, Select, CollectOne, NextLoop, Leave, Scanning, mainVars

\* A worker thread that runs is one.
LEMMA WorkerRuns ==
    ASSUME NEW v \in Workers, WorkerStep(v) \/ ClusterStep(v)
    PROVE  mpc' = mpc /\ wpc[v] # "none"
  BY DEF WorkerStep, ClusterStep, ReadEof, EnsureCluster, OpenOk, OpenFails, MakeHandle, LockMap,
         RegisterWDHandle, GenerateCollections, OpStart, OpEnd, LoadFails, LeaveLoop,
         UnregisterWDHandle, FinLock, FinDelete, FinNull, mainVars

\* What the control thread does to the loop of v: it may set its flag, nothing else.
LEMMA MainLoop ==
    ASSUME IInv, TypeOK', NEW v \in Workers, MainStep \/ MainWakes
    PROVE  Loop(v)!Next \/ UNCHANGED LoopVars(v)
<1>. USE DEF handleVars, sharedVars, ownVars, mainVars
<1>0. wpc \in [Workers -> WorkerPcs] /\ do_cancel \in [Workers -> BOOLEAN]
      /\ (mpc \in CancelPcs => mw \in Workers)
  BY DEF IInv, TypeOK
<1>1. mpc # "aborted" /\ mpc' # "aborted"
  BY MainRuns
<1>2. ASSUME NEW w \in Workers, CollectOne(w) PROVE Loop(v)!Next \/ UNCHANGED LoopVars(v)
  <2>1. CASE w = v /\ wpc[w] = "exited"
    BY <1>0, <1>1, <1>2, <2>1, LoopRest DEF CollectOne
  <2>2. CASE ~(w = v /\ wpc[w] = "exited")
    <3>1. wpc'[v] = wpc[v] /\ op'[v] = op[v] /\ do_cancel'[v] = do_cancel[v]
      BY <1>0, <1>2, <2>2 DEF CollectOne
    <3>. QED BY <1>1, <3>1, LoopSame
  <2>. QED BY <2>1, <2>2
<1>3. ASSUME NEW w \in Workers, Accept(w) PROVE Loop(v)!Next \/ UNCHANGED LoopVars(v)
  <2>1. CASE w = v
    BY <1>0, <1>1, <1>3, <2>1, LoopRest DEF Accept
  <2>2. CASE w # v
    <3>1. wpc'[v] = wpc[v] /\ op'[v] = op[v] /\ do_cancel'[v] = do_cancel[v]
      BY <1>0, <1>3, <2>2 DEF Accept
    <3>. QED BY <1>1, <3>1, LoopSame
  <2>. QED BY <2>1, <2>2
<1>4. CASE CancelSet
  <2>1. wpc' = wpc /\ op' = op
    BY <1>4 DEF CancelSet
  <2>2. do_cancel'[v] = do_cancel[v] \/ do_cancel'[v] = TRUE
    BY <1>0, <1>4 DEF CancelSet
  <2>3. CASE do_cancel'[v] = do_cancel[v]
    BY <1>1, <2>1, <2>3, LoopSame
  <2>4. CASE wpc[v] # "op_loop"
    BY <1>1, <2>1, <2>4, LoopRest
  <2>5. CASE wpc[v] = "op_loop" /\ do_cancel'[v] = TRUE
    <3>1. UNCHANGED <<LoopVars(v)[1], LoopVars(v)[3]>>
      BY <1>1, <2>1 DEF LoopVars, Endings
    <3>2. CASE Loop(v)!Running
      <4>1. Loop(v)!Cancel
        BY <2>5, <3>1, <3>2 DEF Loop!Cancel, LoopVars
      <4>. QED BY <4>1 DEF Loop!Next
    <3>3. CASE ~Loop(v)!Running
      <4>1. Loop(v)!Rest
        BY <2>5, <3>1, <3>3 DEF Loop!Rest, LoopVars
      <4>. QED BY <4>1 DEF Loop!Next
    <3>. QED BY <3>2, <3>3
  <2>. QED BY <2>2, <2>3, <2>4, <2>5
<1>5. CASE UNCHANGED <<wpc, op, do_cancel>>
  BY <1>1, <1>5, LoopSame
<1>. QED
  BY <1>2, <1>3, <1>4, <1>5
  DEF MainStep, MainWakes, CollectDone, SelectDone, AcceptFails, Goodbye, OtherCommand,
      CancelLock, ShutCancelDone, ShutCollectDone, ShutClose, ShutCancel, CancelLookup, Select

\* The loop of an operation is one of OpLoop, and not the idle one.
LEMMA LoopOfOp ==
    ASSUME NEW o
    PROVE  [resets |-> o \in Resetting, ends |-> Endings(o)] \in
             [resets : BOOLEAN, ends : SUBSET {"cancel", "exhausted", "failure"}]
               \ {[resets |-> FALSE, ends |-> {}]}
<1>. DEFINE l == [resets |-> o \in Resetting, ends |-> Endings(o)]
<1>1. l.ends \subseteq {"cancel", "exhausted", "failure"} /\ l.resets \in BOOLEAN
  BY DEF Endings
<1>2. l.resets \/ "failure" \in l.ends \/ "exhausted" \in l.ends
  BY DEF Resetting, Endings, Fragile, Endless
<1>3. l # [resets |-> FALSE, ends |-> {}]
  BY <1>2
<1>. QED BY <1>1, <1>3

\* The worker v begins and ends its own loop.
LEMMA WorkerLoop ==
    ASSUME IInv, NoThreads, TypeOK', NEW v \in Workers, WorkerStep(v) \/ ClusterStep(v)
    PROVE  Loop(v)!Next \/ UNCHANGED LoopVars(v)
<1>. USE DEF handleVars, sharedVars, ownVars, mainVars, Goto, Answer
<1>0. /\ wpc \in [Workers -> WorkerPcs] /\ do_cancel \in [Workers -> BOOLEAN]
      /\ op \in [Workers -> Ops \cup {"none"}]
  BY DEF IInv, TypeOK
<1>1. mpc' = mpc /\ wpc[v] # "none"
  BY WorkerRuns
<1>2. mpc # "aborted" /\ mpc' # "aborted"
  BY <1>1 DEF NoThreads
<1>3. CASE OpStart(v)
  <2>. DEFINE l == [resets |-> op[v] \in Resetting, ends |-> Endings(op[v])]
  <2>1. /\ wpc[v] = "op_start" /\ wpc'[v] = "op_loop" /\ op' = op
        /\ do_cancel'[v] = (do_cancel[v] /\ op[v] \notin Resetting)
    BY <1>0, <1>3 DEF OpStart
  <2>2. l \in Loop(v)!Loops \ {Loop(v)!Idle}
    BY LoopOfOp DEF Loop!Loops, Loop!Idle
  <2>3. LoopVars(v)[1]' = l
    BY <2>1 DEF LoopVars, Endings
  <2>4. ~Loop(v)!Running
    BY <2>1 DEF Loop!Running, Loop!Idle
  <2>5. Loop(v)!Start(l)
    BY <1>1, <1>2, <2>1, <2>3, <2>4 DEF Loop!Start, LoopVars
  <2>. QED BY <2>2, <2>5 DEF Loop!Next
<1>4. CASE OpEnd(v) \/ LoadFails(v)
  <2>1. /\ wpc[v] = "op_loop" /\ wpc'[v] = "select" /\ do_cancel' = do_cancel
        /\ \/ op[v] \in Checking /\ do_cancel[v]
           \/ op[v] \notin Endless
           \/ op[v] \in Fragile
    BY <1>0, <1>4 DEF OpEnd, LoadFails
  <2>. DEFINE l == [resets |-> op[v] \in Resetting, ends |-> Endings(op[v])]
  <2>2. l # Loop(v)!Idle
    BY LoopOfOp DEF Loop!Idle
  <2>3. Loop(v)!Running
    BY <2>1, <2>2 DEF Loop!Running
  <2>4. \/ "exhausted" \in Endings(op[v])
        \/ "cancel" \in Endings(op[v]) /\ do_cancel[v]
        \/ "failure" \in Endings(op[v])
    BY <2>1 DEF Endings
  <2>5. Loop(v)!End
    BY <1>1, <2>1, <2>3, <2>4 DEF Loop!End, Loop!Due, Loop!Idle
  <2>. QED BY <2>5 DEF Loop!Next
<1>5. CASE wpc[v] # "op_loop" /\ wpc'[v] # "op_loop"
  BY <1>2, <1>5, LoopRest
<1>. QED
  BY <1>0, <1>3, <1>4, <1>5
  DEF WorkerStep, ClusterStep, ReadEof, EnsureCluster, OpenOk, OpenFails, MakeHandle, LockMap,
      RegisterWDHandle, GenerateCollections, LeaveLoop, UnregisterWDHandle, FinLock, FinDelete,
      FinNull

\* Another worker or its harness leaves the loop of v alone.
LEMMA OtherLoop ==
    ASSUME IInv, NoThreads, NEW v \in Workers, NEW w \in Workers,
           \/ w # v /\ (WorkerStep(w) \/ ClusterStep(w))
           \/ w # v /\ HarnessStep(w) /\ ~AbortOnBadDataset(w)
    PROVE  UNCHANGED LoopVars(v)
<1>. USE DEF handleVars, sharedVars, ownVars, mainVars, Goto, Answer
<1>0. /\ wpc \in [Workers -> WorkerPcs] /\ do_cancel \in [Workers -> BOOLEAN]
      /\ op \in [Workers -> Ops \cup {"none"}]
  BY DEF IInv, TypeOK
<1>1. mpc' = mpc /\ wpc'[v] = wpc[v] /\ op'[v] = op[v] /\ do_cancel'[v] = do_cancel[v]
  BY <1>0
  DEF WorkerStep, ClusterStep, ReadEof, EnsureCluster, OpenOk, OpenFails, MakeHandle, LockMap,
      RegisterWDHandle, GenerateCollections, OpStart, OpEnd, LoadFails, LeaveLoop,
      UnregisterWDHandle, FinLock, FinDelete, FinNull,
      HarnessStep, HarnessCloses, CloseHandle, NewHandle, Request
<1>. QED BY <1>1 DEF LoopVars, Endings

\* The process aborts.
LEMMA AbortLoop ==
    ASSUME NEW v \in Workers, NEW w \in Workers, AbortOnBadDataset(w)
    PROVE  Loop(v)!Next
<1>1. mpc' = "aborted" /\ wpc' = [u \in Workers |-> "none"] /\ do_cancel' = do_cancel
  BY DEF AbortOnBadDataset, handleVars
<1>2. wpc'[v] # "op_loop"
  BY <1>1
<1>3. Loop(v)!Dies
  BY <1>1, <1>2 DEF Loop!Dies, Loop!Idle
<1>. QED BY <1>3 DEF Loop!Next

\* The harness of v starts and ends no loop.
LEMMA HarnessLoop ==
    ASSUME IInv, NoThreads, TypeOK', NEW v \in Workers, HarnessStep(v)
    PROVE  Loop(v)!Next \/ UNCHANGED LoopVars(v)
<1>. USE DEF handleVars, sharedVars, ownVars, mainVars, Goto, Answer
<1>0. /\ wpc \in [Workers -> WorkerPcs] /\ do_cancel \in [Workers -> BOOLEAN]
      /\ op \in [Workers -> Ops \cup {"none"}]
  BY DEF IInv, TypeOK
<1>1. CASE HarnessCloses(v)
  BY <1>1 DEF HarnessCloses, LoopVars, Endings
<1>2. CASE AbortOnBadDataset(v)
  BY <1>2, AbortLoop
<1>3. CASE CloseHandle(v) \/ (\E h \in HandleIds : NewHandle(v, h)) \/ \E o \in Ops : Request(v, o)
  <2>1. wpc[v] = "select" /\ wpc'[v] # "op_loop" /\ mpc' = mpc
    BY <1>0, <1>3 DEF CloseHandle, NewHandle, Request
  <2>2. mpc # "aborted"
    BY <2>1 DEF NoThreads
  <2>. QED BY <2>1, <2>2, LoopRest
<1>. QED BY <1>1, <1>2, <1>3 DEF HarnessStep

\* An aborted process stays without threads.
LEMMA NoThreadsStep == NoThreads /\ [Next]_vars => NoThreads'
<1>. SUFFICES ASSUME NoThreads, [Next]_vars PROVE NoThreads'
  OBVIOUS
<1>. USE DEF mainVars, ownVars, handleVars, sharedVars
<1>1. CASE MainStep \/ MainWakes
  BY <1>1, MainRuns DEF NoThreads
<1>2. ASSUME NEW w \in Workers, WorkerStep(w) \/ ClusterStep(w) PROVE NoThreads'
  BY <1>2, WorkerRuns DEF NoThreads
<1>3. ASSUME NEW w \in Workers, HarnessStep(w) PROVE NoThreads'
  <2>1. CASE AbortOnBadDataset(w)
    BY <2>1 DEF AbortOnBadDataset, NoThreads
  <2>2. CASE HarnessCloses(w)
    BY <2>2 DEF HarnessCloses, NoThreads
  <2>3. CASE CloseHandle(w) \/ (\E h \in HandleIds : NewHandle(w, h)) \/ \E o \in Ops : Request(w, o)
    <3>1. wpc[w] = "select" /\ mpc' = mpc
      BY <2>3 DEF CloseHandle, NewHandle, Request
    <3>. QED BY <3>1 DEF NoThreads
  <2>. QED BY <1>3, <2>1, <2>2, <2>3 DEF HarnessStep
<1>4. CASE Ended \/ UNCHANGED vars
  BY <1>4 DEF Ended, vars, NoThreads
<1>. QED BY <1>1, <1>2, <1>3, <1>4 DEF Next

\* Every step is, for each worker, a step of OpLoop or changes nothing of it.
LEMMA LoopStep ==
    IInv /\ NoThreads /\ [Next]_vars =>
        \A v \in Workers : Loop(v)!Next \/ UNCHANGED LoopVars(v)
<1>. SUFFICES ASSUME IInv, NoThreads, [Next]_vars, NEW v \in Workers
              PROVE  Loop(v)!Next \/ UNCHANGED LoopVars(v)
  OBVIOUS
<1>0. TypeOK'
  BY InvStep DEF IInv
<1>1. CASE MainStep \/ MainWakes
  BY <1>0, <1>1, MainLoop
<1>2. ASSUME NEW w \in Workers, WorkerStep(w) \/ ClusterStep(w)
      PROVE  Loop(v)!Next \/ UNCHANGED LoopVars(v)
  <2>1. CASE w = v
    BY <1>0, <1>2, <2>1, WorkerLoop
  <2>2. CASE w # v
    BY <1>2, <2>2, OtherLoop
  <2>. QED BY <2>1, <2>2
<1>3. ASSUME NEW w \in Workers, HarnessStep(w) PROVE Loop(v)!Next \/ UNCHANGED LoopVars(v)
  <2>1. CASE w = v
    BY <1>0, <1>3, <2>1, HarnessLoop
  <2>2. CASE AbortOnBadDataset(w)
    BY <2>2, AbortLoop
  <2>3. CASE w # v /\ ~AbortOnBadDataset(w)
    BY <1>3, <2>3, OtherLoop
  <2>. QED BY <2>1, <2>2, <2>3
<1>4. CASE Ended \/ UNCHANGED vars
  BY <1>4 DEF Ended, vars, LoopVars, Endings, mainVars, ownVars, handleVars, sharedVars
<1>. QED BY <1>1, <1>2, <1>3, <1>4 DEF Next

\* Whatever the control thread, the other workers and the harnesses do, each worker's
\* operation loop keeps to OpLoop: a cancel is never lost while the loop runs, and
\* nothing ends it but a cancel, its own end, a failed batch or the end of the process.
THEOREM LoopsAreSafe == Spec => LoopsSafe
<1>1. Init => NoThreads /\ \A w \in Workers : Loop(w)!Init
  BY DEF Init, NoThreads, Loop!Init, Loop!Idle
<1>2. IInv /\ NoThreads /\ [Next]_vars => [\A w \in Workers : [Loop(w)!Next]_(Loop(w)!vars)]_vars
  BY LoopStep DEF LoopVars, Loop!vars
<1>. QED BY <1>1, <1>2, NoThreadsStep, Invariance, PTL DEF Spec, LoopsSafe
=============================================================================
