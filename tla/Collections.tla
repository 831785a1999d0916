----------------------------- MODULE Collections ----------------------------
(***************************************************************************)
(* The scopes and collections of a test (Collections.cpp): the handles of  *)
(* a session are opened by different workers, the first makes the          *)
(* collections, and every operation finds its collection by its key        *)
(* (Handle::getCollection).                                                *)
(*                                                                         *)
(* The loops of generateCollections make a scope, then its collections,    *)
(* then the next scope: creation n, for n in 0..Total-1, in that order.    *)
(***************************************************************************)
EXTENDS Integers, FiniteSets

CONSTANTS
    Handles,    \* the handles opened with collections, each in a worker
    Scopes,     \* options.scopes
    PerScope,   \* options.collections
    KeyNumbers  \* the numbers in the last three characters of the keys

\* The harness asks for at least one collection.
ASSUME CollectionsAssumption ==
    /\ Scopes \in Nat \ {0} /\ PerScope \in Nat \ {0}
    /\ KeyNumbers \subseteq 0..999

VARIABLES
    up,        \* the process is running
    flag,      \* collectionsGenerated
    created,   \* the creations that exist on the server
    pc,        \* of a handle: "load" and "store" of the flag, "create", and once it is
               \* open the outcome: "generated", "skipped", "failed"
    pos,       \* the next creation of a handle's loops
    missed,    \* history: an operation of the handle did not find its collection
    spoiled    \* history: a creation failed in the library, or an earlier process left
               \* the collections half made

vars == <<up, flag, created, pc, pos, missed, spoiled>>

Total == Scopes * (PerScope + 1)
All == 0..(Total - 1)

IsScope(n) == n % (PerScope + 1) = 0
ScopeOf(n) == n \div (PerScope + 1)

\* Mutant: the numbers begin anew in each scope.
CollectionOf_Anew(n) == (n % (PerScope + 1)) - 1

\* j runs on from scope to scope.
CollectionOf(n) == ScopeOf(n) * PerScope + (n % (PerScope + 1)) - 1

Init ==
    /\ up = TRUE /\ flag = FALSE
    /\ \E n \in 0..Total : created = 0..(n - 1)
    /\ spoiled = (created # {} /\ created # All)
    /\ pc = [h \in Handles |-> "load"] /\ pos = [h \in Handles |-> 0]
    /\ missed = [h \in Handles |-> FALSE]

\* collectionsGenerated.load(): some other handle has set it, and this one goes on.
Load(h) ==
    /\ up /\ pc[h] = "load"
    /\ pc' = [pc EXCEPT ![h] = IF flag THEN "skipped" ELSE "store"]
    /\ UNCHANGED <<up, flag, created, pos, missed, spoiled>>

Store(h) ==
    /\ up /\ pc[h] = "store"
    /\ flag' = TRUE
    /\ pc' = [pc EXCEPT ![h] = "create"]
    /\ UNCHANGED <<up, created, pos, missed, spoiled>>

\* Mutant: the loop does not go on.
Created_Stays(h) ==
    /\ up /\ pc[h] = "create" /\ pos[h] \notin created
    /\ created' = created \cup {pos[h]}
    /\ pc' = IF pos[h] + 1 = Total THEN [pc EXCEPT ![h] = "generated"] ELSE pc
    /\ UNCHANGED <<up, flag, pos, missed, spoiled>>

\* Mutant: the first collection of a scope is left out.
Created_LeavesFirst(h) ==
    /\ up /\ pc[h] = "create" /\ pos[h] \notin created
    /\ created' = created \cup {pos[h]}
    /\ pos' = [pos EXCEPT ![h] = IF IsScope(@) THEN @ + 2 ELSE @ + 1]
    /\ pc' = IF pos[h] + 1 = Total THEN [pc EXCEPT ![h] = "generated"] ELSE pc
    /\ UNCHANGED <<up, flag, missed, spoiled>>

\* Mutant: one scope too many.
Created_NoEnd(h) ==
    /\ up /\ pc[h] = "create" /\ pos[h] \notin created
    /\ created' = created \cup {pos[h]}
    /\ pos' = [pos EXCEPT ![h] = @ + 1]
    /\ pc' = IF pos[h] = Total THEN [pc EXCEPT ![h] = "generated"] ELSE pc
    /\ UNCHANGED <<up, flag, missed, spoiled>>

\* The server makes what was asked for; at the end of the loops, true.
Created(h) ==
    /\ up /\ pc[h] = "create" /\ pos[h] \notin created
    /\ created' = created \cup {pos[h]}
    /\ pos' = [pos EXCEPT ![h] = @ + 1]
    /\ pc' = IF pos[h] + 1 = Total THEN [pc EXCEPT ![h] = "generated"] ELSE pc
    /\ UNCHANGED <<up, flag, missed, spoiled>>

\* It exists already: an error like any other, the loops end.
Exists(h) ==
    /\ up /\ pc[h] = "create" /\ pos[h] \in created
    /\ pc' = [pc EXCEPT ![h] = "failed"]
    /\ UNCHANGED <<up, flag, created, pos, missed, spoiled>>

\* The library fails; the server may have done it all the same.
Fails(h) ==
    /\ up /\ pc[h] = "create"
    /\ created' \in {created, created \cup {pos[h]}}
    /\ pc' = [pc EXCEPT ![h] = "failed"]
    /\ spoiled' = TRUE
    /\ UNCHANGED <<up, flag, pos, missed>>

\* NEWHANDLE is answered for success whatever came of it.
IsOpen(h) == pc[h] \in {"generated", "skipped", "failed"}

\* Where getCollection looks for a key.
CollectionNum(num) == num % (PerScope * Scopes)
ScopeNum(num) == CollectionNum(num) \div PerScope

IsFound(num) ==
    \E n \in created :
        ~IsScope(n) /\ ScopeOf(n) = ScopeNum(num) /\ CollectionOf(n) = CollectionNum(num)

\* An operation of an open handle on a key with a number.
Use(h) ==
    /\ up /\ IsOpen(h)
    /\ \E num \in KeyNumbers : missed' = [missed EXCEPT ![h] = @ \/ ~IsFound(num)]
    /\ UNCHANGED <<up, flag, created, pc, pos, spoiled>>

\* An operation on a key without digits at its end: stoi throws, nothing catches it.
UseNoNumber(h) ==
    /\ up /\ IsOpen(h)
    /\ up' = FALSE
    /\ UNCHANGED <<flag, created, pc, pos, missed, spoiled>>

Opening(h) == Load(h) \/ Store(h) \/ Created(h) \/ Exists(h) \/ Fails(h)

Next == \E h \in Handles : Opening(h) \/ Use(h) \/ UseNoNumber(h)

Spec == Init /\ [][Next]_vars

\* Each worker runs on, and the library answers each request.
FairSpec == Spec /\ \A h \in Handles : WF_vars(Opening(h))

-----------------------------------------------------------------------------
(* Properties *)

Outcomes == {"generated", "skipped", "failed"}

\* Every variable has its type.
TypeOK ==
    /\ up \in BOOLEAN /\ flag \in BOOLEAN /\ spoiled \in BOOLEAN
    /\ created \subseteq All
    /\ pc \in [Handles -> {"load", "store", "create"} \cup Outcomes]
    /\ pos \in [Handles -> 0..Total] /\ \A h \in Handles : pc[h] = "create" => pos[h] < Total
    /\ missed \in [Handles -> BOOLEAN]

\* Several handles may find the flag unset and all start to create; yet, unless the
\* library fails, one of them always carries the creation on until it is complete.
RaceHarmless ==
    flag /\ ~spoiled =>
        \/ created = All
        \/ \E h \in Handles : pc[h] = "create" /\ pos[h] \notin created

\* A collection is made only after its scope, and no creation is left out between
\* others, whoever makes them and whatever fails.
NoGaps == \A n \in created : n = 0 \/ n - 1 \in created

\* The handle whose generateCollections returned true finds the collection of every
\* key: the numbers given by the loops are those that getCollection works out.
GeneratorFindsAll == \A h \in Handles : pc[h] = "generated" => ~missed[h]

\* Unless the library fails, the collections come to exist.
CollectionsComplete == flag ~> (created = All \/ spoiled \/ ~up)
=============================================================================
