------------------------------ MODULE Datasets ------------------------------
(***************************************************************************)
(* Datasets and their iterators (Dataset.cpp and its kinds), from the      *)
(* request that carries or names one to the keys an operation gets.        *)
(*                                                                         *)
(* The control thread takes NEWDATASET requests for the registry dsmap;    *)
(* one worker takes requests with a dataset of their own or a reference,   *)
(* and runs its loop: start, then an item and an advance until done.       *)
(***************************************************************************)
EXTENDS Integers, Sequences, SequencesExt, Functions

CONSTANTS
    Chars,     \* the characters of the seed and of the repeated strings, and the digits
    KSeed,     \* the seed of the keys, a sequence of characters
    Repeats,   \* the strings that may be repeated
    KSizes,    \* the sizes of key asked for
    Counts,    \* the numbers of items, for each kind
    Pairs,     \* inline items: which are pairs, the others being bare keys
    Id,        \* the ID of a dataset
    Width,     \* unsigned int is 0..Width-1
    MaxItems   \* bound on the items of a continuous dataset that are looked at

\* The decimal digits.
Digit == <<"0", "1", "2", "3", "4", "5", "6", "7", "8", "9">>
Decimal == Range(Digit)

Kinds == {"SEEDED", "INLINE", "N1QL", "SD", "FTS", "CBAS"}

ASSUME DatasetsAssumption ==
    /\ Width \in Nat \ {0} /\ MaxItems \in Nat
    /\ KSizes \subseteq 0..(Width - 1)
    /\ Counts \in [Kinds -> SUBSET (0..(Width - 1))]
    /\ Decimal \subseteq Chars
    /\ KSeed \in Seq(Chars) /\ Repeats \subseteq Seq(Chars)
    /\ \A p \in Pairs : p \in Seq(BOOLEAN) /\ Len(p) < Width

VARIABLES
    proc,     \* the process is "up" or has "aborted"
    dsmap,    \* dsmap[Id]: a specification or None
    asked,    \* history: of NEWDATASET, whether it was well-formed (a valid dataset and
              \* an ID), and its number of error answers
    phase,    \* of the worker: "idle", "loop", "ended", "cancelled"
    spec,     \* the dataset it runs over
    curidx, curk, curv,  \* the iterator; curv: whose value it is
    items     \* history: the items the loop had (index, key, value)

regVars == <<dsmap, asked>>
iterVars == <<curidx, curk, curv>>
vars == <<proc, regVars, phase, spec, iterVars, items>>

None == [kind |-> "NONE"]

\* What a request can specify, by kind.
SeededSpecs == [kind : {"SEEDED"}, count : Counts["SEEDED"], continuous : BOOLEAN,
                repeat : Repeats, ksize : KSizes]
InlineSpecs == {[kind |-> "INLINE", count |-> Len(p), continuous |-> FALSE, pairs |-> p] :
                    p \in Pairs}
N1QLSpecs == [kind : {"N1QL"}, count : Counts["N1QL"], continuous : BOOLEAN,
              params : 0..2, values : 0..2]
SDSpecs == [kind : {"SD"}, count : Counts["SD"], continuous : BOOLEAN]
FTSSpecs == [kind : {"FTS"}, count : Counts["FTS"], continuous : {FALSE}]
CBASSpecs == [kind : {"CBAS"}, count : Counts["CBAS"], continuous : {FALSE}]

Specs == SeededSpecs \cup InlineSpecs \cup N1QLSpecs \cup SDSpecs \cup FTSSpecs \cup CBASSpecs

\* The type of dataset a request names: of a kind, a file (which is not
\* implemented), a reference, or none that can be told.
Types == Kinds \cup {"FILE", "REFERENCE", "INVALID"}

\* The type in the request and the ID returned with it: only that of a reference.
DetermineType(type, id) ==
    IF type = "REFERENCE" THEN (IF id = "" THEN <<"INVALID", "">> ELSE <<type, id>>)
    ELSE <<type, "">>

\* fromType: the dataset, None for the types that have no constructor.
FromType(type, s) == IF type \in Kinds THEN s ELSE None

\* isValid, after verify_spec of each kind; an inline dataset needs items.
IsValid(s) ==
    /\ s.count > 0
    /\ s.kind = "N1QL" => s.params > 0 /\ s.values > 0

Init ==
    /\ proc = "up" /\ dsmap = None /\ asked = [formed |-> FALSE, errors |-> 0]
    /\ phase = "idle" /\ spec = None
    /\ curidx = 0 /\ curk = <<>> /\ curv = -1 /\ items = <<>>

-----------------------------------------------------------------------------
(* The registry: create_new_ds *)

\* A request for a dataset s of its kind (None for the other types).
NewDataset(type, s, id) ==
    /\ proc = "up" /\ asked.errors = 0
    /\ LET dt == DetermineType(type, id)
           ds == FromType(dt[1], s)
           stored == ds # None /\ IsValid(ds) /\ dt[2] # ""
           invalid == IF dt[1] = "INVALID" THEN 1 ELSE 0
       IN  /\ dsmap' = IF stored /\ dsmap = None THEN ds ELSE dsmap
           /\ asked' = [formed |-> s # None /\ IsValid(s) /\ id # "",
                        errors |-> invalid + IF stored /\ dsmap = None THEN 0 ELSE 1]
    /\ UNCHANGED <<proc, phase, spec, iterVars, items>>

-----------------------------------------------------------------------------
(* The keys *)

\* A number in decimal.
Digits[n \in Nat] ==
    IF n < 10 THEN <<Digit[n + 1]>> ELSE Append(Digits[n \div 10], Digit[(n % 10) + 1])

\* Mutant: only the last digit of the index.
Ext_LastDigit(repeat, idx) == Append(repeat, Digit[(idx % 10) + 1])

\* What is repeated: the string and the index.
Ext(repeat, idx) == repeat \o Digits[idx]

\* Mutant: one more when the size is reached exactly.
Copies_OffByOne(base, limit, ext) ==
    CHOOSE m \in 1..(Width + 1) :
        /\ Len(base) + m * Len(ext) >= limit
        /\ m = 1 \/ Len(base) + (m - 1) * Len(ext) < limit

\* How often, at least once, for a size of limit-1, which is unsigned.
Copies(base, limit, ext) ==
    CHOOSE m \in 1..Width :
        /\ Len(base) + m * Len(ext) >= (limit - 1) % Width
        /\ m = 1 \/ Len(base) + (m - 1) * Len(ext) < (limit - 1) % Width

\* _fill_repeat
FillRepeat(base, limit, repeat, idx) ==
    LET ext == Ext(repeat, idx)
    IN  base \o FlattenSeq([i \in 1..Copies(base, limit, ext) |-> ext])

-----------------------------------------------------------------------------
(* The iterators *)

SeededData(s, idx) == curk' = FillRepeat(KSeed, s.ksize, s.repeat, idx) /\ curv' = idx

\* A bare key leaves the value of the item before it; an index beyond the items is a
\* bare empty key.
InlineData(s, idx) ==
    /\ curk' = IF idx < s.count THEN <<"key", idx>> ELSE <<>>
    /\ curv' = IF idx < s.count /\ s.pairs[idx + 1] THEN idx ELSE curv

N1QLData(idx) == curk' = Digits[idx] /\ curv' = idx

\* The value, the path and the command are those of the specification.
SDData(idx) == curk' = Digits[idx] /\ curv' = 0

FTSData(idx) == curk' = Digits[idx] /\ curv' = idx
CBASData(idx) == curk' = Digits[idx] /\ curv' = idx

\* The key and the value of an item.
InitData(s, idx) ==
    \/ s.kind = "SEEDED" /\ SeededData(s, idx)
    \/ s.kind = "INLINE" /\ InlineData(s, idx)
    \/ s.kind = "N1QL" /\ N1QLData(idx)
    \/ s.kind = "SD" /\ SDData(idx)
    \/ s.kind = "FTS" /\ FTSData(idx)
    \/ s.kind = "CBAS" /\ CBASData(idx)

\* The parameters of a N1QL item are set to the values pairwise; with fewer values
\* than parameters the iterator of the values runs beyond their end.
Overruns(s) == s.kind = "N1QL" /\ s.params > s.values

\* A request with a dataset: the worker aborts if it cannot tell its type, refuses
\* what has no constructor or is not registered, and otherwise starts; whether the
\* dataset is valid is not asked.
TakeRequest(type, s, id) ==
    /\ proc = "up" /\ phase = "idle"
    /\ LET dt == DetermineType(type, id)
           ds == IF dt[1] = "REFERENCE" THEN dsmap ELSE FromType(dt[1], s)
       IN  /\ proc' = IF dt[1] = "INVALID" THEN "aborted" ELSE "up"
           /\ IF dt[1] # "INVALID" /\ ds # None /\ ~Overruns(ds)
              THEN /\ phase' = "loop" /\ spec' = ds
                   /\ curidx' = 0 /\ InitData(ds, 0)
              ELSE UNCHANGED <<phase, spec, iterVars>>
    /\ items' = <<>> /\ UNCHANGED regVars

Done == ~spec.continuous /\ curidx >= spec.count

\* Mutant: a continuous dataset starts over one item late.
NextIdx_Late ==
    IF spec.continuous /\ curidx + 1 > spec.count THEN 0 ELSE (curidx + 1) % Width

NextIdx == IF spec.continuous /\ curidx + 1 >= spec.count THEN 0 ELSE (curidx + 1) % Width

\* The loop's body for an item, and advance.
Advance ==
    /\ proc = "up" /\ phase = "loop" /\ ~Done /\ Len(items) < MaxItems
    /\ items' = Append(items, [idx |-> curidx, key |-> curk, value |-> curv])
    /\ curidx' = NextIdx /\ InitData(spec, NextIdx)
    /\ UNCHANGED <<proc, regVars, phase, spec>>

End ==
    /\ proc = "up" /\ phase = "loop"
    /\ \/ Done /\ phase' = "ended"
       \/ ~Done /\ phase' = "cancelled"
    /\ UNCHANGED <<proc, regVars, spec, iterVars, items>>

\* The answer; the dataset is deleted.
Respond ==
    /\ proc = "up" /\ phase \in {"ended", "cancelled"}
    /\ phase' = "idle" /\ spec' = None
    /\ curidx' = 0 /\ curk' = <<>> /\ curv' = -1 /\ items' = <<>>
    /\ UNCHANGED <<proc, regVars>>

Next ==
    \/ Advance \/ End \/ Respond
    \/ \E s \in Specs \cup {None}, id \in {"", Id} :
          \E type \in IF s = None THEN Types \ Kinds ELSE {s.kind} :
              NewDataset(type, s, id) \/ TakeRequest(type, s, id)

Spec == Init /\ [][Next]_vars

-----------------------------------------------------------------------------
(* Properties *)

\* A loop has each item once and in order, all of them when it ends; a continuous
\* dataset goes round.  The value of an inline item is its own, or for a bare key that of
\* the nearest pair before it in the dataset (none: the empty string).
IterationExact ==
    /\ \A i \in DOMAIN items :
          items[i].idx = IF spec.continuous /\ spec.count > 0
                         THEN (i - 1) % spec.count
                         ELSE IF spec.continuous THEN 0 ELSE i - 1
    /\ phase = "ended" => Len(items) = spec.count
    /\ spec.kind = "INLINE" =>
          \A i \in DOMAIN items :
              LET paired == {k \in 1..(items[i].idx + 1) : spec.pairs[k]}
              IN  IF paired = {} THEN items[i].value = -1
                  ELSE items[i].value + 1 \in paired
                       /\ \A k \in paired : k <= items[i].value + 1

\* Different items have different keys, however the seed, the repeated string and the
\* size combine, if the string holds a character that is no digit.
KeysDistinct ==
    (spec.kind = "SEEDED" => Range(spec.repeat) \ Decimal # {}) =>
        \A i, j \in DOMAIN items :
            items[i].idx # items[j].idx => items[i].key # items[j].key

\* A key is as long as asked for, by less than a repetition, unless one repetition is
\* already longer.
KeyFits ==
    spec.kind = "SEEDED" /\ spec.ksize > 0 =>
        \A i \in DOMAIN items :
            LET ext == Len(Ext(spec.repeat, items[i].idx))
                len == Len(items[i].key)
            IN  /\ len >= spec.ksize - 1
                /\ len < spec.ksize - 1 + ext \/ len = Len(KSeed) + ext

\* "It only makes sense to construct an invidual dataset if we have an ID by which to
\* refer to it later on": a valid dataset with an ID is in the registry.
IdRegisters ==
    asked.formed => dsmap # None
=============================================================================
