----------------------------- MODULE MCDatasets -----------------------------
(* Values for TLC: indices of one and two digits, strings with and without digits. *)
EXTENDS Datasets

MCRepeats == {<<>>, <<"_">>, <<"1", "_">>}
MCPairs == {<<>>, <<TRUE, TRUE>>, <<TRUE, FALSE, TRUE>>, <<FALSE, TRUE, FALSE>>}
MCCounts == [k \in Kinds |-> IF k = "SEEDED" THEN {0, 2, 13} ELSE {0, 3}]
MCChars == Decimal \cup {"k", "_"}
MCSeed == <<"k", "1">>
=============================================================================
