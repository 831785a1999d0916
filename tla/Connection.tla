----------------------------- MODULE Connection ----------------------------
(***************************************************************************)
(* What the daemon promises a harness on one connection, whatever the      *)
(* network does to the bytes: requests are served one at a time, in the    *)
(* order they were sent, and the responses reach the harness in that       *)
(* order, each once.  IOProto implements it.                               *)
(***************************************************************************)
EXTENDS Naturals, Sequences, SequencesExt

CONSTANTS
    Reply(_),  \* the response to a request, in the pieces that travel alone; may be empty
    Final(_)   \* the connection ends with this request

VARIABLES
    sent,      \* the requests sent
    served,    \* those the daemon has served
    heard      \* the pieces of responses the harness has

vars == <<sent, served, heard>>

\* The pieces of all responses to the requests s.
Replies(s) == FlattenSeq([i \in DOMAIN s |-> Reply(s[i])])

Init == sent = <<>> /\ served = <<>> /\ heard = <<>>

Ask ==
    /\ Len(sent') = Len(sent) + 1 /\ IsPrefix(sent, sent')
    /\ UNCHANGED <<served, heard>>

Serve ==
    /\ Len(served) < Len(sent)
    /\ served # <<>> => ~Final(served[Len(served)])
    /\ served' = Append(served, sent[Len(served) + 1])
    /\ UNCHANGED <<sent, heard>>

Hear ==
    /\ heard' # heard /\ IsPrefix(heard, heard')
    /\ IsPrefix(heard', Replies(served))
    /\ UNCHANGED <<sent, served>>

Next == Ask \/ Serve \/ Hear

Spec == Init /\ [][Next]_vars
=============================================================================
