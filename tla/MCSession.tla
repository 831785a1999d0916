------------------------------ MODULE MCSession -----------------------------
(***************************************************************************)
(* The command lines that TLC starts the daemon with: any port told in a   *)
(* file, a given port, one session only, and nothing to listen on.         *)
(***************************************************************************)
EXTENDS Session

Line(persist, file, port, ttl) ==
    [isPersistent |-> persist, portFile |-> file, portNumber |-> port, initialTTL |-> ttl]

MCOptions ==
    {Line(TRUE, TRUE, 0, 2), Line(FALSE, TRUE, 7, 0), Line(FALSE, FALSE, 0, 0)}
=============================================================================
