------------------------------ MODULE IOProto -------------------------------
(***************************************************************************)
(* The line protocol of one data connection: IOProtoHandler, and the       *)
(* select loop of the worker around it.                                    *)
(*                                                                         *)
(* The harness sends requests, a line each; the network delivers them in   *)
(* pieces.  The daemon waits in select, splits what has come at the        *)
(* newlines, takes one line per wake-up and answers it; the responses go   *)
(* out as far as the socket takes them.                                    *)
(*                                                                         *)
(* Line n of kind k is, on the wire, the piece <<n, "body">> (none if it   *)
(* is empty) and <<n, "nl">>; its response is in two pieces.               *)
(***************************************************************************)
EXTENDS Integers, Sequences, SequencesExt

CONSTANTS
    MaxLines,   \* bound on the lines the harness sends
    LineKinds   \* the kinds of lines it may send

ASSUME IOProtoAssumption ==
    /\ MaxLines \in Nat
    /\ LineKinds \subseteq {"request", "invalid", "close", "empty"}

VARIABLES
    lines,     \* the kinds of the lines sent or being sent
    partial,   \* the last of them lacks its newline
    pipelined, \* history: it has sent a line before the last request was answered
    conn,      \* "open", "eof" (the harness closed its end), "reset"
    kernel,    \* pieces that have come and are not read
    inbuf,     \* the line that is not complete
    newlines,  \* complete lines, not taken
    sockfd,    \* the descriptor is "open" or -1 ("closed")
    outbuf,    \* pieces of responses to send
    received,  \* pieces the harness has received
    taken,     \* history: the lines taken
    ppc        \* "select", "flush" (flushBufferBlock at the end), "ended", "ub"

harnessVars == <<lines, partial, pipelined, conn>>
inVars == <<kernel, inbuf, newlines, taken, sockfd>>
outVars == <<outbuf, received>>
vars == <<harnessVars, inVars, outVars, ppc>>

Init ==
    /\ lines = <<>> /\ partial = FALSE /\ pipelined = FALSE /\ conn = "open"
    /\ kernel = <<>> /\ inbuf = <<>> /\ newlines = <<>> /\ taken = <<>>
    /\ sockfd = "open" /\ outbuf = <<>> /\ received = <<>>
    /\ ppc = "select"

Response(n) == <<<<n, 1>>, <<n, 2>>>>

\* Requests that get a response.
IsAnswered(n) == lines[n] \in {"request", "invalid"}
HasResponse(n) == <<n, 2>> \in Range(received)

-----------------------------------------------------------------------------
(* The harness and the network *)

SendBody(k) ==
    /\ conn = "open" /\ ~partial /\ Len(lines) < MaxLines
    /\ pipelined' = (pipelined \/ \E n \in 1..Len(lines) : IsAnswered(n) /\ ~HasResponse(n))
    /\ lines' = Append(lines, k) /\ partial' = TRUE
    /\ kernel' = IF k = "empty" THEN kernel ELSE Append(kernel, <<Len(lines) + 1, "body">>)
    /\ UNCHANGED <<conn, inbuf, newlines, taken, sockfd, outVars, ppc>>

SendNewline ==
    /\ conn = "open" /\ partial
    /\ partial' = FALSE
    /\ kernel' = Append(kernel, <<Len(lines), "nl">>)
    /\ UNCHANGED <<lines, pipelined, conn, inbuf, newlines, taken, sockfd, outVars, ppc>>

Close ==
    /\ conn = "open" /\ conn' = "eof"
    /\ UNCHANGED <<lines, partial, pipelined, inVars, outVars, ppc>>

\* The connection breaks; what was under way is lost.
Reset ==
    /\ conn # "reset" /\ conn' = "reset" /\ kernel' = <<>>
    /\ UNCHANGED <<lines, partial, pipelined, inbuf, newlines, taken, sockfd, outVars, ppc>>

-----------------------------------------------------------------------------
(* The daemon *)

\* A newline completes the line; anything else is appended to it.
AddPiece(acc, piece) ==
    IF piece[2] = "nl" THEN [buf |-> <<>>, done |-> Append(acc.done, acc.buf)]
    ELSE [buf |-> Append(acc.buf, piece), done |-> acc.done]

\* readSocket: all that has come, split into lines.
Split(buf, input) ==
    LET read[i \in 0..Len(input)] ==
            IF i = 0 THEN [buf |-> buf, done |-> <<>>] ELSE AddPiece(read[i - 1], input[i])
    IN  read[Len(input)]

\* Where the first line that is not empty is (0: nowhere).
FirstFull(s) == SelectInSeq(s, LAMBDA line : line # <<>>)

\* getRawMessage: the lines at hand.  The socket is read only when there is none, or
\* when the first one turns out to be empty.
AtHand == IF newlines # <<>> /\ newlines[1] # <<>> THEN newlines
          ELSE newlines \o Split(inbuf, kernel).done

\* ... and what is read then.
ReadSocket ==
    IF newlines # <<>> /\ newlines[1] # <<>> THEN UNCHANGED <<kernel, inbuf>>
    ELSE kernel' = <<>> /\ inbuf' = Split(inbuf, kernel).buf

\* select() says that the socket can be read.
Readable == kernel # <<>> \/ conn # "open"

\* Mutant: all lines at hand are thrown away with the one taken.
TakeLine_DropsRest ==
    /\ ppc = "select" /\ Readable /\ FirstFull(AtHand) # 0
    /\ ReadSocket
    /\ LET n == AtHand[FirstFull(AtHand)][1][1]
       IN  /\ newlines' = <<>>
           /\ taken' = Append(taken, n)
           /\ outbuf' = IF IsAnswered(n) THEN outbuf \o Response(n) ELSE outbuf
           /\ ppc' = IF lines[n] = "request" THEN "select" ELSE "flush"
    /\ UNCHANGED <<harnessVars, sockfd, received>>

\* A line is taken: a request is processed and answered, one that does not decode is
\* answered and ends the connection, CLOSEHANDLE ends it.
TakeLine ==
    /\ ppc = "select" /\ Readable /\ FirstFull(AtHand) # 0
    /\ ReadSocket
    /\ LET n == AtHand[FirstFull(AtHand)][1][1]
       IN  /\ newlines' = SubSeq(AtHand, FirstFull(AtHand) + 1, Len(AtHand))
           /\ taken' = Append(taken, n)
           /\ outbuf' = IF IsAnswered(n) THEN outbuf \o Response(n) ELSE outbuf
           /\ ppc' = IF lines[n] = "request" THEN "select" ELSE "flush"
    /\ UNCHANGED <<harnessVars, sockfd, received>>

\* No line is complete: wait on, or, at the end of the stream, leave the loop.
NoLine ==
    /\ ppc = "select" /\ Readable /\ FirstFull(AtHand) = 0
    /\ ReadSocket /\ newlines' = <<>>
    /\ ppc' = IF conn = "open" THEN "select" ELSE "flush"
    /\ sockfd' = IF conn = "eof" THEN "closed" ELSE sockfd
    /\ UNCHANGED <<harnessVars, taken, outVars>>

\* Mutant: what was sent is not erased when the socket took a part of it.
Send_KeepsRest(k) ==
    /\ conn # "reset"
    /\ received' = received \o SubSeq(outbuf, 1, k)
    /\ outbuf' = IF k = Len(outbuf) THEN <<>> ELSE outbuf

\* flushBuffer: the socket takes k pieces and would block.
Send(k) ==
    /\ conn # "reset"
    /\ received' = received \o SubSeq(outbuf, 1, k)
    /\ outbuf' = SubSeq(outbuf, k + 1, Len(outbuf))

\* The socket can be written.
FlushBuffer ==
    /\ ppc = "select"
    /\ \E k \in 1..Len(outbuf) : Send(k)
    /\ UNCHANGED <<harnessVars, inVars, ppc>>

FlushFails ==
    /\ ppc = "select" /\ outbuf # <<>> /\ conn = "reset"
    /\ ppc' = "flush"
    /\ UNCHANGED <<harnessVars, inVars, outVars>>

\* flushBufferBlock, after the loop.
FlushBufferBlock ==
    /\ ppc = "flush" /\ outbuf # <<>> /\ sockfd = "open"
    /\ \/ \E k \in 1..Len(outbuf) : Send(k) /\ UNCHANGED ppc
       \/ conn = "reset" /\ ppc' = "ended" /\ UNCHANGED outVars
    /\ UNCHANGED <<harnessVars, inVars>>

\* The same when getRawMessage has closed the socket: FD_SET and select of -1, whose
\* outcome is undefined.
FlushClosed ==
    /\ ppc = "flush" /\ outbuf # <<>> /\ sockfd = "closed"
    /\ ppc' = "ub"
    /\ UNCHANGED <<harnessVars, inVars, outVars>>

\* Mutant: the worker ends without the final flush.
Flushed_Unsent ==
    /\ ppc = "flush"
    /\ ppc' = "ended"
    /\ UNCHANGED <<harnessVars, inVars, outVars>>

Flushed ==
    /\ ppc = "flush" /\ outbuf = <<>>
    /\ ppc' = "ended"
    /\ UNCHANGED <<harnessVars, inVars, outVars>>

Harness == SendNewline \/ Close \/ Reset \/ \E k \in LineKinds : SendBody(k)

Reading == TakeLine \/ NoLine
Writing == FlushBuffer \/ FlushFails \/ FlushBufferBlock \/ FlushClosed \/ Flushed

Next == Harness \/ Reading \/ Writing

Spec == Init /\ [][Next]_vars

\* The worker runs, and its socket takes more again and again.
FairSpec == Spec /\ WF_vars(Reading) /\ WF_vars(Writing)

-----------------------------------------------------------------------------
(* Properties *)

\* The lines among the first n of ls that are not empty, for every n.
Full(ls) ==
    LET full[n \in 0..Len(ls)] ==
            IF n = 0 THEN <<>>
            ELSE IF ls[n] = "empty" THEN full[n - 1] ELSE Append(full[n - 1], n)
    IN  full

\* The complete lines that are not empty.
Complete == IF partial THEN Len(lines) - 1 ELSE Len(lines)
Sent == Full(lines)[Complete]

\* A request, for Connection: a line and its kind.
WithKinds(s) == [i \in DOMAIN s |-> <<s[i], lines[s[i]]>>]
Reply(r) == IF r[2] \in {"request", "invalid"} THEN Response(r[1]) ELSE <<>>
EndsLoop(r) == r[2] # "request"

\* However the network cuts the requests up, however many come together and however little
\* the socket takes at a time (IODispatch.cpp:70-89, 168-213), the connection does what
\* Connection promises: nothing is lost, split, reordered or served twice, and nothing is
\* served after the line that ends the connection.
Promised == INSTANCE Connection WITH
    sent <- WithKinds(Sent), served <- WithKinds(taken), heard <- received,
    Reply <- Reply, Final <- EndsLoop

RequestsServed == Promised!Spec

\* A harness that waits for each response gets it, an error for a request that does
\* not decode included, unless the connection was to end before.
RequestAnswered ==
    \A n \in 1..MaxLines :
        (n \in {k \in Range(Sent) : IsAnswered(k)}) ~>
            (\/ HasResponse(n) \/ conn # "open" \/ pipelined
             \/ \E m \in DOMAIN lines : m < n /\ lines[m] \in {"invalid", "close"})

\* Requests that came together are taken one per wake-up: at the latest when the
\* harness closes its end all of them have been, up to the one that ends the connection.
EofTakesAll ==
    (conn = "eof") ~>
        (\/ taken = Sent \/ conn = "reset"
         \/ \E i \in DOMAIN taken : lines[taken[i]] \in {"invalid", "close"})
=============================================================================
