----------------------------- MODULE ResultSet ------------------------------
(***************************************************************************)
(* The result set of one operation (ResultSet.h, ResultSet.cpp): the       *)
(* counts by outcome, the time windows the results fall in by the wall     *)
(* clock, and the durations that resultsJson summarises.                   *)
(*                                                                         *)
(* The worker marks the beginning of each request (markBegin) and reports  *)
(* the results of a batch in order (setRescode) while the clock runs; the  *)
(* clock may also be set back.  Time is in ticks, Second ticks to a second.*)
(***************************************************************************)
EXTENDS Integers, FiniteSets, Sequences

CONSTANTS
    TimeRes,     \* the TimeRes options of the harness, in seconds (0: not given)
    Second,      \* ticks in a second
    PFactor,     \* PercentileFactor
    Width,       \* unsigned int is 0..Width-1
    Start,       \* the time at which the operation begins
    MaxTime,     \* bound on the clock
    MaxRequests  \* bound on the requests

ASSUME ResultSetAssumption ==
    /\ TimeRes \subseteq Nat /\ Second \in Nat \ {0} /\ PFactor \in 0..100
    /\ Width \in Nat /\ Width > MaxTime
    /\ Start \in Nat /\ MaxTime \in Nat /\ Start <= MaxTime /\ MaxRequests \in Nat
    \* the epoch is long over
    /\ Start >= Second /\ \A res \in TimeRes : Start >= Second * res

Outcomes == {"ok", "err"}

VARIABLES
    now,          \* the wall clock
    marks,        \* the operation marks the beginning of its requests
    timeres,      \* options.timeres
    opstart_tmsec,
    cur_wintime, win_begin,  \* seconds
    timestats,    \* the windows
    stats,        \* results by outcome
    begun,        \* history: when each request without a result was sent
    latest,       \* history: the latest frame a result came in
    stepped       \* history: the clock has been set back

windowVars == <<timeres, cur_wintime, win_begin, timestats, stats>>
vars == <<now, marks, opstart_tmsec, windowVars, begun, latest, stepped>>

\* TimeWindow(); time_min starts at the largest unsigned int.  frames is history:
\* when its results came.
NewWindow == [count |-> 0, time_min |-> Width - 1, time_max |-> 0,
              durations |-> <<>>, ec |-> [o \in Outcomes |-> 0], frames |-> {}]

\* A window that a long outage leaves empty.
GapWindow == [NewWindow EXCEPT !.time_min = 0]

Init ==
    /\ now = Start /\ timeres \in TimeRes /\ marks \in BOOLEAN
    /\ opstart_tmsec = 0 /\ cur_wintime = 0 /\ win_begin = 0
    /\ timestats = <<>> /\ stats = [o \in Outcomes |-> 0]
    /\ begun = <<>> /\ latest = 0 /\ stepped = FALSE

Total == stats.ok + stats.err

\* Mutant: only the first request of a batch is marked.
Send_MarksFirst ==
    /\ Len(begun) + Total < MaxRequests
    /\ begun' = Append(begun, now)
    /\ opstart_tmsec' = IF marks /\ begun = <<>> THEN now ELSE opstart_tmsec
    /\ UNCHANGED <<now, marks, windowVars, latest, stepped>>

\* A request goes out; markBegin, but not in the view loader.
Send ==
    /\ Len(begun) + Total < MaxRequests
    /\ begun' = Append(begun, now)
    /\ opstart_tmsec' = IF marks THEN now ELSE opstart_tmsec
    /\ UNCHANGED <<now, marks, windowVars, latest, stepped>>

Step == IF timeres = 0 THEN 1 ELSE timeres
Frame == (now \div Second) - ((now \div Second) % Step)
Duration == now - opstart_tmsec

\* Mutant: an outage opens one window only.
Missed_One == 1

\* Mutant: the loop runs once more when the last window is reached.
Missed_Extra == (Frame - cur_wintime) \div Step + 1

\* Windows that the clock has gone through since the last result.
Missed == (Frame - cur_wintime + Step - 1) \div Step

\* Mutant: the last of the new windows is as empty as the others.
Opened_KeepsGap ==
    IF cur_wintime = 0 THEN <<NewWindow>>
    ELSE IF cur_wintime < Frame
    THEN timestats \o [i \in 1..Missed |-> GapWindow]
    ELSE timestats

\* The windows, up to the one the result falls in.
Opened ==
    IF cur_wintime = 0 THEN <<NewWindow>>
    ELSE IF cur_wintime < Frame
    THEN timestats \o [i \in 1..Missed |-> IF i = Missed THEN NewWindow ELSE GapWindow]
    ELSE timestats

Lesser(a, b) == IF a <= b THEN a ELSE b
Greater(a, b) == IF a >= b THEN a ELSE b

\* Mutant: the minimum is compared as a signed number.
Counted_Signed(win, outcome) ==
    [win EXCEPT
        !.count = @ + 1,
        !.time_min = Lesser(@, Duration),
        !.time_max = Greater(@, Duration),
        !.durations = Append(@, Duration),
        !.ec[outcome] = @ + 1,
        !.frames = @ \cup {Frame}]

\* A result in its window; the durations of min and max are unsigned.
Counted(win, outcome) ==
    [win EXCEPT
        !.count = @ + 1,
        !.time_min = Lesser(@, Duration % Width),
        !.time_max = Greater(@, Duration % Width),
        !.durations = Append(@, Duration),
        !.ec[outcome] = @ + 1,
        !.frames = @ \cup {Frame}]

\* The next result of the batch is reported.
SetRescode(outcome) ==
    /\ begun # <<>>
    /\ begun' = Tail(begun)
    /\ stats' = [stats EXCEPT ![outcome] = @ + 1]
    /\ timeres' = Step
    /\ timestats' = [Opened EXCEPT ![Len(Opened)] = Counted(@, outcome)]
    /\ win_begin' = IF cur_wintime = 0 THEN Frame ELSE win_begin
    /\ cur_wintime' = IF cur_wintime = 0 THEN Frame
                      ELSE IF cur_wintime < Frame THEN cur_wintime + Missed * Step
                      ELSE cur_wintime
    /\ latest' = Greater(latest, Frame)
    /\ UNCHANGED <<now, marks, opstart_tmsec, stepped>>

\* Time passes ...
Tick ==
    /\ now < MaxTime
    /\ now' = now + 1
    /\ UNCHANGED <<marks, opstart_tmsec, windowVars, begun, latest, stepped>>

\* ... and may be corrected (once, here).
StepBack ==
    /\ ~stepped /\ stepped' = TRUE
    /\ now' \in Start..(now - 1)
    /\ UNCHANGED <<marks, opstart_tmsec, windowVars, begun, latest>>

Next == Send \/ (\E o \in Outcomes : SetRescode(o)) \/ Tick \/ StepBack

Spec == Init /\ [][Next]_vars

-----------------------------------------------------------------------------
(* What resultsJson reports of a window *)

\* The index into the sorted durations, by integer division (so ceil does nothing).
PercentileIndex(n) == (n * PFactor) \div 100 - 1

\* The duration at that index; there is none at -1, and the code then reads before
\* the vector.
Percentile(durations) ==
    LET n == Len(durations)
        idx == IF n = 1 THEN 0 ELSE PercentileIndex(n)
        NumBelow(d) == Cardinality({i \in 1..n : durations[i] < d})
        NumUpTo(d) == Cardinality({i \in 1..n : durations[i] <= d})
    IN  IF n = 0 THEN 0
        ELSE CHOOSE d \in {durations[i] : i \in 1..n} :
                 NumBelow(d) <= idx /\ idx < NumUpTo(d)

-----------------------------------------------------------------------------
(* Properties *)

\* Every variable has its type.
TypeOK ==
    /\ now \in Start..MaxTime /\ timeres \in TimeRes \cup {1} /\ marks \in BOOLEAN
    /\ opstart_tmsec \in 0..MaxTime
    /\ cur_wintime \in Nat /\ win_begin \in Nat /\ latest \in Nat /\ stepped \in BOOLEAN
    /\ stats \in [Outcomes -> Nat]
    /\ \A i \in 1..Len(timestats) :
          /\ timestats[i].time_min \in 0..(Width-1) /\ timestats[i].time_max \in 0..(Width-1)
          /\ timestats[i].count = Len(timestats[i].durations)
    /\ \A i \in 1..Len(begun) : begun[i] \in Start..MaxTime

\* The harness finds the time of window i at base + i * step: each result is in the
\* window of the time it came, over outages of any length, or in the last one if the
\* clock was set back.
WindowOfItsTime ==
    \A i \in 1..Len(timestats) : \A f \in timestats[i].frames :
        LET time == win_begin + (i - 1) * timeres
        IN  f <= time /\ (f = time \/ stepped)

\* The windows reach up to the latest result.
WindowsReachLatest ==
    timestats # <<>> => win_begin + (Len(timestats) - 1) * timeres = latest

\* The results with outcome o in the windows.
CountedIn(windows, o) ==
    LET Upto[i \in 0..Len(windows)] ==
            IF i = 0 THEN 0 ELSE Upto[i - 1] + windows[i].ec[o]
    IN  Upto[Len(windows)]

\* The windows together count every result, with its outcome, exactly once; and, while
\* the clock is not set back, what a window says of its durations agrees: the minimum
\* and the maximum are durations of the window's own results, also in a window opened
\* after an outage, the percentile lies between them, and an empty window has zeros.
\* (For a PercentileFactor below 50 there is no percentile of two results.)
WindowFiguresAgree ==
    /\ \A o \in Outcomes : CountedIn(timestats, o) = stats[o]
    /\ ~stepped =>
        \A i \in 1..Len(timestats) :
            LET win == timestats[i]
                own == {win.durations[j] : j \in 1..win.count}
            IN  /\ {win.time_min, win.time_max} \subseteq
                       IF win.count = 0 THEN {0} ELSE own
                /\ PFactor >= 50 => /\ win.time_min <= Percentile(win.durations)
                                    /\ Percentile(win.durations) <= win.time_max

\* No result of an operation that marks its requests is reported slower than it was:
\* the duration reported next is at most the time since that request was sent.
NeverOverstated ==
    marks /\ begun # <<>> /\ ~stepped => Duration <= now - begun[1]
=============================================================================
