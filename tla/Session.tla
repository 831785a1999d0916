------------------------------- MODULE Session ------------------------------
(***************************************************************************)
(* The process of the daemon from session to session (Main.cpp,            *)
(* Daemon.cpp), with the parts that outlive what started them: the         *)
(* sampling threads of the usage collectors (UsageCollector.cpp), started  *)
(* by INFO and GETUSAGE and cancelled but not joined by GOODBYE            *)
(* (Control.cpp), and the TTL, one alarm of the whole process              *)
(* (IODispatch.cpp, ThreadUnix.cpp).                                       *)
(*                                                                         *)
(* Time is counted in seconds that remain: of the alarm, and of each       *)
(* sleep.  The commands of the control connection that leave this state    *)
(* alone are in Dispatch and Datasets; how a session's workers end is in   *)
(* Dispatch.                                                               *)
(***************************************************************************)
EXTENDS Integers, Sequences

CONSTANTS
    Options,        \* the command lines: port 0 is none given, ttl 0 is none
    Ports,          \* the ports the kernel picks from
    Ttls,           \* the Seconds of a TTL command, but for the negative ones
    Interval,       \* seconds between two samples
    MaxSessions,    \* bound: sessions of a run of the daemon
    MaxCollectors,  \* bound: collectors it starts
    MaxSamples      \* bound: samples of a collector

\* A negative --ttl is an alarm in over a hundred years: none, as far as a test goes.
ASSUME SessionAssumption ==
    /\ Options \subseteq [isPersistent : BOOLEAN, portFile : BOOLEAN,
                          portNumber : Nat, initialTTL : Nat]
    /\ Ports \subseteq Nat \ {0} /\ Ttls \subseteq Nat
    /\ Interval \in Nat \ {0}
    /\ MaxSessions \in Nat /\ MaxCollectors \in Nat /\ MaxSamples \in Nat \ {0}

Collectors == 1..MaxCollectors
None == 0                      \* no collector

Fields == {"ts", "memory", "cpu_user", "cpu_system"}

VARIABLES
    opts,               \* myOptions
    proc,               \* the process: "up", or how it ended: "exited" by itself, "aborted"
                        \* by the alarm, "crashed" in undefined behaviour or by an exception
    mpc,                \* the control thread: "start", "bind", "accept", "loop", "report", "close"
    listenAddr,         \* the port in listenAddr
    infoFp,             \* the port file is open, nothing is written yet
    portInfo,           \* the port in the port file, 0 before it is written
    session,            \* history: the number of the session
    lost,               \* history: the sessions that ended without a GOODBYE
    isCollectingStats,
    coll,               \* the collector the session knows
    made,               \* collectors started so far; their numbers count up
    owner,              \* history: the session that started a collector, 0 for none
    spc,                \* its thread: "none", "init", "sample", "sleep", "ended"
    step,               \* the array that thread is at
    sleeping,           \* the seconds it still sleeps
    cancelled,          \* pthread_cancel was called for it
    kept,               \* the samples in each of its arrays; -1 is null, no array yet
    report,             \* the samples in each array of the report; -2 is not copied yet
    reported,           \* the number of arrays copied
    initialized,        \* Global_Timer.initialized
    alarm,              \* the seconds the alarm still has, 0 for none
    wanted              \* history: what remains of the TTL last asked for

daemonVars == <<opts, listenAddr, infoFp, portInfo, session, lost>>
collectVars == <<isCollectingStats, coll, made, owner>>
samplerVars == <<spc, step, sleeping, kept>>
reportVars == <<report, reported>>
timerVars == <<initialized, alarm, wanted>>
vars == <<proc, mpc, cancelled, daemonVars, collectVars, samplerVars, reportVars, timerVars>>

Gone == proc # "up"

-----------------------------------------------------------------------------
(* The arrays, in the order in which each part of the code goes through them. *)

InitOrder == <<"ts", "memory", "cpu_user", "cpu_system">>

\* Mutant: the time stamp first.
SampleOrder_TimeFirst == <<"ts", "cpu_user", "cpu_system", "memory">>

SampleOrder == <<"cpu_user", "cpu_system", "ts", "memory">>
ReportOrder == <<"ts", "memory", "cpu_user", "cpu_system">>

NextField(c) == IF spc[c] = "init" THEN InitOrder[step[c]] ELSE SampleOrder[step[c]]
Busy(c) == spc[c] \in {"init", "sample"}
Alive(c) == spc[c] \in {"init", "sample", "sleep"}

-----------------------------------------------------------------------------
(* The timer. *)

Seconds == Ttls \cup {-1}
Clamped(s) == IF s < 0 THEN 0 ELSE s

\* Mutant: the old alarm is taken for one that is not set.
SetTtl_NotDisabled(seconds) ==
    /\ alarm' = IF seconds # 0 THEN seconds ELSE alarm
    /\ initialized' = (seconds # 0)

SetTtl(seconds) ==
    /\ alarm' = IF seconds # 0 THEN seconds ELSE IF initialized THEN 0 ELSE alarm
    /\ initialized' = (seconds # 0)

-----------------------------------------------------------------------------
(* The daemon. *)

Init ==
    /\ opts \in Options
    /\ proc = "up" /\ mpc = "start"
    /\ listenAddr = 0 /\ infoFp = FALSE /\ portInfo = 0 /\ session = 0 /\ lost = {}
    /\ isCollectingStats = FALSE /\ coll = None /\ made = 0
    /\ owner = [c \in Collectors |-> 0] /\ spc = [c \in Collectors |-> "none"]
    /\ step = [c \in Collectors |-> 1] /\ sleeping = [c \in Collectors |-> 0]
    /\ cancelled = [c \in Collectors |-> FALSE]
    /\ kept = [c \in Collectors |-> [f \in Fields |-> -1]]
    /\ report = [f \in Fields |-> -2] /\ reported = 0
    /\ initialized = FALSE /\ alarm = 0 /\ wanted = 0

\* What the process keeps in memory, its threads and its alarm are gone with it.
Ends(how) ==
    /\ proc' = how /\ UNCHANGED <<opts, portInfo>>
    /\ mpc' = "start" /\ listenAddr' = 0 /\ infoFp' = FALSE /\ session' = 0 /\ lost' = {}
    /\ isCollectingStats' = FALSE /\ coll' = None /\ made' = 0
    /\ owner' = [c \in Collectors |-> 0] /\ spc' = [c \in Collectors |-> "none"]
    /\ step' = [c \in Collectors |-> 1] /\ sleeping' = [c \in Collectors |-> 0]
    /\ cancelled' = [c \in Collectors |-> FALSE]
    /\ kept' = [c \in Collectors |-> [f \in Fields |-> -1]]
    /\ report' = [f \in Fields |-> -2] /\ reported' = 0
    /\ initialized' = FALSE /\ alarm' = 0 /\ wanted' = 0

\* Neither a port nor a file to tell it in; or a file, of the port or of the process,
\* that cannot be written.
CannotStart == ~Gone /\ mpc = "start" /\ Ends("exited")

Construct ==
    /\ ~Gone /\ mpc = "start"
    /\ opts.portFile \/ opts.portNumber # 0
    /\ infoFp' = opts.portFile /\ listenAddr' = opts.portNumber
    /\ SetTtl(opts.initialTTL) /\ wanted' = opts.initialTTL
    /\ mpc' = "bind"
    /\ UNCHANGED <<proc, opts, portInfo, session, lost, cancelled,
                   collectVars, samplerVars, reportVars>>

\* Mutant: the flag outlives its dispatcher.
NewDispatch_FlagKept == UNCHANGED isCollectingStats /\ coll' = None

NewDispatch == isCollectingStats' = FALSE /\ coll' = None

\* Mutant: each session asks for the port the options name.
BoundTo_Options(p) == IF opts.portNumber = 0 THEN p \in Ports ELSE p = opts.portNumber

BoundTo(p) == IF listenAddr = 0 THEN p \in Ports ELSE p = listenAddr

\* getsockname writes the port into the address that the next session binds.
Establish(p) ==
    /\ ~Gone /\ mpc = "bind" /\ session < MaxSessions
    /\ BoundTo(p)
    /\ NewDispatch
    /\ listenAddr' = p
    /\ infoFp' = FALSE /\ portInfo' = IF infoFp THEN p ELSE portInfo
    /\ session' = session + 1
    /\ report' = [f \in Fields |-> -2] /\ reported' = 0
    /\ mpc' = "accept"
    /\ UNCHANGED <<proc, opts, lost, cancelled, made, owner, samplerVars, timerVars>>

CannotEstablish == ~Gone /\ mpc = "bind" /\ Ends("exited")

AcceptControl ==
    /\ ~Gone /\ mpc = "accept"
    /\ mpc' = "loop"
    /\ UNCHANGED <<proc, cancelled, daemonVars, collectVars, samplerVars, reportVars, timerVars>>

\* The session is over without a GOODBYE: the connection cannot be accepted, it fails, the
\* harness closes it, or select fails.
ConnectionLost ==
    /\ ~Gone /\ mpc \in {"accept", "loop"}
    /\ lost' = lost \cup {session}
    /\ mpc' = "close"
    /\ UNCHANGED <<proc, opts, listenAddr, infoFp, portInfo, session, cancelled,
                   collectVars, samplerVars, reportVars, timerVars>>

\* The workers have ended and the cluster is closed (Dispatch).
CloseSession ==
    /\ ~Gone /\ mpc = "close"
    /\ opts.isPersistent
    /\ mpc' = "bind"
    /\ UNCHANGED <<proc, cancelled, daemonVars, collectVars, samplerVars, reportVars, timerVars>>

EndDaemon == ~Gone /\ mpc = "close" /\ ~opts.isPersistent /\ Ends("exited")

-----------------------------------------------------------------------------
(* The commands of the control connection. *)

InLoop == ~Gone /\ mpc = "loop"

\* new UsageCollector, Start; the last collector is forgotten.
Start(c) ==
    /\ c = made + 1 /\ made' = c /\ coll' = c
    /\ isCollectingStats' = TRUE
    /\ owner' = [owner EXCEPT ![c] = session]
    /\ spc' = [spc EXCEPT ![c] = "init"]

\* INFO, which is answered first, and GETUSAGE, which is not answered.  The percentile that
\* INFO sets is data of ResultSet.
InfoOrGetUsage(c) ==
    /\ InLoop /\ Start(c)
    /\ UNCHANGED <<proc, mpc, cancelled, step, sleeping, kept, daemonVars, reportVars, timerVars>>

Ttl(s) ==
    /\ InLoop
    /\ SetTtl(Clamped(s)) /\ wanted' = Clamped(s)
    /\ UNCHANGED <<proc, mpc, cancelled, daemonVars, collectVars, samplerVars, reportVars>>

\* Mutant: the first collector of the process is stopped.
StopCollector_First == cancelled' = [cancelled EXCEPT ![1] = TRUE]

\* The thread of a collector that the session knows was never joined: isAlive holds.
StopCollector == cancelled' = [cancelled EXCEPT ![coll] = TRUE]

GoodbyeReporting ==
    /\ InLoop /\ isCollectingStats
    /\ StopCollector
    /\ mpc' = "report"
    /\ UNCHANGED <<proc, daemonVars, collectVars, samplerVars, reportVars, timerVars>>

Goodbye ==
    /\ InLoop /\ ~isCollectingStats
    /\ mpc' = "close"
    /\ UNCHANGED <<proc, cancelled, daemonVars, collectVars, samplerVars, reportVars, timerVars>>

\* GetResponseJson copies one array after the other while the thread may still append.
CopyArray ==
    /\ ~Gone /\ mpc = "report" /\ reported < 4
    /\ LET f == ReportOrder[reported + 1]
       IN report' = [report EXCEPT ![f] = kept[coll][f]]
    /\ reported' = reported + 1
    /\ UNCHANGED <<proc, mpc, cancelled, daemonVars, collectVars, samplerVars, timerVars>>

\* The copy meets the append to that very array: the tree is walked while it changes.
CopyTorn ==
    /\ ~Gone /\ mpc = "report" /\ reported < 4
    /\ Busy(coll) /\ NextField(coll) = ReportOrder[reported + 1]
    /\ Ends("crashed")

ReportSent ==
    /\ ~Gone /\ mpc = "report" /\ reported = 4
    /\ mpc' = "close"
    /\ UNCHANGED <<proc, cancelled, daemonVars, collectVars, samplerVars, reportVars, timerVars>>

\* A request that does not parse or has no CommandData is answered, deleted, then
\* dispatched and deleted again; a field of another type throws past main.
BadRequest == InLoop /\ Ends("crashed")

-----------------------------------------------------------------------------
(* The thread of a collector. *)

InitArray(c) ==
    /\ ~Gone /\ spc[c] = "init"
    /\ kept' = [kept EXCEPT ![c][NextField(c)] = 0]
    /\ step' = [step EXCEPT ![c] = IF @ = 4 THEN 1 ELSE @ + 1]
    /\ spc' = [spc EXCEPT ![c] = IF step[c] = 4 THEN "sample" ELSE "init"]
    /\ UNCHANGED <<proc, mpc, cancelled, sleeping, daemonVars, collectVars, reportVars, timerVars>>

\* One append; after the last one the thread goes to sleep.
Append1(c) ==
    /\ ~Gone /\ spc[c] = "sample"
    /\ kept' = [kept EXCEPT ![c][NextField(c)] = @ + 1]
    /\ step' = [step EXCEPT ![c] = IF @ = 4 THEN 1 ELSE @ + 1]
    /\ spc' = [spc EXCEPT ![c] = IF step[c] = 4 THEN "sleep" ELSE "sample"]
    /\ sleeping' = [sleeping EXCEPT ![c] = IF step[c] = 4 THEN Interval ELSE 0]
    /\ UNCHANGED <<proc, mpc, cancelled, daemonVars, collectVars, reportVars, timerVars>>

WakeUp(c) ==
    /\ ~Gone /\ spc[c] = "sleep" /\ sleeping[c] = 0 /\ ~cancelled[c]
    /\ kept[c]["memory"] < MaxSamples
    /\ spc' = [spc EXCEPT ![c] = "sample"]
    /\ UNCHANGED <<proc, mpc, cancelled, step, sleeping, kept,
                   daemonVars, collectVars, reportVars, timerVars>>

\* Mutant: a cancellation is seen on the way into the sleep only.
CancelPoint_Entry(c) == spc[c] = "sleep" /\ sleeping[c] = Interval

\* The sleep is the thread's only cancellation point.
CancelPoint(c) == spc[c] = "sleep"

CancelActs(c) ==
    /\ ~Gone /\ cancelled[c] /\ CancelPoint(c)
    /\ spc' = [spc EXCEPT ![c] = "ended"]
    /\ UNCHANGED <<proc, mpc, cancelled, step, sleeping, kept,
                   daemonVars, collectVars, reportVars, timerVars>>

CannotSample(c) == ~Gone /\ spc[c] = "sample" /\ step[c] = 1 /\ Ends("exited")

-----------------------------------------------------------------------------
(* Time. *)

OneLess(n) == IF n > 0 THEN n - 1 ELSE 0

Tick ==
    /\ ~Gone /\ alarm # 1
    /\ alarm' = OneLess(alarm) /\ wanted' = OneLess(wanted)
    /\ sleeping' = [c \in Collectors |-> IF spc[c] = "sleep" THEN OneLess(sleeping[c]) ELSE sleeping[c]]
    /\ UNCHANGED <<proc, mpc, cancelled, spc, step, kept, initialized,
                   daemonVars, collectVars, reportVars>>

\* Mutant: the loop of the control thread looks after the timer.
Interrupts_Loop == mpc = "loop"

\* A signal does not wait for any thread.
Interrupts == TRUE

\* SIGALRM, and ttl_expired_func aborts.
AlarmRings == ~Gone /\ alarm = 1 /\ Interrupts /\ Ends("aborted")

-----------------------------------------------------------------------------
Daemon ==
    \/ CannotStart \/ Construct
    \/ \E p \in Ports \cup {listenAddr} : Establish(p)
    \/ CannotEstablish \/ AcceptControl \/ ConnectionLost \/ CloseSession \/ EndDaemon

Control ==
    \/ \E c \in Collectors : InfoOrGetUsage(c)
    \/ \E s \in Seconds : Ttl(s)
    \/ GoodbyeReporting \/ Goodbye \/ CopyArray \/ CopyTorn \/ ReportSent \/ BadRequest

Sampler(c) == InitArray(c) \/ Append1(c) \/ WakeUp(c) \/ CancelActs(c) \/ CannotSample(c)

Next ==
    \/ Daemon \/ Control
    \/ \E c \in Collectors : Sampler(c)
    \/ Tick \/ AlarmRings

Spec == Init /\ [][Next]_vars

\* Time passes, alarms ring, and the threads that sample run.  The control thread may stay
\* for ever in accept, in select, or in the end of a session.
FairSpec ==
    /\ Spec
    /\ WF_vars(Tick \/ AlarmRings)
    /\ \A c \in Collectors : WF_vars(Sampler(c))

-----------------------------------------------------------------------------
(* Properties. *)

DaemonType ==
    /\ opts \in Options
    /\ proc \in {"up", "exited", "aborted", "crashed"}
    /\ mpc \in {"start", "bind", "accept", "loop", "report", "close"}
    /\ listenAddr \in Nat /\ portInfo \in Nat
    /\ session \in Nat /\ lost \subseteq Nat

FlagType == infoFp \in BOOLEAN /\ isCollectingStats \in BOOLEAN /\ initialized \in BOOLEAN

CollectType == coll \in 0..MaxCollectors /\ made \in 0..MaxCollectors

\* coll is not initialized before the first collector of the session.
CollKnown ==
    /\ isCollectingStats => coll # None
    /\ mpc = "report" => isCollectingStats

SamplerType ==
    /\ owner \in [Collectors -> Nat]
    /\ spc \in [Collectors -> {"none", "init", "sample", "sleep", "ended"}]
    /\ step \in [Collectors -> 1..4] /\ sleeping \in [Collectors -> Nat]
    /\ cancelled \in [Collectors -> BOOLEAN]

ArrayType ==
    /\ kept \in [Collectors -> [Fields -> Nat \cup {-1}]]
    /\ report \in [Fields -> Nat \cup {-1, -2}] /\ reported \in 0..4

TimerType == alarm \in Nat /\ wanted \in Nat

\* The type of the state; and that no session uses the pointer coll before it is set
\* (Control.cpp:14, 158).
TypeOK ==
    /\ DaemonType /\ FlagType /\ CollectType /\ CollKnown
    /\ SamplerType /\ ArrayType /\ TimerType

\* A thread that samples without having been told to stop is the one the running session
\* would stop (Control.cpp:158-159), or was replaced by a later one of its own session
\* (Control.cpp:185,204), or its session ended without a GOODBYE: nothing else leaks.
SamplersAccounted ==
    \A c \in Collectors : Alive(c) /\ ~cancelled[c] =>
        \/ c = coll /\ isCollectingStats /\ owner[c] = session /\ mpc = "loop"
        \/ \E d \in Collectors : d > c /\ owner[d] = owner[c]
        \/ owner[c] \in lost

\* GOODBYE reports what the newest collector of this session has sampled
\* (Control.cpp:158-165), never another session's or an earlier one's.
ReportOwn == mpc = "report" => coll = made /\ owner[coll] = session

\* The report is copied while the thread may finish a sample, but no more than that one: the
\* arrays differ by one at most, and each time stamp has its processor times
\* (UsageCollector.cpp:95-99, 108-112; Control.cpp:159).
ReportFits ==
    \A f \in Fields : report[f] # -2 =>
        IF report["ts"] >= 1
            THEN report[f] \in (IF f = "memory" THEN report["ts"] - 1 ELSE report["ts"])..(report["ts"] + 1)
            ELSE report[f] <= 1

\* The answer to GOODBYE is a consistent report of this session's newest collector, though
\* its thread was not joined and earlier ones may still run.
ReportFaithful == ReportOwn /\ ReportFits

\* The alarm is that of the last TTL asked for, whatever session asked, and none when that
\* was none (IODispatch.cpp:33-52): the process is aborted then and only then.
TtlAsAsked == ~Gone => alarm = wanted

\* Every session listens on the port the options name, or else the one in the port file
\* (Daemon.cpp:62-86): the file is written once.
PortAsWritten ==
    mpc \in {"accept", "loop", "report", "close"} =>
        /\ opts.portNumber # 0 => listenAddr = opts.portNumber
        /\ opts.portFile => portInfo = listenAddr

\* A thread told to stop does so, since the sleep ends it (UsageCollector.cpp:103).
StoppedSamplersEnd == \A c \in Collectors : cancelled[c] ~> (spc[c] = "ended" \/ Gone)

\* A process whose alarm stays set is aborted by it, wherever its threads are
\* (README.md:62-67), unless it is asked for a new TTL again and again.
TtlEndsProcess ==
    <>[](alarm > 0 /\ ~Gone) => []<><<\E s \in Seconds : Ttl(s)>>_vars
=============================================================================
