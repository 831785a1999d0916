--------------------------- MODULE Session_proofs ---------------------------
(***************************************************************************)
(* Proofs about the sessions of the daemon, for any number of sessions,    *)
(* collectors and samples, any ports and any TTLs.                         *)
(*                                                                         *)
(* The argument for the report: a thread that samples has its arrays in    *)
(* step but for the sample it is at (Aligned), one that is cancelled       *)
(* comes to an end with at most that sample finished, so the length its    *)
(* arrays can reach is fixed from the cancellation on (Final).             *)
(***************************************************************************)
EXTENDS Session, TLAPS

-----------------------------------------------------------------------------
(* The inductive invariant *)

\* The flag of the timer says whether the alarm is set.
TimerInv == (initialized <=> alarm > 0) /\ alarm = wanted

\* The address keeps the port; the file is either still open or has it.
PortInv ==
    /\ mpc # "start" =>
        /\ opts.portFile \/ opts.portNumber # 0
        /\ opts.portNumber # 0 => listenAddr = opts.portNumber
        /\ opts.portFile => infoFp \/ (portInfo = listenAddr /\ listenAddr # 0)
    /\ mpc \in {"accept", "loop", "report", "close"} => ~infoFp

\* The collector that the session knows is the last one made, by this session.
CollInv == isCollectingStats => coll = made /\ owner[coll] = session

\* SamplersAccounted, with the later collector among those made.
AccountInv ==
    \A c \in Collectors : Alive(c) /\ ~cancelled[c] =>
        \/ c = coll /\ isCollectingStats /\ owner[c] = session /\ mpc = "loop"
        \/ \E d \in Collectors : d > c /\ d <= made /\ owner[d] = owner[c]
        \/ owner[c] \in lost

\* The arrays of a thread at its step: how many samples each has.
Has(c, ts, memory, user, system) ==
    /\ kept[c]["ts"] = ts /\ kept[c]["memory"] = memory
    /\ kept[c]["cpu_user"] = user /\ kept[c]["cpu_system"] = system

Since(c, n) == IF step[c] > n THEN 1 ELSE 0

Aligned(c) ==
    LET m == kept[c]["memory"]
    IN /\ c > made => spc[c] = "none"
       /\ spc[c] = "none" => step[c] = 1 /\ Has(c, -1, -1, -1, -1)
       /\ spc[c] = "init" => Has(c, Since(c, 1) - 1, Since(c, 2) - 1, Since(c, 3) - 1, -1)
       /\ spc[c] = "sample" => m >= 0 /\ Has(c, m + Since(c, 3), m, m + Since(c, 1), m + Since(c, 2))
       /\ spc[c] \in {"sleep", "ended"} => step[c] = 1 /\ m >= 0 /\ Has(c, m, m, m, m)

AlignInv == \A c \in Collectors : Aligned(c)

\* The samples that the arrays of c will have when it is next asleep.
Final(c) ==
    CASE spc[c] = "init" -> 1
      [] spc[c] = "sample" -> kept[c]["memory"] + 1
      [] OTHER -> kept[c]["memory"]

\* The arrays are copied in order, and what is still to come of the thread is bounded by
\* the time stamps copied first.
ReportInv ==
    /\ mpc \in {"start", "accept", "loop"} => reported = 0
    /\ report["ts"] = -2 <=> reported < 1
    /\ report["memory"] = -2 <=> reported < 2
    /\ report["cpu_user"] = -2 <=> reported < 3
    /\ report["cpu_system"] = -2 <=> reported < 4
    /\ mpc = "report" =>
        /\ cancelled[coll]
        /\ reported >= 1 =>
            /\ report["ts"] <= kept[coll]["ts"]
            /\ Final(coll) <= (IF report["ts"] >= 0 THEN report["ts"] + 1 ELSE 1)

Inv ==
    /\ TypeOK /\ TimerInv /\ PortInv /\ CollInv /\ AccountInv /\ AlignInv
    /\ ReportInv /\ ReportFits

USE SessionAssumption DEF SessionAssumption, None

\* The process has just started.
LEMMA InitInv == Init => Inv
<1> SUFFICES ASSUME Init PROVE Inv
    OBVIOUS
<1> USE DEF Init
<1>1. DaemonType  BY DEF DaemonType
<1>2. FlagType  BY DEF FlagType
<1>3. CollectType /\ TimerType  BY DEF CollectType, TimerType
<1>4. SamplerType  BY DEF SamplerType
<1>5. ArrayType  BY DEF ArrayType
<1>6. CollKnown /\ TimerInv /\ PortInv /\ CollInv  BY DEF CollKnown, TimerInv, PortInv, CollInv
<1>7. AccountInv  BY DEF AccountInv, Alive
<1>8. AlignInv  BY DEF AlignInv, Aligned, Has, Fields
<1>9. ReportInv /\ ReportFits  BY DEF ReportInv, ReportFits, Fields
<1> QED  BY <1>1, <1>2, <1>3, <1>4, <1>5, <1>6, <1>7, <1>8, <1>9 DEF Inv, TypeOK

\* The end of the process leaves it as it began.
LEMMA EndsInv == ASSUME Inv, NEW how \in {"exited", "aborted", "crashed"}, Ends(how)
                 PROVE  Inv'
<1> USE DEF Ends
<1>1. DaemonType'  BY DEF Inv, TypeOK, DaemonType
<1>2. FlagType'  BY DEF FlagType
<1>3. CollectType' /\ TimerType'  BY DEF CollectType, TimerType
<1>4. SamplerType'  BY DEF SamplerType
<1>5. ArrayType'  BY DEF ArrayType
<1>6. CollKnown' /\ TimerInv' /\ PortInv' /\ CollInv'  BY DEF CollKnown, TimerInv, PortInv, CollInv
<1>7. AccountInv'  BY DEF AccountInv, Alive
<1>8. AlignInv'  BY DEF AlignInv, Aligned, Has, Fields
<1>9. ReportInv' /\ ReportFits'  BY DEF ReportInv, ReportFits, Fields
<1> QED  BY <1>1, <1>2, <1>3, <1>4, <1>5, <1>6, <1>7, <1>8, <1>9 DEF Inv, TypeOK

\* The flag of the timer is right again after sdkd_set_ttl.
LEMMA SetTtlInv ==
    ASSUME FlagType, TimerType, TimerInv, NEW n \in Nat, SetTtl(n), wanted' = n
    PROVE  initialized' \in BOOLEAN /\ TimerType' /\ TimerInv'
<1> USE DEF FlagType, TimerType, TimerInv, SetTtl
<1>1. CASE n = 0
    <2>1. initialized' = FALSE /\ alarm' = 0
        <3>1. CASE initialized  BY <1>1, <3>1
        <3>2. CASE ~initialized  BY <1>1, <3>2
        <3> QED  BY <3>1, <3>2
    <2> QED  BY <1>1, <2>1
<1>2. CASE n # 0
    <2>1. initialized' = TRUE /\ alarm' = n  BY <1>2
    <2> QED  BY <1>2, <2>1
<1> QED  BY <1>1, <1>2

\* From here on one lemma for each action: it keeps the invariant.
LEMMA ConstructInv == ASSUME Inv, Construct PROVE Inv'
<1> USE DEF Inv, TypeOK, Construct, vars, daemonVars, collectVars, samplerVars, reportVars, timerVars, Gone
<1>1. DaemonType'  BY DEF DaemonType
<1>0. initialized' \in BOOLEAN /\ TimerType' /\ TimerInv'
    <2>1. opts.initialTTL \in Nat /\ SetTtl(opts.initialTTL)  BY DEF DaemonType
    <2> QED  BY <2>1, SetTtlInv
<1>2. FlagType'
    <2>1. infoFp' \in BOOLEAN  BY DEF DaemonType
    <2> QED  BY <1>0, <2>1 DEF FlagType
<1>3. CollKnown'  BY DEF CollKnown
<1>4. AccountInv'  BY DEF AccountInv, Alive, CollectType, SamplerType, ArrayType
<1>5. TimerType'  BY <1>0
<1>6. TimerInv'  BY <1>0
<1>7. PortInv'  BY DEF PortInv
<1>8. ReportInv'  BY DEF ReportInv, Final, Has, Since, Aligned, AlignInv, CollectType, SamplerType, ArrayType
<1>9. CollectType' /\ SamplerType' /\ ArrayType' /\ CollInv' /\ AlignInv' /\ ReportFits'
    BY DEF CollectType, SamplerType, ArrayType, CollInv, AlignInv, ReportFits, Collectors, Aligned, Has, Since, Fields
<1> QED  BY <1>1, <1>2, <1>3, <1>4, <1>5, <1>6, <1>7, <1>8, <1>9

LEMMA EstablishInv == ASSUME Inv, NEW p \in Ports \cup {listenAddr}, Establish(p) PROVE Inv'
<1> USE DEF Inv, TypeOK, Establish, NewDispatch, BoundTo, vars, daemonVars, collectVars, samplerVars, reportVars, timerVars, Gone
<1>1. DaemonType'  BY DEF DaemonType
<1>2. FlagType'  BY DEF FlagType
<1>3. CollectType'  BY DEF CollectType
<1>4. CollKnown'  BY DEF CollKnown
<1>5. ArrayType'  BY DEF ArrayType
<1>6. CollInv'  BY DEF CollInv, CollectType, SamplerType, ArrayType
<1>7. PortInv'  BY DEF PortInv
<1>8. AccountInv'  BY DEF AccountInv, Alive, CollectType, SamplerType, ArrayType
<1>9. ReportInv'  BY DEF ReportInv, Fields
<1>10. ReportFits'  BY DEF ReportFits, Fields
<1>11. SamplerType' /\ TimerType' /\ TimerInv' /\ AlignInv'
    BY DEF SamplerType, TimerType, TimerInv, AlignInv, Collectors, Aligned, Has, Since
<1> QED  BY <1>1, <1>2, <1>3, <1>4, <1>5, <1>6, <1>7, <1>8, <1>9, <1>10, <1>11

LEMMA AcceptControlInv == ASSUME Inv, AcceptControl PROVE Inv'
<1> USE DEF Inv, TypeOK, AcceptControl, vars, daemonVars, collectVars, samplerVars, reportVars, timerVars, Gone
<1>1. DaemonType'  BY DEF DaemonType
<1>2. CollKnown'  BY DEF CollKnown
<1>3. PortInv'  BY DEF PortInv
<1>4. AccountInv'  BY DEF AccountInv, Alive, CollectType, SamplerType, ArrayType
<1>5. ReportInv'  BY DEF ReportInv, Final, Has, Since, Aligned, AlignInv, CollectType, SamplerType, ArrayType
<1>6. FlagType' /\ CollectType' /\ SamplerType' /\ ArrayType' /\ TimerType' /\ TimerInv' /\ CollInv' /\ AlignInv' /\ ReportFits'
    BY DEF FlagType, CollectType, SamplerType, ArrayType, TimerType, TimerInv, CollInv, AlignInv, ReportFits, Collectors, Aligned, Has, Since, Fields
<1> QED  BY <1>1, <1>2, <1>3, <1>4, <1>5, <1>6

LEMMA ConnectionLostInv == ASSUME Inv, ConnectionLost PROVE Inv'
<1> USE DEF Inv, TypeOK, ConnectionLost, vars, daemonVars, collectVars, samplerVars, reportVars, timerVars, Gone
<1>1. DaemonType'  BY DEF DaemonType
<1>2. CollKnown'  BY DEF CollKnown
<1>3. PortInv'  BY DEF PortInv
<1>4. AccountInv'  BY DEF AccountInv, Alive, CollectType, SamplerType, ArrayType
<1>5. ReportInv'  BY DEF ReportInv, Final, Has, Since, Aligned, AlignInv, CollectType, SamplerType, ArrayType
<1>6. FlagType' /\ CollectType' /\ SamplerType' /\ ArrayType' /\ TimerType' /\ TimerInv' /\ CollInv' /\ AlignInv' /\ ReportFits'
    BY DEF FlagType, CollectType, SamplerType, ArrayType, TimerType, TimerInv, CollInv, AlignInv, ReportFits, Collectors, Aligned, Has, Since, Fields
<1> QED  BY <1>1, <1>2, <1>3, <1>4, <1>5, <1>6

LEMMA CloseSessionInv == ASSUME Inv, CloseSession PROVE Inv'
<1> USE DEF Inv, TypeOK, CloseSession, vars, daemonVars, collectVars, samplerVars, reportVars, timerVars, Gone
<1>1. DaemonType'  BY DEF DaemonType
<1>2. CollKnown'  BY DEF CollKnown
<1>3. PortInv'  BY DEF PortInv
<1>4. AccountInv'  BY DEF AccountInv, Alive, CollectType, SamplerType, ArrayType
<1>5. ReportInv'  BY DEF ReportInv, Final, Has, Since, Aligned, AlignInv, CollectType, SamplerType, ArrayType
<1>6. FlagType' /\ CollectType' /\ SamplerType' /\ ArrayType' /\ TimerType' /\ TimerInv' /\ CollInv' /\ AlignInv' /\ ReportFits'
    BY DEF FlagType, CollectType, SamplerType, ArrayType, TimerType, TimerInv, CollInv, AlignInv, ReportFits, Collectors, Aligned, Has, Since, Fields
<1> QED  BY <1>1, <1>2, <1>3, <1>4, <1>5, <1>6

LEMMA InfoOrGetUsageInv == ASSUME Inv, NEW c \in Collectors, InfoOrGetUsage(c) PROVE Inv'
<1> USE DEF Inv, TypeOK, InfoOrGetUsage, InLoop, Start, daemonVars, reportVars, timerVars, Gone
<1>0. c \in 1..MaxCollectors /\ made \in 0..MaxCollectors  BY DEF CollectType, Collectors
<1>1. FlagType'  BY DEF FlagType
<1>2. CollectType'
    <2>1. c \in 0..MaxCollectors  BY <1>0
    <2> QED  BY <2>1 DEF CollectType
<1>3. CollKnown'
    <2>1. c # 0  BY <1>0
    <2> QED  BY <2>1 DEF CollKnown
<1>4. SamplerType'
    <2>1. owner' \in [Collectors -> Nat]  BY DEF SamplerType, DaemonType
    <2>2. spc' \in [Collectors -> {"none", "init", "sample", "sleep", "ended"}]  BY DEF SamplerType
    <2> QED  BY <2>1, <2>2 DEF SamplerType
<1>5. owner'[c] = session /\ spc'[c] = "init"  BY DEF SamplerType
<1>6. \A d \in Collectors : d # c => owner'[d] = owner[d] /\ spc'[d] = spc[d]  BY DEF SamplerType
<1>7. CollInv'  BY <1>5 DEF CollInv
<1>8. AccountInv'
    <2> SUFFICES ASSUME NEW b \in Collectors, Alive(b)', ~cancelled'[b]
                 PROVE  \/ b = coll' /\ isCollectingStats' /\ owner'[b] = session' /\ mpc' = "loop"
                        \/ \E d \in Collectors : d > b /\ d <= made' /\ owner'[d] = owner'[b]
                        \/ owner'[b] \in lost'
        BY DEF AccountInv
    <2>1. CASE b = c  BY <2>1, <1>5
    <2>2. CASE b # c
        <3>1. Alive(b) /\ ~cancelled[b] /\ owner'[b] = owner[b]  BY <2>2, <1>6 DEF Alive
        <3>2. CASE b = coll /\ isCollectingStats /\ owner[b] = session
            <4>1. c > b /\ c <= made'  BY <1>0, <3>2 DEF CollInv
            <4> QED  BY <4>1, <3>1, <3>2, <1>5
        <3>3. CASE \E d \in Collectors : d > b /\ d <= made /\ owner[d] = owner[b]
            <4>1. PICK d \in Collectors : d > b /\ d <= made /\ owner[d] = owner[b]  BY <3>3
            <4>2. d # c /\ d <= made'  BY <4>1, <1>0
            <4> QED  BY <4>1, <4>2, <3>1, <1>6
        <3>4. CASE owner[b] \in lost  BY <3>4, <3>1
        <3> QED  BY <3>1, <3>2, <3>3, <3>4 DEF AccountInv
    <2> QED  BY <2>1, <2>2
<1>9. AlignInv'
    <2> SUFFICES ASSUME NEW b \in Collectors PROVE Aligned(b)'
        BY DEF AlignInv
    <2>1. Aligned(b) /\ kept'[b] = kept[b] /\ step'[b] = step[b]  BY DEF AlignInv
    <2>2. CASE b = c
        <3>1. spc[b] = "none"  BY <2>1, <2>2, <1>0 DEF Aligned
        <3> QED  BY <2>1, <2>2, <3>1, <1>0, <1>5 DEF Aligned, Has, Since
    <2>3. CASE b # c
        <3>1. b > made' => b > made  BY <1>0 DEF Collectors
        <3> QED  BY <2>1, <2>3, <3>1, <1>6 DEF Aligned, Has, Since
    <2> QED  BY <2>2, <2>3
<1>10. ReportInv'  BY DEF ReportInv
<1>11. DaemonType' /\ ArrayType' /\ TimerType' /\ TimerInv' /\ PortInv' /\ ReportFits'
    BY DEF DaemonType, ArrayType, TimerType, TimerInv, PortInv, ReportFits
<1> QED  BY <1>1, <1>2, <1>3, <1>4, <1>7, <1>8, <1>9, <1>10, <1>11

LEMMA TtlInv == ASSUME Inv, NEW s \in Seconds, Ttl(s) PROVE Inv'
<1> USE DEF Inv, TypeOK, Ttl, InLoop, vars, daemonVars, collectVars, samplerVars, reportVars, timerVars, Gone
<1>0. initialized' \in BOOLEAN /\ TimerType' /\ TimerInv'
    <2>1. Clamped(s) \in Nat  BY DEF Clamped, Seconds
    <2> QED  BY <2>1, SetTtlInv
<1>1. FlagType'  BY <1>0 DEF FlagType
<1>2. TimerType'  BY <1>0
<1>3. TimerInv'  BY <1>0
<1>4. DaemonType' /\ CollectType' /\ CollKnown' /\ SamplerType' /\ ArrayType' /\ PortInv' /\ CollInv' /\ AccountInv' /\ AlignInv' /\ ReportInv' /\ ReportFits'
    BY DEF DaemonType, CollectType, CollKnown, SamplerType, ArrayType, PortInv, CollInv, AccountInv, AlignInv, ReportInv, ReportFits, Collectors, Alive, Aligned, Has, Since, Final, Fields
<1> QED  BY <1>1, <1>2, <1>3, <1>4

LEMMA GoodbyeReportingInv == ASSUME Inv, GoodbyeReporting PROVE Inv'
<1> USE DEF Inv, TypeOK, GoodbyeReporting, InLoop, StopCollector, vars, daemonVars, collectVars, samplerVars, reportVars, timerVars, Gone
<1>1. DaemonType'  BY DEF DaemonType
<1>2. CollKnown'  BY DEF CollKnown
<1>3. SamplerType'  BY DEF SamplerType, Collectors
<1>4. PortInv'  BY DEF PortInv
<1>5. AccountInv'  BY DEF AccountInv, Alive, CollectType, SamplerType, ArrayType
<1>6. ReportInv'
    <2>1. coll \in Collectors  BY DEF CollKnown, CollectType, Collectors
    <2>2. cancelled'[coll] = TRUE  BY <2>1 DEF SamplerType
    <2> QED  BY <2>2 DEF ReportInv
<1>7. FlagType' /\ CollectType' /\ ArrayType' /\ TimerType' /\ TimerInv' /\ CollInv' /\ AlignInv' /\ ReportFits'
    BY DEF FlagType, CollectType, ArrayType, TimerType, TimerInv, CollInv, AlignInv, ReportFits, Aligned, Has, Since, Fields
<1> QED  BY <1>1, <1>2, <1>3, <1>4, <1>5, <1>6, <1>7

LEMMA GoodbyeInv == ASSUME Inv, Goodbye PROVE Inv'
<1> USE DEF Inv, TypeOK, Goodbye, InLoop, vars, daemonVars, collectVars, samplerVars, reportVars, timerVars, Gone
<1>1. DaemonType'  BY DEF DaemonType
<1>2. CollKnown'  BY DEF CollKnown
<1>3. PortInv'  BY DEF PortInv
<1>4. AccountInv'  BY DEF AccountInv, Alive, CollectType, SamplerType, ArrayType
<1>5. ReportInv'  BY DEF ReportInv, Final, Has, Since, Aligned, AlignInv, CollectType, SamplerType, ArrayType
<1>6. FlagType' /\ CollectType' /\ SamplerType' /\ ArrayType' /\ TimerType' /\ TimerInv' /\ CollInv' /\ AlignInv' /\ ReportFits'
    BY DEF FlagType, CollectType, SamplerType, ArrayType, TimerType, TimerInv, CollInv, AlignInv, ReportFits, Collectors, Aligned, Has, Since, Fields
<1> QED  BY <1>1, <1>2, <1>3, <1>4, <1>5, <1>6

LEMMA CopyArrayInv == ASSUME Inv, CopyArray PROVE Inv'
<1> USE DEF Inv, TypeOK, CopyArray, daemonVars, collectVars, samplerVars, timerVars, Gone
<1> DEFINE f == ReportOrder[reported + 1]
           k == kept[coll][f]
<1>1. coll \in Collectors  BY DEF CollKnown, CollectType, Collectors
<1>2. /\ reported \in 0..3 /\ f \in Fields /\ report[f] = -2
      /\ reported = 0 => f = "ts"
      /\ reported = 1 => f = "memory"
      /\ reported = 2 => f = "cpu_user"
      /\ reported = 3 => f = "cpu_system"
    BY DEF ArrayType, ReportOrder, Fields, ReportInv
<1>3. k \in Nat \cup {-1}  BY <1>1, <1>2 DEF ArrayType
<1>4. /\ report'[f] = k
      /\ \A g \in Fields : g # f => report'[g] = report[g]
      /\ reported' = reported + 1
    BY <1>2 DEF ArrayType
<1>5. ArrayType'
    <2>1. report' \in [Fields -> Nat \cup {-1, -2}]  BY <1>2, <1>3 DEF ArrayType
    <2>2. reported' \in 0..4  BY <1>2
    <2> QED  BY <2>1, <2>2 DEF ArrayType
<1>6. Aligned(coll) /\ cancelled[coll] /\ spc[coll] \in {"none", "init", "sample", "sleep", "ended"}
          /\ step[coll] \in 1..4
    BY <1>1 DEF AlignInv, ReportInv, SamplerType
<1>7. kept[coll]["ts"] \in Int /\ kept[coll]["memory"] \in Int
          /\ kept[coll]["cpu_user"] \in Int /\ kept[coll]["cpu_system"] \in Int
    BY <1>1 DEF ArrayType, Fields
\* What the arrays have now, against their time stamps.
<1>8. /\ k <= Final(coll)
      /\ kept[coll]["ts"] >= 1 => k >= (IF f = "memory" THEN kept[coll]["ts"] - 1 ELSE kept[coll]["ts"])
      /\ Final(coll) <= (IF kept[coll]["ts"] >= 0 THEN kept[coll]["ts"] + 1 ELSE 1)
    <2> USE <1>6, <1>7 DEF Aligned, Has, Since, Final
    <2>1. f \in {"ts", "memory", "cpu_user", "cpu_system"}  BY <1>2 DEF Fields
    <2>2. CASE spc[coll] = "none"  BY <2>1, <2>2
    <2>3. CASE spc[coll] = "init"  BY <2>1, <2>3
    <2>4. CASE spc[coll] = "sample"  BY <2>1, <2>4
    <2>5. CASE spc[coll] \in {"sleep", "ended"}  BY <2>1, <2>5
    <2> QED  BY <2>2, <2>3, <2>4, <2>5
<1>9. /\ report'["ts"] <= kept[coll]["ts"]
      /\ Final(coll) <= (IF report'["ts"] >= 0 THEN report'["ts"] + 1 ELSE 1)
    <2>1. CASE reported = 0  BY <2>1, <1>2, <1>4, <1>7, <1>8
    <2>2. CASE reported # 0
        <3>1. report'["ts"] = report["ts"] /\ reported >= 1  BY <2>2, <1>2, <1>4 DEF Fields
        <3> QED  BY <3>1, <1>4 DEF ReportInv
    <2> QED  BY <2>1, <2>2
<1>10. ReportInv'
    <2>1. /\ report'["ts"] = -2 <=> reported' < 1
          /\ report'["memory"] = -2 <=> reported' < 2
          /\ report'["cpu_user"] = -2 <=> reported' < 3
          /\ report'["cpu_system"] = -2 <=> reported' < 4
        BY <1>2, <1>3, <1>4 DEF ReportInv, Fields
    <2>2. Final(coll)' = Final(coll)  BY DEF Final
    <2> QED  BY <2>1, <2>2, <1>6, <1>9 DEF ReportInv
<1>11. ReportFits'
    <2> SUFFICES ASSUME NEW g \in Fields, report'[g] # -2
                 PROVE  IF report'["ts"] >= 1
                        THEN report'[g] \in (IF g = "memory" THEN report'["ts"] - 1 ELSE report'["ts"])..(report'["ts"] + 1)
                        ELSE report'[g] <= 1
        BY DEF ReportFits
    <2>0. report'["ts"] \in Int /\ Final(coll) \in Int  BY <1>5, <1>6, <1>7 DEF ArrayType, Fields, Final
    <2>1. CASE g = f
        <3>1. report'[g] <= Final(coll) /\ report'[g] = k  BY <2>1, <1>4, <1>8
        <3>2. CASE report'["ts"] >= 1
            <4>1. report'[g] <= report'["ts"] + 1  BY <3>1, <3>2, <2>0, <1>3, <1>9
            <4>2. report'[g] >= (IF g = "memory" THEN report'["ts"] - 1 ELSE report'["ts"])
                BY <3>1, <3>2, <2>0, <2>1, <1>3, <1>7, <1>8, <1>9
            <4> QED  BY <4>1, <4>2, <3>1, <3>2, <2>0, <1>3
        <3>3. CASE ~(report'["ts"] >= 1)  BY <3>1, <3>3, <2>0, <1>3, <1>9
        <3> QED  BY <3>2, <3>3
    <2>2. CASE g # f
        <3>1. report'[g] = report[g]  BY <2>2, <1>4
        <3>2. reported # 0  BY <3>1, <2>2, <1>2 DEF ReportInv, Fields
        <3>3. report'["ts"] = report["ts"]  BY <3>2, <1>2, <1>4 DEF Fields
        <3> QED  BY <3>1, <3>3 DEF ReportFits
    <2> QED  BY <2>1, <2>2
<1>12. DaemonType' /\ FlagType' /\ CollectType' /\ CollKnown' /\ SamplerType' /\ TimerType' /\ TimerInv'
          /\ PortInv' /\ CollInv' /\ AccountInv' /\ AlignInv'
    BY DEF DaemonType, FlagType, CollectType, CollKnown, SamplerType, TimerType, TimerInv,
           PortInv, CollInv, AccountInv, Alive, AlignInv, Aligned, Has, Since
<1> QED  BY <1>5, <1>10, <1>11, <1>12

LEMMA ReportSentInv == ASSUME Inv, ReportSent PROVE Inv'
<1> USE DEF Inv, TypeOK, ReportSent, vars, daemonVars, collectVars, samplerVars, reportVars, timerVars, Gone
<1>1. DaemonType'  BY DEF DaemonType
<1>2. CollKnown'  BY DEF CollKnown
<1>3. PortInv'  BY DEF PortInv
<1>4. AccountInv'  BY DEF AccountInv, Alive, CollectType, SamplerType, ArrayType
<1>5. ReportInv'  BY DEF ReportInv, Final, Has, Since, Aligned, AlignInv, CollectType, SamplerType, ArrayType
<1>6. FlagType' /\ CollectType' /\ SamplerType' /\ ArrayType' /\ TimerType' /\ TimerInv' /\ CollInv' /\ AlignInv' /\ ReportFits'
    BY DEF FlagType, CollectType, SamplerType, ArrayType, TimerType, TimerInv, CollInv, AlignInv, ReportFits, Collectors, Aligned, Has, Since, Fields
<1> QED  BY <1>1, <1>2, <1>3, <1>4, <1>5, <1>6

LEMMA InitArrayInv == ASSUME Inv, NEW c \in Collectors, InitArray(c) PROVE Inv'
<1> USE DEF Inv, TypeOK, InitArray, daemonVars, collectVars, reportVars, timerVars, Gone
<1>1. step[c] \in 1..4 /\ NextField(c) \in Fields
    BY DEF SamplerType, NextField, InitOrder, SampleOrder, Fields
<1>2. /\ kept'[c][NextField(c)] = 0
      /\ \A g \in Fields : g # NextField(c) => kept'[c][g] = kept[c][g]
      /\ \A b \in Collectors : b # c => kept'[b] = kept[b]
    BY <1>1 DEF ArrayType
<1>3. \A g \in Fields : kept[c][g] \in Nat \cup {-1}  BY DEF ArrayType
<1>4. Aligned(c)  BY DEF AlignInv
<1>5. SamplerType'  BY DEF SamplerType
<1>6. ArrayType'
    <2>1. kept' \in [Collectors -> [Fields -> Nat \cup {-1}]]  BY <1>1 DEF ArrayType
    <2> QED  BY <2>1 DEF ArrayType
\* The four steps.
<1>7. Aligned(c)' /\ Final(c)' = Final(c) /\ kept'[c]["ts"] >= kept[c]["ts"]
    <2> USE <1>2, <1>3, <1>4 DEF Aligned, Has, Since, Final, NextField, InitOrder, Fields
    <2>1. CASE step[c] = 1
        <3>1. step'[c] = 2 /\ spc'[c] = "init"  BY <2>1 DEF SamplerType
        <3> QED  BY <2>1, <3>1
    <2>2. CASE step[c] = 2
        <3>1. step'[c] = 3 /\ spc'[c] = "init"  BY <2>2 DEF SamplerType
        <3> QED  BY <2>2, <3>1
    <2>3. CASE step[c] = 3
        <3>1. step'[c] = 4 /\ spc'[c] = "init"  BY <2>3 DEF SamplerType
        <3> QED  BY <2>3, <3>1
    <2>4. CASE step[c] = 4
        <3>1. step'[c] = 1 /\ spc'[c] = "sample"  BY <2>4 DEF SamplerType
        <3> QED  BY <2>4, <3>1
    <2> QED  BY <1>1, <2>1, <2>2, <2>3, <2>4
<1>8. AlignInv'
    <2> SUFFICES ASSUME NEW b \in Collectors PROVE Aligned(b)'
        BY DEF AlignInv
    <2>1. Aligned(b)  BY DEF AlignInv
    <2>2. CASE b # c
        <3>1. kept'[b] = kept[b] /\ step'[b] = step[b] /\ spc'[b] = spc[b]
            BY <2>2 DEF SamplerType, ArrayType
        <3> QED  BY <2>1, <3>1 DEF Aligned, Has, Since
    <2>3. CASE b = c  BY <2>3, <1>7
    <2> QED  BY <2>2, <2>3
<1>9. AccountInv'  BY DEF AccountInv, Alive, SamplerType
<1>10. ReportInv'
    <2>1. CASE mpc # "report"  BY <2>1 DEF ReportInv
    <2>2. CASE mpc = "report"
        <3>1. coll \in Collectors  BY <2>2 DEF CollKnown, CollectType, Collectors
        <3>2. Final(coll)' = Final(coll) /\ kept'[coll]["ts"] >= kept[coll]["ts"]
            <4>1. CASE coll # c  BY <4>1, <3>1, <1>2 DEF Final, SamplerType, ArrayType, Fields
            <4>2. CASE coll = c  BY <4>2, <1>7
            <4> QED  BY <4>1, <4>2
        <3>3. kept[coll]["ts"] \in Int /\ kept'[coll]["ts"] \in Int /\ report["ts"] \in Int
            BY <3>1, <1>6 DEF ArrayType, Fields
        <3> QED  BY <2>2, <3>2, <3>3 DEF ReportInv
    <2> QED  BY <2>1, <2>2
<1>11. DaemonType' /\ FlagType' /\ CollectType' /\ CollKnown' /\ TimerType' /\ TimerInv' /\ PortInv'
          /\ CollInv' /\ ReportFits'
    BY DEF DaemonType, FlagType, CollectType, CollKnown, TimerType, TimerInv, PortInv, CollInv, ReportFits
<1> QED  BY <1>5, <1>6, <1>8, <1>9, <1>10, <1>11

LEMMA Append1Inv == ASSUME Inv, NEW c \in Collectors, Append1(c) PROVE Inv'
<1> USE DEF Inv, TypeOK, Append1, daemonVars, collectVars, reportVars, timerVars, Gone
<1>1. step[c] \in 1..4 /\ NextField(c) \in Fields
    BY DEF SamplerType, NextField, InitOrder, SampleOrder, Fields
<1>2. /\ kept'[c][NextField(c)] = kept[c][NextField(c)] + 1
      /\ \A g \in Fields : g # NextField(c) => kept'[c][g] = kept[c][g]
      /\ \A b \in Collectors : b # c => kept'[b] = kept[b]
    BY <1>1 DEF ArrayType
<1>3. \A g \in Fields : kept[c][g] \in Nat \cup {-1}  BY DEF ArrayType
<1>4. Aligned(c)  BY DEF AlignInv
<1>5. SamplerType'
    <2>1. step' \in [Collectors -> 1..4]  BY DEF SamplerType
    <2>2. spc' \in [Collectors -> {"none", "init", "sample", "sleep", "ended"}]  BY DEF SamplerType
    <2>3. sleeping' \in [Collectors -> Nat]  BY DEF SamplerType
    <2> QED  BY <2>1, <2>2, <2>3 DEF SamplerType
<1>6. ArrayType'
    <2>1. kept[c][NextField(c)] + 1 \in Nat \cup {-1}  BY <1>1, <1>3
    <2>2. kept' \in [Collectors -> [Fields -> Nat \cup {-1}]]  BY <1>1, <2>1 DEF ArrayType
    <2> QED  BY <2>2 DEF ArrayType
\* The four steps.
<1>7. Aligned(c)' /\ Final(c)' = Final(c) /\ kept'[c]["ts"] >= kept[c]["ts"]
    <2>1. CASE step[c] = 1
        <3> USE <1>2, <1>3, <1>4 DEF Aligned, Has, Since, Final, NextField, SampleOrder, Fields
        <3>1. step'[c] = 2 /\ spc'[c] = "sample"  BY <2>1 DEF SamplerType
        <3> QED  BY <2>1, <3>1
    <2>2. CASE step[c] = 2
        <3> USE <1>2, <1>3, <1>4 DEF Aligned, Has, Since, Final, NextField, SampleOrder, Fields
        <3>1. step'[c] = 3 /\ spc'[c] = "sample"  BY <2>2 DEF SamplerType
        <3> QED  BY <2>2, <3>1
    <2>3. CASE step[c] = 3
        <3> USE <1>2, <1>3, <1>4 DEF Aligned, Has, Since, Final, NextField, SampleOrder, Fields
        <3>1. step'[c] = 4 /\ spc'[c] = "sample"  BY <2>3 DEF SamplerType
        <3> QED  BY <2>3, <3>1
    <2>4. CASE step[c] = 4
        <3> USE <1>2, <1>3, <1>4 DEF Aligned, Has, Since, Final, NextField, SampleOrder, Fields
        <3>1. step'[c] = 1 /\ spc'[c] = "sleep"  BY <2>4 DEF SamplerType
        <3> QED  BY <2>4, <3>1
    <2>5. step[c] = 1 \/ step[c] = 2 \/ step[c] = 3 \/ step[c] = 4  BY <1>1
    <2> QED  BY Zenon, <2>1, <2>2, <2>3, <2>4, <2>5
<1>8. AlignInv'
    <2> SUFFICES ASSUME NEW b \in Collectors PROVE Aligned(b)'
        BY DEF AlignInv
    <2>1. Aligned(b)  BY DEF AlignInv
    <2>2. CASE b # c
        <3>1. kept'[b] = kept[b] /\ step'[b] = step[b] /\ spc'[b] = spc[b]
            BY <2>2 DEF SamplerType, ArrayType
        <3> QED  BY <2>1, <3>1 DEF Aligned, Has, Since
    <2>3. CASE b = c  BY <2>3, <1>7
    <2> QED  BY <2>2, <2>3
<1>9. AccountInv'  BY DEF AccountInv, Alive, SamplerType
<1>10. ReportInv'
    <2>1. CASE mpc # "report"  BY <2>1 DEF ReportInv
    <2>2. CASE mpc = "report"
        <3>1. coll \in Collectors  BY <2>2 DEF CollKnown, CollectType, Collectors
        <3>2. Final(coll)' = Final(coll) /\ kept'[coll]["ts"] >= kept[coll]["ts"]
            <4>1. CASE coll # c  BY <4>1, <3>1, <1>2 DEF Final, SamplerType, ArrayType, Fields
            <4>2. CASE coll = c  BY <4>2, <1>7
            <4> QED  BY <4>1, <4>2
        <3>3. kept[coll]["ts"] \in Int /\ kept'[coll]["ts"] \in Int /\ report["ts"] \in Int
            BY <3>1, <1>6 DEF ArrayType, Fields
        <3> QED  BY <2>2, <3>2, <3>3 DEF ReportInv
    <2> QED  BY <2>1, <2>2
<1>11. DaemonType' /\ FlagType' /\ CollectType' /\ CollKnown' /\ TimerType' /\ TimerInv' /\ PortInv'
          /\ CollInv' /\ ReportFits'
    BY DEF DaemonType, FlagType, CollectType, CollKnown, TimerType, TimerInv, PortInv, CollInv, ReportFits
<1> QED  BY <1>5, <1>6, <1>8, <1>9, <1>10, <1>11

LEMMA WakeUpInv == ASSUME Inv, NEW c \in Collectors, WakeUp(c) PROVE Inv'
<1> USE DEF Inv, TypeOK, WakeUp, vars, daemonVars, collectVars, samplerVars, reportVars, timerVars, Gone
<1>1. SamplerType'  BY DEF SamplerType, Collectors
<1>2. AccountInv'  BY DEF AccountInv, Alive, CollectType, SamplerType, ArrayType
<1>3. AlignInv'
    <2> SUFFICES ASSUME NEW b \in Collectors PROVE Aligned(b)'
        BY DEF AlignInv
    <2>1. Aligned(b)  BY DEF AlignInv
    <2>2. CASE b # c
        <3>1. kept'[b] = kept[b] /\ step'[b] = step[b] /\ spc'[b] = spc[b]
            BY <2>2 DEF SamplerType, ArrayType
        <3> QED  BY <2>1, <3>1 DEF Aligned, Has, Since
    <2>3. CASE b = c
        <3>1. spc'[c] = "sample" /\ step'[c] = step[c] /\ step[c] = 1
            BY <2>1, <2>3 DEF SamplerType, Aligned
        <3>2. kept[c]["memory"] \in Int  BY DEF ArrayType, Fields
        <3> QED  BY <2>1, <2>3, <3>1, <3>2 DEF Aligned, Has, Since
    <2> QED  BY <2>2, <2>3
<1>4. ReportInv'  BY DEF ReportInv, Final, Has, Since, Aligned, AlignInv, CollectType, SamplerType, ArrayType
<1>5. DaemonType' /\ FlagType' /\ CollectType' /\ CollKnown' /\ ArrayType' /\ TimerType' /\ TimerInv' /\ PortInv' /\ CollInv' /\ ReportFits'
    BY DEF DaemonType, FlagType, CollectType, CollKnown, ArrayType, TimerType, TimerInv, PortInv, CollInv, ReportFits, Fields
<1> QED  BY <1>1, <1>2, <1>3, <1>4, <1>5

LEMMA CancelActsInv == ASSUME Inv, NEW c \in Collectors, CancelActs(c) PROVE Inv'
<1> USE DEF Inv, TypeOK, CancelActs, CancelPoint, vars, daemonVars, collectVars, samplerVars, reportVars, timerVars, Gone
<1>1. SamplerType'  BY DEF SamplerType, Collectors
<1>2. AccountInv'  BY DEF AccountInv, Alive, CollectType, SamplerType, ArrayType
<1>3. AlignInv'  BY DEF AlignInv, Aligned, Has, Since, CollectType, SamplerType, ArrayType
<1>4. ReportInv'  BY DEF ReportInv, Final, Has, Since, Aligned, AlignInv, CollectType, SamplerType, ArrayType
<1>5. DaemonType' /\ FlagType' /\ CollectType' /\ CollKnown' /\ ArrayType' /\ TimerType' /\ TimerInv' /\ PortInv' /\ CollInv' /\ ReportFits'
    BY DEF DaemonType, FlagType, CollectType, CollKnown, ArrayType, TimerType, TimerInv, PortInv, CollInv, ReportFits, Fields
<1> QED  BY <1>1, <1>2, <1>3, <1>4, <1>5

LEMMA TickInv == ASSUME Inv, Tick PROVE Inv'
<1> USE DEF Inv, TypeOK, Tick, OneLess, vars, daemonVars, collectVars, samplerVars, reportVars, timerVars, Gone
<1>1. SamplerType'  BY DEF SamplerType, Collectors
<1>2. TimerType'  BY DEF TimerType
<1>3. TimerInv'  BY DEF TimerInv, TimerType, FlagType
<1>4. DaemonType' /\ FlagType' /\ CollectType' /\ CollKnown' /\ ArrayType' /\ PortInv' /\ CollInv' /\ AccountInv' /\ AlignInv' /\ ReportInv' /\ ReportFits'
    BY DEF DaemonType, FlagType, CollectType, CollKnown, ArrayType, PortInv, CollInv, AccountInv, AlignInv, ReportInv, ReportFits, Alive, Aligned, Has, Since, Final, Fields
<1> QED  BY <1>1, <1>2, <1>3, <1>4

LEMMA StutterInv == ASSUME Inv, UNCHANGED vars PROVE Inv'
<1> USE DEF Inv, TypeOK, vars, daemonVars, collectVars, samplerVars, reportVars, timerVars
<1>1. TypeOK' /\ TimerInv' /\ PortInv' /\ CollInv' /\ ReportFits'
    BY DEF DaemonType, FlagType, CollectType, CollKnown, SamplerType, ArrayType, TimerType, TimerInv,
           PortInv, CollInv, ReportFits
<1>2. AccountInv' /\ AlignInv' /\ ReportInv'
    BY DEF AccountInv, Alive, AlignInv, Aligned, Has, Since, ReportInv, Final
<1> QED  BY <1>1, <1>2

\* Every step keeps the invariant.
LEMMA NextInv == Inv /\ [Next]_vars => Inv'
<1> SUFFICES ASSUME Inv, [Next]_vars PROVE Inv'
    OBVIOUS
<1>1. CASE Daemon
    <2>1. CASE CannotStart  BY <2>1, EndsInv DEF CannotStart
    <2>2. CASE Construct  BY <2>2, ConstructInv
    <2>3. ASSUME NEW p \in Ports \cup {listenAddr}, Establish(p) PROVE Inv'
        BY <2>3, EstablishInv
    <2>4. CASE CannotEstablish  BY <2>4, EndsInv DEF CannotEstablish
    <2>5. CASE AcceptControl  BY <2>5, AcceptControlInv
    <2>6. CASE ConnectionLost  BY <2>6, ConnectionLostInv
    <2>7. CASE CloseSession  BY <2>7, CloseSessionInv
    <2>8. CASE EndDaemon  BY <2>8, EndsInv DEF EndDaemon
    <2> QED  BY <1>1, <2>1, <2>2, <2>3, <2>4, <2>5, <2>6, <2>7, <2>8 DEF Daemon
<1>2. CASE Control
    <2>1. ASSUME NEW c \in Collectors, InfoOrGetUsage(c) PROVE Inv'
        BY <2>1, InfoOrGetUsageInv
    <2>2. ASSUME NEW s \in Seconds, Ttl(s) PROVE Inv'
        BY <2>2, TtlInv
    <2>3. CASE GoodbyeReporting  BY <2>3, GoodbyeReportingInv
    <2>4. CASE Goodbye  BY <2>4, GoodbyeInv
    <2>5. CASE CopyArray  BY <2>5, CopyArrayInv
    <2>6. CASE CopyTorn  BY <2>6, EndsInv DEF CopyTorn
    <2>7. CASE ReportSent  BY <2>7, ReportSentInv
    <2>8. CASE BadRequest  BY <2>8, EndsInv DEF BadRequest
    <2> QED  BY <1>2, <2>1, <2>2, <2>3, <2>4, <2>5, <2>6, <2>7, <2>8 DEF Control
<1>3. ASSUME NEW c \in Collectors, Sampler(c) PROVE Inv'
    <2>1. CASE InitArray(c)  BY <2>1, InitArrayInv
    <2>2. CASE Append1(c)  BY <2>2, Append1Inv
    <2>3. CASE WakeUp(c)  BY <2>3, WakeUpInv
    <2>4. CASE CancelActs(c)  BY <2>4, CancelActsInv
    <2>5. CASE CannotSample(c)  BY <2>5, EndsInv DEF CannotSample
    <2> QED  BY <1>3, <2>1, <2>2, <2>3, <2>4, <2>5 DEF Sampler
<1>4. CASE Tick  BY <1>4, TickInv
<1>5. CASE AlarmRings  BY <1>5, EndsInv DEF AlarmRings
<1>6. CASE UNCHANGED vars  BY <1>6, StutterInv
<1> QED  BY <1>1, <1>2, <1>3, <1>4, <1>5, <1>6 DEF Next

\* The invariant holds in every session of the process.
LEMMA Invariance == Spec => []Inv
BY InitInv, NextInv, PTL DEF Spec

-----------------------------------------------------------------------------
(* The theorems *)

\* The state has its type, and coll is not used before the session has set it.
THEOREM TypeCorrect == Spec => []TypeOK
<1>1. Inv => TypeOK  BY DEF Inv
<1> QED  BY <1>1, Invariance, PTL

\* Nothing samples on but what the running session will stop, what a later INFO or GETUSAGE
\* of the same session replaced, and what a session without a GOODBYE left.
THEOREM LeaksAreKnown == Spec => []SamplersAccounted
<1>1. Inv => SamplersAccounted  BY DEF Inv, AccountInv, SamplersAccounted
<1> QED  BY <1>1, Invariance, PTL

\* GOODBYE reports the newest collector, which is of its session, and the report is
\* consistent up to one sample though the thread still runs.
THEOREM ReportIsFaithful == Spec => []ReportFaithful
<1>1. Inv => ReportOwn  BY DEF Inv, TypeOK, CollKnown, CollInv, ReportOwn
<1>2. Inv => ReportFaithful  BY <1>1 DEF Inv, ReportFaithful
<1> QED  BY <1>2, Invariance, PTL

\* The alarm follows the requests for a TTL over all sessions.
THEOREM AlarmFollows == Spec => []TtlAsAsked
<1>1. Inv => TtlAsAsked  BY DEF Inv, TimerInv, TtlAsAsked
<1> QED  BY <1>1, Invariance, PTL

\* The port that was told once is the port of every session.
THEOREM PortStays == Spec => []PortAsWritten
<1>1. Inv => PortAsWritten  BY DEF Inv, PortInv, PortAsWritten
<1> QED  BY <1>1, Invariance, PTL
=============================================================================
