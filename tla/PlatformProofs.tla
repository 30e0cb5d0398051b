-------------------------- MODULE PlatformProofs ----------------------------
(***************************************************************************)
(* What the modules stand on, for all values of the constants: the service *)
(* watches over its threads and writes its log in order, the loop of       *)
(* mqttsub_entry never rests on a connection that is not fully subscribed; *)
(* and the composition that the run checks, MCPlatform, runs each part by  *)
(* its own specification, so that what is proved of a part holds there.    *)
(***************************************************************************)
EXTENDS MailboxProofs, TimerWheelProofs, MCPlatform

-----------------------------------------------------------------------------
(* The thread monitor.                                                     *)

\* A check without a lock judges by counts that are consistent all the same:
\* a count is odd exactly in a handler, and it is the copied count plus what
\* was counted since.
CountsTell ==
  \A m \in Mids :
    /\ ulCurMsgCnt[m] = (ulLastMsgCnt[m] + moved[m]) % CountMod
    /\ thread[m] = "waiting" <=> ulCurMsgCnt[m] % 2 = 0

\* The mid under suspicion was in a handler when its count was read, and is
\* still in the same one if nothing was counted since the last copy.
Suspicion ==
  /\ check = "compare" => midsLeft \subseteq Monitored
  /\ odd # NoMid => /\ check = "compare"
                    /\ odd \in Monitored
                    /\ moved[odd] = 0 => ulCurMsgCnt[odd] % 2 = 1

MonitorInvariant == MonitorTypeOK /\ CountsTell /\ Suspicion

\* The counter counts through its wrap without losing its parity, and two
\* counts less than a turn apart are equal only if nothing was counted.
LEMMA CounterWrap ==
  ASSUME NEW n \in Nat \ {0}, n % 2 = 0, NEW a \in 0..n-1
  PROVE  /\ (a + 1) % n = IF a = n - 1 THEN 0 ELSE a + 1
         /\ (a + 1) % n \in 0..n-1
         /\ ((a + 1) % n) % 2 = 0 <=> a % 2 = 1
<1>1. (a + 1) % n = IF a = n - 1 THEN 0 ELSE a + 1
  <2>1. CASE a = n - 1
    <3>1. a + 1 = n /\ n % n = 0
      BY <2>1
    <3> QED
      BY <3>1, <2>1
  <2>2. CASE a # n - 1
    <3>1. a + 1 \in 0..n-1
      BY <2>2
    <3> QED
      BY <3>1, <2>2
  <2> QED
    BY <2>1, <2>2
<1>2. CASE a = n - 1
  BY <1>1, <1>2
<1>3. CASE a # n - 1
  BY <1>1, <1>3
<1> QED
  BY <1>1, <1>2, <1>3

LEMMA CountsApart ==
  ASSUME NEW n \in Nat \ {0}, NEW a \in 0..n-1, NEW k \in 0..n-1
  PROVE  /\ (a + k) % n = IF a + k < n THEN a + k ELSE a + k - n
         /\ a = (a + k) % n <=> k = 0
<1>1. CASE a + k < n
  BY <1>1
<1>2. CASE a + k >= n
  <2>1. (a + k - n) % n = a + k - n /\ (a + k) % n = (a + k - n) % n
    BY <1>2
  <2> QED
    BY <2>1, <1>2
<1> QED
  BY <1>1, <1>2

LEMMA Starts == MonitorInit => MonitorInvariant
<1> SUFFICES ASSUME MonitorInit PROVE MonitorInvariant
  OBVIOUS
<1>1. CountMod \in Nat \ {0}
  BY MonitorAssumption
<1>2. MonitorTypeOK
  <2>1. 0 \in 0..CountMod-1
    BY <1>1
  <2>2. /\ ulCurMsgCnt \in [Mids -> 0..CountMod-1]
        /\ ulLastMsgCnt \in [Mids -> 0..CountMod-1]
        /\ moved \in [Mids -> 0..CountMod-1]
    BY <2>1 DEF MonitorInit
  <2> QED
    BY <2>2 DEF MonitorInit, MonitorTypeOK
<1>3. CountsTell
  BY <1>1 DEF MonitorInit, CountsTell
<1>4. Suspicion
  BY DEF MonitorInit, Suspicion
<1> QED
  BY <1>2, <1>3, <1>4 DEF MonitorInvariant

\* A thread counts itself into or out of a handler.
LEMMA CountKeeps ==
  ASSUME MonitorInvariant, NEW m \in Mids, Count(m),
         NEW there \in {"waiting", "handling"}, thread' = [thread EXCEPT ![m] = there],
         there = "waiting" <=> thread[m] # "waiting",
         UNCHANGED <<scan, msgQArray, ends>>, process' \in {"running", "exited", "crashed"}
  PROVE  MonitorInvariant'
<1>1. CountMod \in Nat \ {0} /\ CountMod % 2 = 0 /\ MonitorTypeOK /\ CountsTell /\ Suspicion
  BY MonitorAssumption DEF MonitorInvariant
<1>2. /\ ulCurMsgCnt' = [ulCurMsgCnt EXCEPT ![m] = (@ + 1) % CountMod]
      /\ moved' = [moved EXCEPT ![m] = @ + 1]
      /\ moved[m] < CountMod - 1 /\ ulLastMsgCnt' = ulLastMsgCnt
  BY DEF Count
<1> DEFINE a == ulCurMsgCnt[m]
           l == ulLastMsgCnt[m]
           k == moved[m]
<1>3. a \in 0..CountMod-1 /\ l \in 0..CountMod-1 /\ k \in 0..CountMod-1 /\ k + 1 \in 0..CountMod-1
      /\ a = (l + k) % CountMod /\ (thread[m] = "waiting" <=> a % 2 = 0)
  BY <1>1, <1>2 DEF MonitorTypeOK, CountsTell
<1>4. ulCurMsgCnt'[m] = (a + 1) % CountMod /\ moved'[m] = k + 1 /\ thread'[m] = there
  BY <1>1, <1>2 DEF MonitorTypeOK
<1> HIDE DEF a, l, k
<1>5. /\ (a + 1) % CountMod = IF a = CountMod - 1 THEN 0 ELSE a + 1
      /\ (a + 1) % CountMod \in 0..CountMod-1
      /\ ((a + 1) % CountMod) % 2 = 0 <=> a % 2 = 1
  BY <1>1, <1>3, CounterWrap
<1>6. (a + 1) % CountMod = (l + (k + 1)) % CountMod
  <2>1. (l + k) % CountMod = IF l + k < CountMod THEN l + k ELSE l + k - CountMod
    BY <1>1, <1>3, CountsApart
  <2>2. (l + (k + 1)) % CountMod
          = IF l + (k + 1) < CountMod THEN l + (k + 1) ELSE l + (k + 1) - CountMod
    BY <1>1, <1>3, CountsApart
  <2> QED
    BY <1>1, <1>3, <1>5, <2>1, <2>2
<1>7. MonitorTypeOK'
  BY <1>1, <1>2, <1>3, <1>4, <1>5 DEF MonitorTypeOK, scan, ends, log, a, k
<1>8. CountsTell'
  <2>1. a % 2 = 0 \/ a % 2 = 1
    BY <1>3
  <2>2. ASSUME NEW n \in Mids, n # m
        PROVE  /\ ulCurMsgCnt'[n] = ulCurMsgCnt[n] /\ moved'[n] = moved[n]
               /\ thread'[n] = thread[n]
    BY <1>1, <1>2, <2>2 DEF MonitorTypeOK
  <2>3. /\ ulCurMsgCnt'[m] = (ulLastMsgCnt'[m] + moved'[m]) % CountMod
        /\ thread'[m] = "waiting" <=> ulCurMsgCnt'[m] % 2 = 0
    BY <1>2, <1>3, <1>4, <1>5, <1>6, <2>1 DEF l
  <2> QED
    BY <1>1, <1>2, <2>2, <2>3 DEF CountsTell
<1>9. Suspicion'
  BY <1>1, <1>2, <1>3, <1>4 DEF Suspicion, MonitorTypeOK, scan
<1> QED
  BY <1>7, <1>8, <1>9 DEF MonitorInvariant

\* The check and a handler that hangs leave the counts alone.
LEMMA StillKeeps ==
  ASSUME MonitorInvariant, UNCHANGED <<counts, moved>>, MonitorTypeOK', Suspicion',
         \A m \in Mids : thread'[m] = "waiting" <=> thread[m] = "waiting"
  PROVE  MonitorInvariant'
  BY DEF MonitorInvariant, CountsTell, counts

LEMMA CopyKeeps ==
  ASSUME MonitorInvariant, NEW m \in Mids, Copy(m)
  PROVE  MonitorInvariant'
<1>1. CountMod \in Nat \ {0} /\ MonitorTypeOK /\ CountsTell /\ Suspicion
  BY MonitorAssumption DEF MonitorInvariant
<1>2. MonitorTypeOK'
  BY <1>1 DEF Copy, MonitorTypeOK, monitorOnly, ends, log
<1>3. CountsTell'
  <2>1. /\ ulLastMsgCnt' = [ulLastMsgCnt EXCEPT ![m] = ulCurMsgCnt[m]]
        /\ moved' = [moved EXCEPT ![m] = 0]
        /\ UNCHANGED <<ulCurMsgCnt, thread>>
    BY DEF Copy, monitorOnly
  <2>2. ulCurMsgCnt[m] \in 0..CountMod-1
    BY <1>1 DEF MonitorTypeOK
  <2>3. ulCurMsgCnt[m] = (ulCurMsgCnt[m] + 0) % CountMod
    BY <1>1, <2>2
  <2> QED
    BY <1>1, <2>1, <2>3 DEF CountsTell, MonitorTypeOK
<1>4. Suspicion'
  BY <1>1 DEF Copy, Suspicion
<1> QED
  BY <1>2, <1>3, <1>4 DEF MonitorInvariant

LEMMA MonitorStep ==
  MonitorInvariant /\ [MonitorNext]_monitorVars => MonitorInvariant'
<1> SUFFICES ASSUME MonitorInvariant, [MonitorNext]_monitorVars
             PROVE  MonitorInvariant'
  OBVIOUS
<1>1. CountMod \in Nat \ {0} /\ MonitorTypeOK /\ CountsTell /\ Suspicion /\ NoMid \notin Mids
  BY MonitorAssumption DEF MonitorInvariant
<1>2. ASSUME NEW m \in Mids, BeginHandler(m) PROVE MonitorInvariant'
  BY <1>1, <1>2, CountKeeps DEF BeginHandler, MonitorTypeOK
<1>3. ASSUME NEW m \in Mids, EndHandler(m) PROVE MonitorInvariant'
  BY <1>1, <1>3, CountKeeps DEF EndHandler, MonitorTypeOK
<1>4. ASSUME NEW m \in Mids, Hang(m) PROVE MonitorInvariant'
  <2>1. MonitorTypeOK' /\ Suspicion'
    BY <1>1, <1>4 DEF Hang, MonitorTypeOK, Suspicion, counts, scan, ends, log
  <2>2. \A n \in Mids : thread'[n] = "waiting" <=> thread[n] = "waiting"
    BY <1>1, <1>4 DEF Hang, MonitorTypeOK
  <2> QED
    BY <1>4, <2>1, <2>2, StillKeeps DEF Hang
<1>5. CASE BeginCheck
  <2>1. MonitorTypeOK' /\ Suspicion'
    BY <1>1, <1>5 DEF BeginCheck, MonitorTypeOK, Suspicion, Monitored, counts, monitorOnly, ends, log
  <2> QED
    BY <1>5, <2>1, StillKeeps DEF BeginCheck, monitorOnly
<1>6. ASSUME NEW m \in Mids, LookAtParity(m) PROVE MonitorInvariant'
  <2>1. MonitorTypeOK' /\ Suspicion'
    BY <1>1, <1>6 DEF LookAtParity, Busy, MonitorTypeOK, Suspicion, Monitored, counts, monitorOnly, ends, log
  <2> QED
    BY <1>6, <2>1, StillKeeps DEF LookAtParity, monitorOnly
<1>7. CASE Compare
  <2>1. MonitorTypeOK' /\ Suspicion'
    BY <1>1, <1>7 DEF Compare, MonitorTypeOK, Suspicion, counts, monitorOnly, ends, log
  <2> QED
    BY <1>7, <2>1, StillKeeps DEF Compare, monitorOnly
<1>8. CASE EndCompare
  <2>1. MonitorTypeOK' /\ Suspicion'
    BY <1>1, <1>8 DEF EndCompare, MonitorTypeOK, Suspicion, counts, monitorOnly, ends, log
  <2> QED
    BY <1>8, <2>1, StillKeeps DEF EndCompare, monitorOnly
<1>9. ASSUME NEW m \in Mids, Copy(m) PROVE MonitorInvariant'
  BY <1>9, CopyKeeps
<1>10. CASE EndCopy
  <2>1. MonitorTypeOK' /\ Suspicion'
    BY <1>1, <1>10 DEF EndCopy, MonitorTypeOK, Suspicion, counts, monitorOnly, ends, log
  <2> QED
    BY <1>10, <2>1, StillKeeps DEF EndCopy, monitorOnly
<1>11. CASE WriteBootupFlag \/ LogReason \/ BeginFlush \/ EndFlush \/ Exit
  <2>1. MonitorTypeOK' /\ Suspicion'
    BY <1>1, <1>11 DEF WriteBootupFlag, LogReason, BeginFlush, EndFlush, LineGoesTo, Exit, MonitorTypeOK,
       Suspicion, counts, scan, ends, log
  <2> QED
    BY <1>11, <2>1, StillKeeps DEF WriteBootupFlag, LogReason, BeginFlush, EndFlush, Exit
<1>12. ASSUME NEW m \in Mids, ClearMailbox(m) PROVE MonitorInvariant'
  <2>1. MonitorTypeOK' /\ Suspicion'
    BY <1>1, <1>12 DEF ClearMailbox, MonitorTypeOK, Suspicion, counts, ends, log
  <2> QED
    BY <1>12, <2>1, StillKeeps DEF ClearMailbox
<1>14. ASSUME NEW m \in Mids, BeginLine(m) \/ EndLine(m) PROVE MonitorInvariant'
  <2>1. MonitorTypeOK' /\ Suspicion'
    BY <1>1, <1>14 DEF BeginLine, EndLine, MonitorTypeOK, Suspicion, counts, scan
  <2> QED
    BY <1>14, <2>1, StillKeeps DEF BeginLine, EndLine
<1>15. CASE LogModule
  <2>1. MonitorTypeOK' /\ Suspicion'
    BY <1>1, <1>15 DEF LogModule, BeginPass, EndPass, PassesMeet, LineGoesTo, MonitorTypeOK, Suspicion,
       counts, scan, ends, log
  <2> QED
    BY <1>15, <2>1, StillKeeps DEF LogModule, BeginPass, EndPass, PassesMeet
<1>13. CASE UNCHANGED monitorVars
  <2>1. MonitorTypeOK' /\ Suspicion'
    BY <1>1, <1>13 DEF monitorVars, MonitorTypeOK, Suspicion, counts, scan, ends, log
  <2> QED
    BY <1>13, <2>1, StillKeeps DEF monitorVars
<1> QED
  BY <1>2, <1>3, <1>4, <1>5, <1>6, <1>7, <1>8, <1>9, <1>10, <1>11, <1>12, <1>13, <1>14, <1>15
     DEF MonitorNext, pf_thread_mon_check, ModuleThread

\* The invariant of every behaviour of the monitor.
THEOREM MonitorsInvariant == MonitorSpec => []MonitorInvariant
<1> QED
  BY Starts, MonitorStep, PTL DEF MonitorSpec

\* pf_thread_mon_check raises no false alarm, whatever the threads count while
\* it reads: the thread it condemns has not left its handler since the copy.
THEOREM NoFalseAlarm == MonitorSpec => AlarmIsReal
<1> DEFINE Real == abnormal' /\ ~abnormal =>
                     odd \in Monitored /\ thread[odd] # "waiting" /\ moved[odd] = 0
<1>1. ASSUME MonitorInvariant, MonitorNext, abnormal', ~abnormal
      PROVE  odd \in Monitored /\ thread[odd] # "waiting" /\ moved[odd] = 0
  <2>1. Compare
    BY <1>1 DEF MonitorInvariant, MonitorTypeOK, MonitorNext, pf_thread_mon_check, ModuleThread,
       BeginHandler, EndHandler, Hang, BeginLine, EndLine, BeginCheck, LookAtParity, EndCompare,
       Copy, EndCopy, WriteBootupFlag, LogReason, BeginFlush, EndFlush, Exit, ClearMailbox,
       LogModule, BeginPass, EndPass, PassesMeet, scan, counts
  <2>2. odd \in Monitored /\ odd \in Mids /\ ulLastMsgCnt[odd] = ulCurMsgCnt[odd]
    BY <1>1, <2>1 DEF Compare, MonitorInvariant, MonitorTypeOK, Suspicion, Monitored
  <2>3. moved[odd] = 0
    <3> DEFINE l == ulLastMsgCnt[odd]
               k == moved[odd]
    <3>1. CountMod \in Nat \ {0} /\ l \in 0..CountMod-1 /\ k \in 0..CountMod-1
          /\ l = (l + k) % CountMod
      BY <1>1, <2>2, MonitorAssumption DEF MonitorInvariant, MonitorTypeOK, CountsTell
    <3> HIDE DEF l, k
    <3>2. k = 0
      BY <3>1, CountsApart
    <3> QED
      BY <3>2 DEF k
  <2>4. ulCurMsgCnt[odd] % 2 = 1
    BY <1>1, <2>1, <2>3 DEF Compare, MonitorInvariant, Suspicion
  <2>5. thread[odd] # "waiting"
    BY <1>1, <2>2, <2>4 DEF MonitorInvariant, CountsTell
  <2> QED
    BY <2>2, <2>3, <2>5
<1>2. MonitorInvariant /\ [MonitorNext]_monitorVars => [Real]_monitorVars
  BY <1>1 DEF Real
<1> QED
  BY <1>2, MonitorsInvariant, PTL DEF MonitorSpec, AlarmIsReal, Real

-----------------------------------------------------------------------------
(* The end of the process.                                                 *)

\* A mailbox is only cleared once the boot file has the reason and the flush is
\* over, and until then only two passes that meet can end the process.
Gone == {"file", "putOff", "taken", "raced"}

Recorded ==
  /\ check \in {"log", "flush", "flushing", "clear"} => bootupFile
  /\ check \in {"flush", "flushing"} => reason \in {"memory"} \cup Gone
  /\ check = "flushing" /\ logPass => reason \in Gone
  /\ check = "clear" => reason \in Gone
  /\ check # "clear" => msgQArray = Mids
  /\ EndIsRecorded

LEMMA RecordedStep == Recorded /\ [MonitorNext]_monitorVars => Recorded'
<1> SUFFICES ASSUME Recorded, [MonitorNext]_monitorVars
             PROVE  Recorded'
  OBVIOUS
<1> USE DEF Recorded, EndIsRecorded, Gone
<1>1. ASSUME NEW m \in Mids, ModuleThread(m) PROVE Recorded'
  BY <1>1 DEF ModuleThread, BeginHandler, EndHandler, Hang, BeginLine, EndLine, scan, ends, log
<1>2. CASE BeginCheck \/ Compare \/ EndCompare \/ EndCopy
  BY <1>2 DEF BeginCheck, Compare, EndCompare, EndCopy, monitorOnly, ends, log
<1>3. ASSUME NEW m \in Mids, LookAtParity(m) \/ Copy(m) PROVE Recorded'
  BY <1>3 DEF LookAtParity, Copy, monitorOnly, ends, log
<1>4. ASSUME NEW m \in Mids, ClearMailbox(m) PROVE Recorded'
  BY <1>4 DEF ClearMailbox, ends, log
<1>5. CASE WriteBootupFlag \/ LogReason \/ BeginFlush \/ EndFlush
  BY <1>5 DEF WriteBootupFlag, LogReason, BeginFlush, EndFlush, LineGoesTo, log
<1>6. CASE Exit
  BY <1>6 DEF Exit, scan, ends, log
<1>7. CASE UNCHANGED monitorVars
  BY <1>7 DEF monitorVars, scan, ends, log
<1>8. CASE LogModule
  BY <1>8 DEF LogModule, BeginPass, EndPass, PassesMeet, LineGoesTo, scan, ends, log
<1> QED
  BY <1>1, <1>2, <1>3, <1>4, <1>5, <1>6, <1>7, <1>8 DEF MonitorNext, pf_thread_mon_check

\* However the process ends, by _exit, by a thread that trips over a mailbox the
\* check has cleared or by two passes over the log that meet: the boot file has
\* the reason, and a pass of the log has written its line or put it off or has it.
THEOREM NoSilentEnd == MonitorSpec => []EndIsRecorded
<1>1. MonitorInit => Recorded
  BY DEF MonitorInit, Recorded, EndIsRecorded
<1>2. Recorded => EndIsRecorded
  BY DEF Recorded
<1> QED
  BY <1>1, <1>2, RecordedStep, PTL DEF MonitorSpec

-----------------------------------------------------------------------------
(* The log.                                                                *)

\* Where a logger can be.
Places == {"out", "behind", "choose", "ring", "wrap", "wrapped", "block", "format",
           "format in ring", "deduct", "advance"}

\* The lengths a line can have.
Short == {k \in Nat : L + k < U32Mod}

\* A place in the ring, or a block of the line's own.
Spots == Nat \cup {NoOffset}
Logged == [off : Spots, len : Short, done : BOOLEAN]

\* The ring of Writer holds unsigned numbers: a line that is given back takes
\* the offset beyond the ring by its own length at most.
OffsetTypes ==
  /\ readOffset \in 0 .. U32Mod - 1 /\ readAddr \in Nat
  /\ writeOffset \in Nat /\ writeAddr \in Nat
  /\ avail \in 0 .. U32Mod - 1
  /\ giving \in {"nothing", "address", "judge", "rewind", "zero", "refill"}
  /\ giving \in {"nothing", "refill"} => R + readOffset < L

\* A line that is to go to the ring has been measured, and what is formatted
\* has been published.
PlaceTypes ==
  /\ place \in [Loggers -> Places]
  /\ mine \in [Loggers -> 0 .. MaxLines]
  /\ measured \in 0 .. U32Mod - 1
  /\ place[Writer] \in {"ring", "format in ring"} => measured > R
  /\ \A t \in Loggers : place[t] \in {"format", "format in ring", "deduct", "advance"} =>
                          mine[t] \in 1 .. Len(lines)

\* Lines are numbered as they are published; the rest are such numbers.
LineTypes ==
  /\ lines \in Seq(Logged) /\ Len(lines) <= MaxLines
  /\ local \in Seq(Nat) /\ batch \in Seq(Nat) /\ file \in Seq(Nat)
  /\ flag \in BOOLEAN

\* The line at the head of the batch is in the file and not yet given back.
Double == IF giving = "nothing" THEN 0 ELSE 1
Passed == Len(file) - Double + Len(local)

\* file, local, batch and shared hold the lines one after another.
Row(s, b) == \A i \in 1 .. Len(s) : s[i] = b + i

InRow ==
  /\ Row(file, 0) /\ Row(local, Len(file) - Double) /\ Row(batch, Passed)
  /\ Passed + Len(batch) <= Len(lines)
  /\ shared = Passed + Len(batch) + 1 .. Len(lines)

\* What pf_log_send knows in the course of a pass.
Passing ==
  /\ sending = "idle" => batch = <<>>
  /\ sending # "idle" /\ flag => local = <<>>
  /\ giving # "nothing" => batch # <<>> /\ flag /\ Len(file) > 0

LogInv == OffsetTypes /\ PlaceTypes /\ LineTypes /\ InRow /\ Passing

\* What the assumption says.
LEMMA LogSizes ==
  /\ L \in Nat /\ R \in Nat /\ 2 < R /\ R < L /\ L < U32Mod /\ U32Mod \in Nat \ {0}
  /\ MaxLines \in Nat /\ Lengths \subseteq Nat
BY LogAssumption DEF L, R

\* Unsigned numbers stay unsigned.
LEMMA Unsigned ==
  ASSUME NEW n \in Int PROVE n % U32Mod \in 0 .. U32Mod - 1
BY LogSizes

\* Rows that grow at the end and shrink at the front.
LEMMA EmptyRow ==
  ASSUME NEW b \in Int PROVE <<>> \in Seq(Nat) /\ Len(<<>>) = 0 /\ Row(<<>>, b)
BY DEF Row

LEMMA LongerRow ==
  ASSUME NEW s \in Seq(Nat), NEW b \in Int, Row(s, b), NEW x \in Nat, x = b + Len(s) + 1
  PROVE  Append(s, x) \in Seq(Nat) /\ Len(Append(s, x)) = Len(s) + 1 /\ Row(Append(s, x), b)
<1>1. Len(s) \in Nat
  OBVIOUS
<1>2. /\ Append(s, x) \in Seq(Nat) /\ Len(Append(s, x)) = Len(s) + 1
      /\ \A i \in 1 .. Len(s) : Append(s, x)[i] = s[i]
      /\ Append(s, x)[Len(s) + 1] = x
  OBVIOUS
<1>3. ASSUME NEW i \in 1 .. Len(s) + 1
      PROVE  Append(s, x)[i] = b + i
  <2>1. CASE i \in 1 .. Len(s)
    BY <1>2, <2>1 DEF Row
  <2>2. CASE i = Len(s) + 1
    BY <1>1, <1>2, <2>2
  <2> QED
    BY <1>1, <2>1, <2>2
<1> QED
  BY <1>2, <1>3 DEF Row

LEMMA ShorterRow ==
  ASSUME NEW s \in Seq(Nat), s # <<>>, NEW b \in Int, Row(s, b)
  PROVE  /\ Tail(s) \in Seq(Nat) /\ Len(Tail(s)) = Len(s) - 1 /\ Row(Tail(s), b + 1)
         /\ Head(s) = b + 1 /\ Head(s) \in Nat /\ Len(s) \in Nat \ {0}
<1>1. Len(s) \in Nat \ {0}
  OBVIOUS
<1>2. Head(s) = s[1] /\ s[1] \in Nat
  BY <1>1
<1>3. Tail(s) \in Seq(Nat) /\ Len(Tail(s)) = Len(s) - 1
      /\ \A i \in 1 .. Len(Tail(s)) : Tail(s)[i] = s[i + 1]
  BY HeadTailProperties
<1>4. ASSUME NEW i \in 1 .. Len(s) - 1
      PROVE  Tail(s)[i] = (b + 1) + i
  <2>1. i + 1 \in 1 .. Len(s)
    BY <1>1
  <2> QED
    BY <1>3, <2>1 DEF Row
<1> QED
  BY <1>1, <1>2, <1>3, <1>4 DEF Row

\* The numbers of the lines still to be taken, in order.
LEMMA NumberedInterval ==
  ASSUME NEW m \in Nat, NEW n \in Nat, m <= n
  PROVE  /\ Numbered(m + 1 .. n) \in Seq(Nat)
         /\ Len(Numbered(m + 1 .. n)) = n - m
         /\ Row(Numbered(m + 1 .. n), m)
<1>0. m + 1 \in Int /\ n \in Int /\ (m + 1 > n <=> n - m = 0)
  OBVIOUS
<1>1. Cardinality(m + 1 .. n) = n - m
  <2>1. Cardinality(m + 1 .. n) = IF m + 1 > n THEN 0 ELSE n - (m + 1) + 1
    BY <1>0, FS_Interval
  <2> QED
    BY <1>0, <2>1
<1>2. ASSUME NEW k \in m + 1 .. n
      PROVE  Cardinality({j \in m + 1 .. n : j <= k}) = k - m
  <2>1. {j \in m + 1 .. n : j <= k} = m + 1 .. k
    OBVIOUS
  <2>2. Cardinality(m + 1 .. k) = k - m
    BY FS_Interval
  <2> QED
    BY <2>1, <2>2
<1> DEFINE nth(i) == CHOOSE k \in m + 1 .. n : Cardinality({j \in m + 1 .. n : j <= k}) = i
<1>3. ASSUME NEW i \in 1 .. n - m
      PROVE  nth(i) = m + i
  <2>1. m + i \in m + 1 .. n
    OBVIOUS
  <2>2. \A k \in m + 1 .. n : Cardinality({j \in m + 1 .. n : j <= k}) = i <=> k = m + i
    BY <1>2
  <2> QED
    BY <2>1, <2>2
<1>4. Numbered(m + 1 .. n) = [i \in 1 .. n - m |-> nth(i)]
  BY <1>1 DEF Numbered
<1> HIDE DEF nth
<1>5. \A i \in 1 .. n - m : nth(i) \in Nat
  BY <1>3
<1>6. [i \in 1 .. n - m |-> nth(i)] \in Seq(Nat)
  BY <1>5
<1>7. Len([i \in 1 .. n - m |-> nth(i)]) = n - m
  BY <1>5
<1> QED
  BY <1>3, <1>4, <1>6, <1>7 DEF Row

\* Steps of pf_log that leave the lines alone.
LEMMA OffsetsKept ==
  ASSUME LogInv, \/ Measure \/ MeasureBehind \/ ChooseRing \/ ChooseBlock \/ WrapAvail \/ WrapOffset
                 \/ DeductAvail \/ Advance
  PROVE  LogInv'
<1> USE LogSizes DEF LogInv
<1>0. Writer \in Loggers
  BY DEF Loggers
<1>1. UNCHANGED <<lines, shared, mine, local, sending, batch, giving, flag, file>>
  BY DEF Measure, MeasureBehind, ChooseRing, ChooseBlock, WrapAvail, WrapOffset, DeductAvail, Advance,
     reader
<1>2. LineTypes' /\ InRow' /\ Passing'
  BY <1>1 DEF LineTypes, InRow, Passing, Double, Passed
<1>a. ASSUME NEW to \in {"behind", "choose", "wrap", "wrapped", "block", "advance", "out"},
             place' = [place EXCEPT ![Writer] = to], measured' = measured,
             to = "advance" => place[Writer] = "deduct"
      PROVE  PlaceTypes'
  <2>1. place' \in [Loggers -> Places] /\ place'[Writer] = to
    BY <1>0, <1>a DEF PlaceTypes, Places
  <2>2. \A t \in Loggers : t # Writer => place'[t] = place[t]
    BY <1>a DEF PlaceTypes
  <2>3. ASSUME NEW t \in Loggers,
               place'[t] \in {"format", "format in ring", "deduct", "advance"}
        PROVE  mine[t] \in 1 .. Len(lines)
    BY <1>a, <2>1, <2>2, <2>3 DEF PlaceTypes
  <2> QED
    BY <1>1, <1>a, <2>1, <2>3 DEF PlaceTypes
<1>b. ASSUME readOffset' = readOffset, readAddr' = readAddr,
             writeOffset' \in Nat, writeAddr' \in Nat, avail' \in 0 .. U32Mod - 1
      PROVE  OffsetTypes'
  BY <1>1, <1>b DEF OffsetTypes
<1>c. ASSUME UNCHANGED offsets
      PROVE  OffsetTypes'
  BY <1>b, <1>c DEF offsets, OffsetTypes
<1>3. CASE Measure
  BY <1>2, <1>3, <1>a, <1>c DEF Measure, Goes
<1>4. CASE MeasureBehind
  <2>1. (readOffset - writeOffset - 2) % U32Mod \in 0 .. U32Mod - 1
    BY Unsigned DEF OffsetTypes
  <2>2. PlaceTypes'
    BY <1>4, <1>a DEF MeasureBehind, Goes
  <2>3. OffsetTypes'
    BY <1>4, <2>1, <1>b DEF MeasureBehind, OffsetTypes
  <2> QED
    BY <1>2, <2>2, <2>3
<1>5. CASE ChooseRing
  <2>1. place' = [place EXCEPT ![Writer] = "ring"] /\ avail > R /\ measured' = avail
        /\ UNCHANGED offsets
    BY <1>5 DEF ChooseRing, Goes
  <2>2. place' \in [Loggers -> Places]
        /\ \A t \in Loggers : t # Writer => place'[t] = place[t]
    BY <2>1 DEF PlaceTypes, Places
  <2>3. ASSUME NEW t \in Loggers,
               place'[t] \in {"format", "format in ring", "deduct", "advance"}
        PROVE  mine[t] \in 1 .. Len(lines)
    BY <1>0, <2>1, <2>2, <2>3 DEF PlaceTypes
  <2>4. PlaceTypes'
    BY <1>1, <2>1, <2>2, <2>3 DEF PlaceTypes, OffsetTypes
  <2> QED
    BY <1>2, <1>c, <2>1, <2>4
<1>6. CASE ChooseBlock
  BY <1>2, <1>6, <1>a, <1>c DEF ChooseBlock, Goes
<1>7. CASE WrapAvail
  <2>1. PlaceTypes'
    BY <1>7, <1>a DEF WrapAvail, Goes
  <2>2. OffsetTypes'
    BY <1>7, <1>b DEF WrapAvail, OffsetTypes
  <2> QED
    BY <1>2, <2>1, <2>2
<1>8. CASE WrapOffset
  <2>1. PlaceTypes'
    BY <1>8, <1>a DEF WrapOffset, Goes
  <2>2. OffsetTypes'
    BY <1>8, <1>b DEF WrapOffset, OffsetTypes
  <2> QED
    BY <1>2, <2>1, <2>2
<1>d. ASSUME place[Writer] \in {"deduct", "advance"}
      PROVE  lines[mine[Writer]].len \in Nat
  <2>1. mine[Writer] \in 1 .. Len(lines) /\ lines \in Seq(Logged)
    BY <1>0, <1>d DEF PlaceTypes, LineTypes
  <2>2. lines[mine[Writer]] \in Logged
    BY <2>1, ElementOfSeq
  <2> QED
    BY <2>2 DEF Logged, Short
<1>9. CASE DeductAvail
  <2>0. place[Writer] = "deduct"
    BY <1>9 DEF DeductAvail, Goes
  <2>1. (avail - lines[mine[Writer]].len) % U32Mod \in 0 .. U32Mod - 1
    <3>1. PICK n \in Nat : n = lines[mine[Writer]].len
      BY <1>d, <2>0
    <3>2. avail - n \in Int
      BY DEF OffsetTypes
    <3>3. (avail - n) % U32Mod \in 0 .. U32Mod - 1
      BY <3>2, Unsigned
    <3> QED
      BY <3>1, <3>3
  <2>2. PlaceTypes'
    BY <1>9, <1>a DEF DeductAvail, Goes
  <2>3. OffsetTypes'
    BY <1>9, <2>1, <1>b DEF DeductAvail, OffsetTypes
  <2> QED
    BY <1>2, <2>2, <2>3
<1>10. CASE Advance
  <2>0. place[Writer] = "advance"
    BY <1>10 DEF Advance, Goes
  <2>1. PlaceTypes'
    BY <1>10, <1>a DEF Advance, Goes
  <2>2. OffsetTypes'
    BY <1>10, <1>b, <1>d, <2>0 DEF Advance, OffsetTypes
  <2> QED
    BY <1>2, <2>1, <2>2
<1> QED
  BY <1>3, <1>4, <1>5, <1>6, <1>7, <1>8, <1>9, <1>10


\* Lengths and counters are numbers.
LEMMA Counts ==
  ASSUME LineTypes
  PROVE  /\ Len(lines) \in Nat /\ Len(file) \in Nat /\ Len(local) \in Nat /\ Len(batch) \in Nat
         /\ Double \in {0, 1} /\ Passed \in Int
<1>1. /\ Len(lines) \in Nat /\ Len(file) \in Nat /\ Len(local) \in Nat /\ Len(batch) \in Nat
  BY LenProperties DEF LineTypes
<1> QED
  BY <1>1 DEF Double, Passed

\* A step of t that publishes a line, and one that formats it.
Publishes(t, to, off) ==
  /\ to \in {"format", "format in ring"} /\ off \in Spots
  /\ place' = [place EXCEPT ![t] = to]
  /\ to = "format in ring" => place[t] = "ring"
  /\ Published(t, off)

Formats(t, to, len) ==
  /\ place[t] \in {"format", "format in ring"} /\ to \in {"out", "deduct"} /\ len \in Short
  /\ place' = [place EXCEPT ![t] = to]
  /\ Complete(t, len)

\* A published line is the last one, in the map and unwritten.
LEMMA Publishing ==
  ASSUME LogInv, NEW t \in Loggers, NEW to, NEW off, Publishes(t, to, off)
  PROVE  LogInv'
<1> DEFINE line == [off |-> off, len |-> 0, done |-> FALSE]
<1>1. /\ Len(lines) < MaxLines /\ lines' = Append(lines, line)
      /\ mine' = [mine EXCEPT ![t] = Len(lines')]
      /\ shared' = shared \cup {Len(lines')}
      /\ UNCHANGED <<offsets, measured>> /\ UNCHANGED reader
  BY DEF Publishes, Published
<1>2. line \in Logged
  <2>1. L + 0 = L
    BY LogSizes
  <2>2. 0 \in Short
    BY <2>1, LogSizes DEF Short
  <2> QED
    BY <2>2 DEF Publishes, Logged
<1> HIDE DEF line
<1>3. /\ lines \in Seq(Logged) /\ Len(lines) \in Nat
  BY Counts DEF LogInv, LineTypes
<1>4. lines' \in Seq(Logged) /\ Len(lines') = Len(lines) + 1
  BY <1>1, <1>2, <1>3, AppendProperties
<1>5. UNCHANGED <<local, sending, batch, giving, flag, file>>
  BY <1>1 DEF reader
<1>6. OffsetTypes'
  BY <1>1, <1>5 DEF LogInv, offsets, OffsetTypes
<1>7. LineTypes'
  <2>1. Len(lines') <= MaxLines
    BY <1>1, <1>3, <1>4, LogSizes
  <2> QED
    BY <1>4, <1>5, <2>1 DEF LogInv, LineTypes
<1>8. Passing'
  BY <1>5 DEF LogInv, Passing
<1>9. InRow'
  <2>1. Passed' = Passed /\ Double' = Double
    BY <1>5 DEF Passed, Double
  <2>2. /\ Passed \in Int /\ Len(batch) \in Nat /\ Passed + Len(batch) <= Len(lines)
        /\ shared = Passed + Len(batch) + 1 .. Len(lines)
    BY Counts DEF LogInv, InRow
  <2>3. shared' = shared \cup {Len(lines) + 1}
    BY <1>1, <1>4
  <2> DEFINE from == Passed + Len(batch)
  <2>4. from \in Int /\ from <= Len(lines) /\ shared = from + 1 .. Len(lines)
    BY <2>2
  <2> HIDE DEF from
  <2>5. shared' = from + 1 .. Len(lines) + 1
    BY <1>3, <2>3, <2>4
  <2>6. from <= Len(lines) + 1
    BY <1>3, <2>4
  <2>7. from' = from
    BY <1>5, <2>1 DEF from
  <2>8. from' <= Len(lines') /\ shared' = from' + 1 .. Len(lines')
    BY <1>4, <2>5, <2>6, <2>7
  <2>9. Row(file, 0)' /\ Row(local, Len(file) - Double)' /\ Row(batch, Passed)'
    BY <1>5, <2>1 DEF LogInv, InRow, Row
  <2> QED
    BY <2>8, <2>9 DEF InRow, from
<1>10. PlaceTypes'
  <2>1. place' \in [Loggers -> Places] /\ place'[t] = to
        /\ \A u \in Loggers : u # t => place'[u] = place[u]
    BY DEF Publishes, LogInv, PlaceTypes, Places
  <2>a. mine \in [Loggers -> 0 .. MaxLines]
    BY DEF LogInv, PlaceTypes
  <2>b. Len(lines) + 1 \in 0 .. MaxLines /\ mine' = [mine EXCEPT ![t] = Len(lines) + 1]
    BY <1>1, <1>3, <1>4, LogSizes
  <2>2. mine' \in [Loggers -> 0 .. MaxLines] /\ mine'[t] = Len(lines) + 1
        /\ \A u \in Loggers : u # t => mine'[u] = mine[u]
    BY <2>a, <2>b
  <2>3. Writer \in Loggers
    BY DEF Loggers
  <2>4. place'[Writer] \in {"ring", "format in ring"} => measured > R
    BY <2>1, <2>3 DEF Publishes, LogInv, PlaceTypes
  <2>5. ASSUME NEW u \in Loggers,
               place'[u] \in {"format", "format in ring", "deduct", "advance"}
        PROVE  mine'[u] \in 1 .. Len(lines) + 1
    <3>1. CASE u = t
      BY <1>3, <2>2, <3>1
    <3>2. CASE u # t
      <4>1. mine'[u] = mine[u] /\ place'[u] = place[u]
        BY <2>1, <2>2, <3>2
      <4>2. mine[u] \in 1 .. Len(lines)
        BY <2>5, <4>1 DEF LogInv, PlaceTypes
      <4> QED
        BY <1>3, <4>1, <4>2
    <3> QED
      BY <3>1, <3>2
  <2>6. measured' \in 0 .. U32Mod - 1 /\ measured' = measured
    BY <1>1 DEF LogInv, PlaceTypes
  <2> QED
    BY <1>4, <2>1, <2>2, <2>4, <2>5, <2>6 DEF PlaceTypes
<1> QED
  BY <1>6, <1>7, <1>8, <1>9, <1>10 DEF LogInv

\* Formatting fills the place of the line in, and marks it complete.
LEMMA Formatting ==
  ASSUME LogInv, NEW t \in Loggers, NEW to, NEW len, Formats(t, to, len)
  PROVE  LogInv'
<1> DEFINE k == mine[t]
<1>1. /\ lines' = [lines EXCEPT ![k].len = len, ![k].done = TRUE]
      /\ UNCHANGED <<offsets, mine, measured, shared>> /\ UNCHANGED reader
  BY DEF Formats, Complete
<1>2. k \in 1 .. Len(lines) /\ lines \in Seq(Logged) /\ Len(lines) \in Nat
  BY Counts DEF Formats, LogInv, PlaceTypes, LineTypes
<1>3. lines[k] \in Logged
  BY <1>2, ElementOfSeq
<1> HIDE DEF k
<1> DEFINE line == [lines[k] EXCEPT !.len = len, !.done = TRUE]
<1>4. line \in Logged
  BY <1>3 DEF Formats, Logged
<1>5. lines' = [lines EXCEPT ![k] = line]
  <2>1. DOMAIN lines = 1 .. Len(lines)
    BY <1>2, LenProperties
  <2> QED
    BY <1>1, <1>2, <2>1
<1> HIDE DEF line
<1>6. lines' \in Seq(Logged) /\ Len(lines') = Len(lines)
  <2>1. /\ [lines EXCEPT ![k] = line] \in Seq(Logged)
        /\ Len([lines EXCEPT ![k] = line]) = Len(lines)
    BY <1>2, <1>4, ExceptSeq
  <2> QED
    BY <1>5, <2>1
<1>7. UNCHANGED <<local, sending, batch, giving, flag, file>>
  BY <1>1 DEF reader
<1>8. OffsetTypes'
  BY <1>1, <1>7 DEF LogInv, offsets, OffsetTypes
<1>9. LineTypes' /\ Passing'
  BY <1>6, <1>7 DEF LogInv, LineTypes, Passing
<1>10. InRow'
  BY <1>1, <1>6, <1>7 DEF LogInv, InRow, Passed, Double, Row
<1>11. PlaceTypes'
  <2>1. place' \in [Loggers -> Places] /\ place'[t] = to
        /\ \A u \in Loggers : u # t => place'[u] = place[u]
    BY DEF Formats, LogInv, PlaceTypes, Places
  <2>2. Writer \in Loggers
    BY DEF Loggers
  <2>3. place'[Writer] \in {"ring", "format in ring"} => measured > R
    BY <2>1, <2>2 DEF Formats, LogInv, PlaceTypes
  <2>4. ASSUME NEW u \in Loggers,
               place'[u] \in {"format", "format in ring", "deduct", "advance"}
        PROVE  mine[u] \in 1 .. Len(lines)
    <3>1. place[u] \in {"format", "format in ring", "deduct", "advance"}
      BY <2>1, <2>4 DEF Formats
    <3> QED
      BY <3>1 DEF LogInv, PlaceTypes
  <2>5. measured' \in 0 .. U32Mod - 1 /\ measured' = measured
        /\ mine' \in [Loggers -> 0 .. MaxLines] /\ mine' = mine
    BY <1>1 DEF LogInv, PlaceTypes
  <2> QED
    BY <1>6, <2>1, <2>3, <2>4, <2>5 DEF PlaceTypes
<1> QED
  BY <1>8, <1>9, <1>10, <1>11 DEF LogInv

\* A step of the log module leaves the loggers where they are.
LEMMA LoggersKept ==
  ASSUME LogInv, UNCHANGED <<writers, lines>>
  PROVE  PlaceTypes'
BY DEF LogInv, PlaceTypes, writers

LEMMA BeginSendKeeps == LogInv /\ BeginSend => LogInv'
<1> SUFFICES ASSUME LogInv, BeginSend
             PROVE  LogInv'
  OBVIOUS
<1>1. /\ sending = "idle" /\ sending' = "local" /\ batch' = local /\ local' = <<>> /\ flag' = TRUE
      /\ UNCHANGED <<offsets, writers, lines, shared, giving, file>>
  BY DEF BeginSend
<1>2. batch = <<>> /\ giving = "nothing"
  BY <1>1 DEF LogInv, Passing
<1>3. /\ Len(file) \in Nat /\ Len(local) \in Nat /\ Len(<<>>) = 0
      /\ <<>> \in Seq(Nat) /\ Row(<<>>, Len(file))
  BY Counts, EmptyRow DEF LogInv
<1>4. Double = 0 /\ Double' = 0
  BY <1>1, <1>2 DEF Double
<1>5. Passed = Len(file) + Len(local) /\ Passed' = Len(file)
  BY <1>1, <1>3, <1>4 DEF Passed
<1>6. InRow'
  <2>1. /\ Row(file, 0) /\ Row(local, Len(file)) /\ Len(file) + Len(local) <= Len(lines)
        /\ shared = Len(file) + Len(local) + 1 .. Len(lines)
    BY <1>2, <1>3, <1>4, <1>5 DEF LogInv, InRow
  <2>2. Row(file, 0)' /\ Row(local, Len(file) - Double)' /\ Row(batch, Passed)'
    BY <1>1, <1>3, <1>4, <1>5, <2>1 DEF Row
  <2> QED
    BY <1>1, <1>5, <2>1, <2>2 DEF InRow
<1>7. LineTypes'
  BY <1>1, <1>3 DEF LogInv, LineTypes
<1>8. Passing'
  BY <1>1, <1>2 DEF Passing
<1>9. OffsetTypes'
  BY <1>1 DEF LogInv, OffsetTypes, offsets
<1> QED
  BY <1>1, <1>6, <1>7, <1>8, <1>9, LoggersKept DEF LogInv

LEMMA TakeSharedKeeps == LogInv /\ TakeShared => LogInv'
<1> SUFFICES ASSUME LogInv, TakeShared
             PROVE  LogInv'
  OBVIOUS
<1>1. /\ sending = "local" /\ batch = <<>> /\ sending' = "shared" /\ batch' = Numbered(shared)
      /\ shared' = {}
      /\ UNCHANGED <<offsets, writers, lines, local, flag, giving, file>>
  BY DEF TakeShared
<1>2. giving = "nothing"
  BY <1>1 DEF LogInv, Passing
<1>3. /\ Len(file) \in Nat /\ Len(local) \in Nat /\ Len(lines) \in Nat /\ Len(batch) = 0
  BY <1>1, Counts, EmptyRow DEF LogInv
<1>4. Double = 0 /\ Double' = 0
  BY <1>1, <1>2 DEF Double
<1>5. Passed = Len(file) + Len(local) /\ Passed' = Passed
  BY <1>1, <1>3, <1>4 DEF Passed
<1>6. Passed \in Nat /\ Passed <= Len(lines) /\ shared = Passed + 1 .. Len(lines)
  BY <1>3, <1>5 DEF LogInv, InRow
<1>7. batch' \in Seq(Nat) /\ Len(batch') = Len(lines) - Passed /\ Row(batch', Passed)
  BY <1>1, <1>3, <1>6, NumberedInterval
<1>8. InRow'
  <2>1. Row(file, 0)' /\ Row(local, Len(file) - Double)' /\ Row(batch, Passed)'
    BY <1>1, <1>4, <1>5, <1>7 DEF LogInv, InRow, Row
  <2>2. Passed + Len(batch') = Len(lines)
    BY <1>3, <1>6, <1>7
  <2>3. shared' = Len(lines) + 1 .. Len(lines)
    BY <1>1, <1>3
  <2> QED
    BY <1>1, <1>3, <1>5, <2>1, <2>2, <2>3 DEF InRow
<1>9. LineTypes'
  BY <1>1, <1>7 DEF LogInv, LineTypes
<1>10. Passing'
  BY <1>1, <1>2 DEF LogInv, Passing
<1>11. OffsetTypes'
  BY <1>1 DEF LogInv, OffsetTypes, offsets
<1> QED
  BY <1>1, <1>8, <1>9, <1>10, <1>11, LoggersKept DEF LogInv

LEMMA EndSendKeeps == LogInv /\ EndSend => LogInv'
<1> SUFFICES ASSUME LogInv, EndSend
             PROVE  LogInv'
  OBVIOUS
<1>1. /\ batch = <<>> /\ sending' = "idle"
      /\ UNCHANGED <<offsets, writers, lines, shared, local, batch, flag, giving, file>>
  BY DEF EndSend
<1>2. InRow' /\ LineTypes' /\ OffsetTypes'
  BY <1>1 DEF LogInv, InRow, Row, Passed, Double, LineTypes, OffsetTypes, offsets
<1>3. Passing'
  BY <1>1 DEF LogInv, Passing
<1> QED
  BY <1>1, <1>2, <1>3, LoggersKept DEF LogInv

\* The line at the head of the batch follows what has been gone through.
LEMMA AtHead ==
  ASSUME LogInv, batch # <<>>
  PROVE  /\ Head(batch) = Passed + 1 /\ Head(batch) \in Nat
         /\ Tail(batch) \in Seq(Nat) /\ Len(batch) \in Nat \ {0}
         /\ Len(Tail(batch)) = Len(batch) - 1
         /\ Row(Tail(batch), Passed + 1)
         /\ Passed + Len(batch) <= Len(lines)
         /\ Line.len \in Short /\ Line \in Logged
<1>1. batch \in Seq(Nat) /\ Row(batch, Passed) /\ Passed + Len(batch) <= Len(lines)
  BY DEF LogInv, LineTypes, InRow
<1>2. /\ Head(batch) = Passed + 1 /\ Head(batch) \in Nat
      /\ Tail(batch) \in Seq(Nat) /\ Len(batch) \in Nat \ {0}
      /\ Len(Tail(batch)) = Len(batch) - 1
      /\ Row(Tail(batch), Passed + 1)
  BY <1>1, Counts, ShorterRow DEF LogInv
<1>3. Head(batch) \in 1 .. Len(lines)
  <2>1. Passed \in Nat /\ Len(lines) \in Nat
    <3>1. /\ Passed = Len(file) - Double + Len(local) /\ Len(file) \in Nat /\ Len(local) \in Nat
          /\ Len(lines) \in Nat /\ Double \in {0, 1} /\ Passed \in Int
      BY Counts DEF LogInv, Passed
    <3>2. Passed + 1 \in Nat
      BY <1>2
    <3>3. Double = 1 => Len(file) > 0
      BY DEF LogInv, Passing, Double
    <3> QED
      BY <3>1, <3>3
  <2> QED
    BY <1>1, <1>2, <2>1
<1>4. lines[Head(batch)] \in Logged
  BY <1>3, ElementOfSeq DEF LogInv, LineTypes
<1> QED
  BY <1>1, <1>2, <1>4 DEF Line, Logged

LEMMA PutOffKeeps == LogInv /\ PutOff => LogInv'
<1> SUFFICES ASSUME LogInv, PutOff
             PROVE  LogInv'
  OBVIOUS
<1>1. /\ batch # <<>> /\ giving = "nothing"
      /\ local' = Append(local, Head(batch)) /\ flag' = FALSE /\ batch' = Tail(batch)
      /\ UNCHANGED <<offsets, writers, lines, shared, sending, giving, file>>
  BY DEF PutOff, Looks
<1>2. /\ Head(batch) = Passed + 1 /\ Head(batch) \in Nat
      /\ batch' \in Seq(Nat) /\ Len(batch) \in Nat \ {0}
      /\ Len(batch') = Len(batch) - 1
      /\ Row(batch', Passed + 1)
  BY <1>1, AtHead
<1>3. /\ Len(file) \in Nat /\ Len(local) \in Nat /\ Len(lines) \in Nat /\ Double = 0 /\ Double' = 0
      /\ Passed = Len(file) + Len(local)
  BY <1>1, Counts DEF LogInv, Double, Passed
<1>4. local' \in Seq(Nat) /\ Len(local') = Len(local) + 1 /\ Row(local', Len(file))
  <2>1. local \in Seq(Nat) /\ Row(local, Len(file))
    BY <1>3 DEF LogInv, LineTypes, InRow
  <2>2. Head(batch) = Len(file) + Len(local) + 1
    BY <1>2, <1>3
  <2> QED
    BY <1>1, <1>2, <1>3, <2>1, <2>2, LongerRow
<1>5. Passed' = Passed + 1
  BY <1>1, <1>3, <1>4 DEF Passed
<1>6. InRow'
  <2>a. Row(file, 0)'
    BY <1>1 DEF LogInv, InRow, Row
  <2>b. Len(file') - Double' = Len(file)
    BY <1>1, <1>3
  <2>c. Row(local, Len(file) - Double)' /\ Row(batch, Passed)'
    BY <1>2, <1>4, <1>5, <2>b DEF Row
  <2>1. Row(file, 0)' /\ Row(local, Len(file) - Double)' /\ Row(batch, Passed)'
    BY <2>a, <2>c
  <2>2. (Passed + 1) + Len(batch') = Passed + Len(batch)
    BY <1>2, <1>3
  <2>3. Passed + Len(batch) <= Len(lines) /\ shared = Passed + Len(batch) + 1 .. Len(lines)
    BY DEF LogInv, InRow
  <2> QED
    BY <1>1, <1>5, <2>1, <2>2, <2>3 DEF InRow
<1>7. LineTypes'
  BY <1>1, <1>2, <1>4 DEF LogInv, LineTypes
<1>8. Passing'
  <2>1. sending # "idle"
    BY <1>1 DEF LogInv, Passing
  <2> QED
    BY <1>1, <2>1 DEF Passing
<1>9. OffsetTypes'
  BY <1>1 DEF LogInv, OffsetTypes, offsets
<1> QED
  BY <1>1, <1>6, <1>7, <1>8, <1>9, LoggersKept DEF LogInv

LEMMA WriteKeeps == LogInv /\ Write => LogInv'
<1> SUFFICES ASSUME LogInv, Write
             PROVE  LogInv'
  OBVIOUS
<1>1. /\ batch # <<>> /\ giving = "nothing" /\ flag
      /\ file' = Append(file, Head(batch))
      /\ \/ /\ batch' = Tail(batch) /\ UNCHANGED <<readOffset, giving>>
         \/ /\ readOffset' = readOffset + Line.len /\ giving' = "address" /\ batch' = batch
      /\ UNCHANGED <<readAddr, writeOffset, writeAddr, avail, writers, lines, shared,
                     local, sending, flag>>
  BY DEF Write, Looks
<1>2. /\ Head(batch) = Passed + 1 /\ Head(batch) \in Nat
      /\ Tail(batch) \in Seq(Nat) /\ Len(batch) \in Nat \ {0}
      /\ Len(Tail(batch)) = Len(batch) - 1
      /\ Row(Tail(batch), Passed + 1)
      /\ Line.len \in Short
  BY <1>1, AtHead
<1>3. sending # "idle" /\ local = <<>> /\ Len(local) = 0
  BY <1>1, EmptyRow DEF LogInv, Passing
<1>4. /\ Len(file) \in Nat /\ Len(lines) \in Nat /\ Double = 0 /\ Passed = Len(file)
  BY <1>1, <1>3, Counts DEF LogInv, Double, Passed
<1>5. file' \in Seq(Nat) /\ Len(file') = Len(file) + 1 /\ Row(file', 0)
  <2>1. file \in Seq(Nat) /\ Row(file, 0)
    BY DEF LogInv, LineTypes, InRow
  <2>2. Head(batch) = 0 + Len(file) + 1
    BY <1>2, <1>4
  <2> QED
    BY <1>1, <1>2, <2>1, <2>2, LongerRow
<1>6. /\ batch \in Seq(Nat) /\ Row(batch, Passed) /\ Passed + Len(batch) <= Len(lines)
      /\ shared = Passed + Len(batch) + 1 .. Len(lines)
  BY DEF LogInv, LineTypes, InRow
<1>7. Row(local, Len(file) - Double)'
  BY <1>1, <1>3, EmptyRow DEF Row
<1>8. LineTypes'
  <2>1. batch' \in Seq(Nat)
    BY <1>1, <1>2, <1>6
  <2> QED
    BY <1>1, <1>5, <2>1 DEF LogInv, LineTypes
<1>9. CASE batch' = Tail(batch) /\ UNCHANGED <<readOffset, giving>>
  <2>1. Double' = 0 /\ Passed' = Passed + 1
    BY <1>1, <1>3, <1>4, <1>5, <1>9 DEF Double, Passed
  <2>2. InRow'
    <3>1. (Passed + 1) + Len(batch') = Passed + Len(batch)
      BY <1>2, <1>4, <1>9
    <3>2. Row(file, 0)' /\ Row(batch, Passed)'
      BY <1>2, <1>5, <1>9, <2>1 DEF Row
    <3> QED
      BY <1>1, <1>6, <1>7, <2>1, <3>1, <3>2 DEF InRow
  <2>3. Passing'
    BY <1>1, <1>3, <1>9 DEF Passing
  <2>4. OffsetTypes'
    BY <1>1, <1>9 DEF LogInv, OffsetTypes
  <2> QED
    BY <1>1, <1>8, <2>2, <2>3, <2>4, LoggersKept DEF LogInv
<1>10. CASE readOffset' = readOffset + Line.len /\ giving' = "address" /\ batch' = batch
  <2>1. Double' = 1 /\ Passed' = Passed
    BY <1>1, <1>3, <1>4, <1>5, <1>10 DEF Double, Passed
  <2>2. InRow'
    <3>1. Row(file, 0)' /\ Row(batch, Passed)'
      BY <1>5, <1>6, <1>10, <2>1 DEF Row
    <3> QED
      BY <1>1, <1>6, <1>7, <1>10, <2>1, <3>1 DEF InRow
  <2>3. Passing'
    BY <1>1, <1>3, <1>4, <1>5, <1>10 DEF Passing
  <2>4. OffsetTypes'
    <3>1. PICK n \in Nat : n = Line.len /\ L + n < U32Mod
      BY <1>2 DEF Short
    <3>2. readOffset \in Nat /\ R + readOffset < L
      BY <1>1 DEF LogInv, OffsetTypes
    <3>3. readOffset + n \in 0 .. U32Mod - 1
      BY <3>1, <3>2, LogSizes
    <3>4. readOffset' \in 0 .. U32Mod - 1
      BY <1>10, <3>1, <3>3
    <3> QED
      BY <1>1, <1>10, <3>4 DEF LogInv, OffsetTypes
  <2> QED
    BY <1>1, <1>8, <2>2, <2>3, <2>4, LoggersKept DEF LogInv
<1> QED
  BY <1>1, <1>9, <1>10

\* Giving a place back touches the offsets, and in the end the batch.
LEMMA GivingKeeps ==
  LogInv /\ (GiveAddress \/ Judge \/ Rewind \/ Zero \/ Refill) => LogInv'
<1> SUFFICES ASSUME LogInv, GiveAddress \/ Judge \/ Rewind \/ Zero \/ Refill
             PROVE  LogInv'
  OBVIOUS
<1>1. /\ giving # "nothing"
      /\ batch' = IF giving' = "nothing" THEN Tail(batch) ELSE batch
      /\ UNCHANGED <<writeOffset, writeAddr, writers, lines, shared, local, sending, flag, file>>
  BY DEF GiveAddress, Judge, Rewind, Zero, Refill, Gives
<1>2. batch # <<>> /\ flag /\ Len(file) > 0 /\ sending # "idle" /\ local = <<>> /\ Len(local) = 0
  BY <1>1, EmptyRow DEF LogInv, Passing
<1>3. /\ Head(batch) = Passed + 1 /\ Head(batch) \in Nat
      /\ Tail(batch) \in Seq(Nat) /\ Len(batch) \in Nat \ {0}
      /\ Len(Tail(batch)) = Len(batch) - 1
      /\ Row(Tail(batch), Passed + 1)
      /\ Line.len \in Short
  BY <1>2, AtHead
<1>4. /\ Len(file) \in Nat /\ Double = 1 /\ Passed = Len(file) - 1
  BY <1>1, <1>2, Counts DEF LogInv, Double, Passed
<1>5. /\ batch \in Seq(Nat) /\ Row(batch, Passed) /\ Passed + Len(batch) <= Len(lines)
      /\ shared = Passed + Len(batch) + 1 .. Len(lines)
  BY DEF LogInv, LineTypes, InRow
<1>6. Row(local, Len(file) - Double)' /\ Row(file, 0)'
  BY <1>1, <1>2, EmptyRow DEF LogInv, InRow, Row
<1>7. LineTypes'
  BY <1>1, <1>3, <1>5 DEF LogInv, LineTypes
<1>8. Passing'
  BY <1>1, <1>2 DEF Passing
<1>9. InRow'
  <2>1. CASE giving' = "nothing"
    <3>1. Double' = 0 /\ Passed' = Passed + 1 /\ batch' = Tail(batch)
      BY <1>1, <1>2, <1>4, <2>1 DEF Double, Passed
    <3>2. (Passed + 1) + Len(batch') = Passed + Len(batch)
      BY <1>3, <1>4, <3>1
    <3>3. Row(batch, Passed)'
      BY <1>3, <3>1 DEF Row
    <3> QED
      BY <1>1, <1>5, <1>6, <3>1, <3>2, <3>3 DEF InRow
  <2>2. CASE giving' # "nothing"
    <3>1. Double' = 1 /\ Passed' = Passed /\ batch' = batch
      BY <1>1, <1>2, <1>4, <2>2 DEF Double, Passed
    <3>2. Row(batch, Passed)'
      BY <1>5, <3>1 DEF Row
    <3> QED
      BY <1>1, <1>5, <1>6, <3>1, <3>2 DEF InRow
  <2> QED
    BY <2>1, <2>2
<1>10. OffsetTypes'
  <2>1. CASE GiveAddress
    <3>1. PICK n \in Nat : n = Line.len
      BY <1>3 DEF Short
    <3>2. readAddr' = readAddr + n
      BY <2>1, <3>1 DEF GiveAddress
    <3>3. readAddr' \in Nat
      BY <3>2 DEF LogInv, OffsetTypes
    <3>4. UNCHANGED <<readOffset, avail>> /\ giving' = "judge"
      BY <2>1 DEF GiveAddress, Gives
    <3> QED
      BY <1>1, <3>3, <3>4 DEF LogInv, OffsetTypes
  <2>2. CASE Judge
    <3>1. UNCHANGED <<readOffset, readAddr, avail>>
          /\ \/ giving' = "rewind"
             \/ giving' = "nothing" /\ ~(R + readOffset >= L)
      BY <2>2 DEF Judge, Gives
    <3>2. readOffset \in Nat
      BY LogSizes DEF LogInv, OffsetTypes
    <3>3. giving' = "nothing" => R + readOffset < L
      BY <3>1, <3>2, LogSizes
    <3> QED
      BY <1>1, <3>1, <3>3 DEF LogInv, OffsetTypes
  <2>3. CASE Rewind
    BY <1>1, <2>3 DEF LogInv, OffsetTypes, Rewind, Gives
  <2>4. CASE Zero
    <3>1. readOffset' = 0 /\ giving' = "refill" /\ UNCHANGED <<readAddr, avail>>
      BY <2>4 DEF Zero, Gives
    <3>2. 0 \in 0 .. U32Mod - 1 /\ R + 0 < L
      BY LogSizes
    <3> QED
      BY <1>1, <3>1, <3>2 DEF LogInv, OffsetTypes
  <2>5. CASE Refill
    <3>1. /\ avail' = (L - writeOffset) % U32Mod /\ giving = "refill" /\ giving' = "nothing"
          /\ UNCHANGED <<readOffset, readAddr>>
      BY <2>5 DEF Refill, Gives
    <3>2. L - writeOffset \in Int
      BY LogSizes DEF LogInv, OffsetTypes
    <3>3. avail' \in 0 .. U32Mod - 1
      BY <3>1, <3>2, Unsigned
    <3> QED
      BY <1>1, <3>1, <3>3 DEF LogInv, OffsetTypes
  <2> QED
    BY <2>1, <2>2, <2>3, <2>4, <2>5
<1> QED
  BY <1>1, <1>7, <1>8, <1>9, <1>10, LoggersKept DEF LogInv

LEMMA LogInvStarts == LogInit => LogInv
<1> SUFFICES ASSUME LogInit PROVE LogInv
  OBVIOUS
<1>1. Double = 0 /\ Passed = 0 /\ Len(<<>>) = 0
  BY DEF LogInit, Double, Passed
<1>2. OffsetTypes
  BY LogSizes DEF LogInit, OffsetTypes
<1>3. PlaceTypes
  <2>1. Writer \in Loggers
    BY DEF Loggers
  <2> QED
    BY <2>1, LogSizes DEF LogInit, PlaceTypes, Places
<1>4. LineTypes
  <2>1. <<>> \in Seq(Logged) /\ <<>> \in Seq(Nat)
    OBVIOUS
  <2> QED
    BY <1>1, <2>1, LogSizes DEF LogInit, LineTypes
<1>5. InRow
  BY <1>1 DEF LogInit, InRow, Row
<1>6. Passing
  BY DEF LogInit, Passing
<1> QED
  BY <1>2, <1>3, <1>4, <1>5, <1>6 DEF LogInv

LEMMA LogInvStep == LogInv /\ [LogNext]_logVars => LogInv'
<1> SUFFICES ASSUME LogInv, [LogNext]_logVars
             PROVE  LogInv'
  OBVIOUS
<1>0. Writer \in Loggers /\ Others \subseteq Loggers
  BY DEF Loggers
<1>1. CASE \/ Measure \/ MeasureBehind \/ ChooseRing \/ ChooseBlock \/ WrapAvail \/ WrapOffset
           \/ DeductAvail \/ Advance
  BY <1>1, OffsetsKept
<1>2. CASE PublishInRing
  <2>1. writeAddr \in Spots
    BY DEF LogInv, OffsetTypes, Spots
  <2>2. Publishes(Writer, "format in ring", writeAddr)
    BY <1>2, <2>1 DEF PublishInRing, Goes, Publishes
  <2> QED
    BY <1>0, <2>2, Publishing
<1>3. CASE PublishBlock
  <2>1. Publishes(Writer, "format", NoOffset)
    BY <1>3 DEF PublishBlock, Goes, Publishes, Spots
  <2> QED
    BY <1>0, <2>1, Publishing
<1>4. ASSUME NEW t \in Others, Publish(t)
      PROVE  LogInv'
  <2>1. Publishes(t, "format", NoOffset)
    BY <1>4 DEF Publish, Goes, Publishes, Spots
  <2> QED
    BY <1>0, <2>1, Publishing
<1>5. ASSUME NEW t \in Loggers, Format(t)
      PROVE  LogInv'
  <2>1. L + 0 < U32Mod
    BY LogSizes
  <2>2. 0 \in Short
    BY <2>1 DEF Short
  <2>3. Formats(t, "out", 0)
    BY <1>5, <2>2 DEF Format, Goes, Formats
  <2> QED
    BY <2>3, Formatting
<1>6. CASE FormatInRing
  <2>1. PICK n \in Lengths : Complete(Writer, Min2(n, measured - 2))
    BY <1>6 DEF FormatInRing
  <2>2. measured \in Nat /\ measured > R
    <3>1. place[Writer] = "format in ring"
      BY <1>6 DEF FormatInRing, Goes
    <3>2. measured \in 0 .. U32Mod - 1 /\ measured > R
      BY <3>1 DEF LogInv, PlaceTypes
    <3> QED
      BY <3>2, LogSizes
  <2>3. n \in Nat /\ L + n < U32Mod
    BY LogAssumption DEF L
  <2>4. Min2(n, measured - 2) \in Nat /\ L + Min2(n, measured - 2) < U32Mod
    BY <2>2, <2>3, LogSizes DEF Min2
  <2>5. Min2(n, measured - 2) \in Short
    BY <2>4 DEF Short
  <2>6. Formats(Writer, "deduct", Min2(n, measured - 2))
    BY <1>6, <2>1, <2>5 DEF FormatInRing, Goes, Formats
  <2> QED
    BY <1>0, <2>6, Formatting
<1>7. CASE ReaderStep
  BY <1>7, BeginSendKeeps, TakeSharedKeeps, EndSendKeeps, PutOffKeeps, WriteKeeps, GivingKeeps
     DEF ReaderStep
<1>8. CASE UNCHANGED logVars
  <2>1. InRow' /\ LineTypes' /\ OffsetTypes' /\ Passing'
    BY <1>8 DEF LogInv, InRow, Row, Passed, Double, LineTypes, OffsetTypes, Passing, offsets,
       reader, logVars
  <2> QED
    BY <1>8, <2>1, LoggersKept DEF LogInv, logVars
<1> QED
  BY <1>1, <1>2, <1>3, <1>4, <1>5, <1>6, <1>7, <1>8 DEF LogNext, WriterStep

\* Numbers and types, from the parts.
LEMMA LogTypesHold == LogInv => LogTypeOK
<1> SUFFICES ASSUME LogInv PROVE LogTypeOK
  OBVIOUS
<1>1. /\ {readOffset, readAddr, writeOffset, writeAddr} \subseteq Nat
      /\ avail \in 0 .. U32Mod - 1 /\ measured \in 0 .. U32Mod - 1
      /\ mine \in [Loggers -> 0 .. MaxLines] /\ flag \in BOOLEAN
  <2>1. /\ readOffset \in 0 .. U32Mod - 1 /\ readAddr \in Nat
        /\ writeOffset \in Nat /\ writeAddr \in Nat /\ avail \in 0 .. U32Mod - 1
    BY DEF LogInv, OffsetTypes
  <2>2. measured \in 0 .. U32Mod - 1 /\ mine \in [Loggers -> 0 .. MaxLines]
    BY DEF LogInv, PlaceTypes
  <2>3. flag \in BOOLEAN
    BY DEF LogInv, LineTypes
  <2>4. readOffset \in Nat
    BY <2>1, LogSizes
  <2> QED
    BY <2>1, <2>2, <2>3, <2>4
<1>2. ASSUME NEW n \in DOMAIN lines
      PROVE  lines[n].off \in Nat \cup {NoOffset} /\ lines[n].len \in Nat
  <2>1. lines[n] \in Logged
    BY ElementOfSeq, LenProperties DEF LogInv, LineTypes
  <2>2. lines[n].off \in Spots /\ lines[n].len \in Short
    BY <2>1 DEF Logged
  <2> QED
    BY <2>2 DEF Spots, Short
<1>3. /\ DOMAIN lines = 1 .. Len(lines) /\ DOMAIN local = 1 .. Len(local)
      /\ DOMAIN batch = 1 .. Len(batch) /\ DOMAIN file = 1 .. Len(file)
  BY LenProperties DEF LogInv, LineTypes
<1>4. /\ Row(file, 0) /\ Row(local, Len(file) - Double) /\ Row(batch, Passed)
      /\ Passed + Len(batch) <= Len(lines)
      /\ shared = Passed + Len(batch) + 1 .. Len(lines)
  BY DEF LogInv, InRow
<1>5. /\ Len(lines) \in Nat /\ Len(file) \in Nat /\ Len(local) \in Nat /\ Len(batch) \in Nat
      /\ Double \in {0, 1} /\ Passed = Len(file) - Double + Len(local)
      /\ (Double = 1 => Len(file) > 0 /\ Len(local) = 0 /\ Len(batch) > 0)
  <2>1. ASSUME giving # "nothing"
        PROVE  Len(file) > 0 /\ Len(local) = 0 /\ Len(batch) > 0
    <3>1. Len(file) > 0 /\ batch # <<>> /\ local = <<>>
      BY <2>1 DEF LogInv, Passing
    <3> QED
      BY <3>1, EmptyRow, AtHead
  <2> QED
    BY <2>1, Counts DEF LogInv, Double, Passed
<1>6. shared \subseteq DOMAIN lines
  BY <1>3, <1>4, <1>5
<1>7. \A i \in DOMAIN local : local[i] \in DOMAIN lines
  BY <1>3, <1>4, <1>5 DEF Row
<1>8. \A i \in DOMAIN batch : batch[i] \in DOMAIN lines
  BY <1>3, <1>4, <1>5 DEF Row
<1>9. \A i \in DOMAIN file : file[i] \in DOMAIN lines
  BY <1>3, <1>4, <1>5 DEF Row
<1>10. \A q \in {local, batch, file} : \A i \in DOMAIN q : q[i] \in DOMAIN lines
  BY <1>7, <1>8, <1>9
<1> QED
  BY <1>1, <1>2, <1>6, <1>10 DEF LogTypeOK

\* The types of the log: offsets stay unsigned numbers, and what waits in the
\* maps or is in the file has been published.
THEOREM LogTypeCorrect == LogSpec => []LogTypeOK
BY LogInvStarts, LogInvStep, LogTypesHold, PTL DEF LogSpec

\* What is in the file was complete when it was written, and stays so.
FileWhole == \A i \in DOMAIN file : lines[file[i]].done

LEMMA FileWholeStep == LogInv /\ FileWhole /\ [LogNext]_logVars => FileWhole'
<1> SUFFICES ASSUME LogInv, FileWhole, [LogNext]_logVars PROVE FileWhole'
  OBVIOUS
<1>1. \A i \in DOMAIN file : file[i] \in DOMAIN lines
  BY LogTypesHold DEF LogTypeOK
<1>2. lines \in Seq(Logged) /\ file \in Seq(Nat) /\ batch \in Seq(Nat)
  BY DEF LogInv, LineTypes
<1>3. ASSUME file' = file, \A n \in DOMAIN lines : lines[n].done => lines'[n].done
      PROVE  FileWhole'
  BY <1>1, <1>3 DEF FileWhole
<1>4. ASSUME UNCHANGED <<file, lines>> PROVE FileWhole'
  BY <1>3, <1>4
<1>5. ASSUME NEW t, NEW off, Published(t, off) PROVE FileWhole'
  <2>1. /\ file' = file
        /\ lines' = Append(lines, [off |-> off, len |-> 0, done |-> FALSE])
    BY <1>5 DEF Published, reader
  <2>2. \A n \in DOMAIN lines : lines'[n] = lines[n]
    BY <1>2, <2>1
  <2> QED
    BY <1>3, <2>1, <2>2
<1>6. ASSUME NEW t \in Loggers, NEW len, Complete(t, len) PROVE FileWhole'
  <2>1. /\ file' = file
        /\ lines' = [lines EXCEPT ![mine[t]].len = len, ![mine[t]].done = TRUE]
    BY <1>6 DEF Complete, reader
  <2>2. \A n \in DOMAIN lines : lines[n] \in Logged
    BY <1>2
  <2>3. \A n \in DOMAIN lines : lines[n].done => lines'[n].done
    BY <2>1, <2>2 DEF Logged
  <2> QED
    BY <1>3, <2>1, <2>3
<1>7. CASE Write
  <2>1. /\ file' = Append(file, Head(batch)) /\ lines' = lines
        /\ lines[Head(batch)].done /\ batch # <<>>
    BY <1>7 DEF Write, Looks, Line
  <2>2. Head(batch) \in Nat
    BY <1>2, <2>1
  <2>3. ASSUME NEW i \in DOMAIN file' PROVE lines[file'[i]].done
    <3>1. CASE i \in DOMAIN file
      <4>1. file'[i] = file[i]
        BY <1>2, <2>1, <2>2, <3>1
      <4> QED
        BY <3>1, <4>1 DEF FileWhole
    <3>2. CASE i \notin DOMAIN file
      <4>1. file'[i] = Head(batch)
        BY <1>2, <2>1, <2>2, <2>3, <3>2
      <4> QED
        BY <2>1, <4>1
    <3> QED
      BY <3>1, <3>2
  <2> QED
    BY <2>1, <2>3 DEF FileWhole
<1>8. CASE \/ Measure \/ MeasureBehind \/ ChooseRing \/ ChooseBlock \/ WrapAvail \/ WrapOffset
           \/ DeductAvail \/ Advance
  BY <1>4, <1>8 DEF Measure, MeasureBehind, ChooseRing, ChooseBlock, WrapAvail, WrapOffset,
     DeductAvail, Advance, reader
<1>9. CASE \/ PublishInRing \/ PublishBlock \/ \E t \in Others : Publish(t)
  BY <1>5, <1>9 DEF PublishInRing, PublishBlock, Publish
<1>10. CASE FormatInRing \/ \E t \in Loggers : Format(t)
  BY <1>6, <1>10 DEF FormatInRing, Format, Loggers
<1>11. CASE \/ BeginSend \/ TakeShared \/ EndSend \/ PutOff
            \/ GiveAddress \/ Judge \/ Rewind \/ Zero \/ Refill
  BY <1>4, <1>11 DEF BeginSend, TakeShared, EndSend, PutOff, GiveAddress, Judge, Rewind, Zero,
     Refill, Gives
<1>12. CASE UNCHANGED logVars
  BY <1>4, <1>12 DEF logVars, reader
<1> QED
  BY <1>7, <1>8, <1>9, <1>10, <1>11, <1>12 DEF LogNext, WriterStep, ReaderStep

\* The file holds the lines of every thread once each and in the order of
\* their numbers, each complete, whatever the sizes and however slow a thread
\* is; a line that is not in it yet is in one of the maps or in the pass.
THEOREM LinesInOrder == LogSpec => []FileInOrder
<1>1. LogInv /\ FileWhole => FileInOrder
  <2> SUFFICES ASSUME LogInv, FileWhole PROVE FileInOrder
    OBVIOUS
  <2>1. /\ DOMAIN lines = 1 .. Len(lines) /\ DOMAIN local = 1 .. Len(local)
        /\ DOMAIN batch = 1 .. Len(batch) /\ DOMAIN file = 1 .. Len(file)
    BY LenProperties DEF LogInv, LineTypes
  <2>2. /\ Len(lines) \in Nat /\ Len(file) \in Nat /\ Len(local) \in Nat /\ Len(batch) \in Nat
        /\ Double \in {0, 1} /\ Passed = Len(file) - Double + Len(local)
    BY Counts DEF LogInv, Passed
  <2>3. /\ \A i \in 1 .. Len(file) : file[i] = 0 + i
        /\ \A i \in 1 .. Len(local) : local[i] = Len(file) - Double + i
        /\ \A i \in 1 .. Len(batch) : batch[i] = Passed + i
        /\ shared = Passed + Len(batch) + 1 .. Len(lines)
    BY DEF LogInv, InRow, Row
  <2>4. \A i \in DOMAIN file : file[i] = i /\ lines[i].done
    <3>1. \A i \in DOMAIN file : file[i] = i
      BY <2>1, <2>2, <2>3
    <3> QED
      BY <3>1 DEF FileWhole
  <2>5. ASSUME NEW n \in DOMAIN lines, n > Len(file)
        PROVE  \/ n \in shared
               \/ \E i \in DOMAIN local : local[i] = n
               \/ \E i \in DOMAIN batch : batch[i] = n
    <3>1. n \in Nat /\ n <= Len(lines)
      BY <2>1, <2>2
    <3>2. CASE n <= Passed
      <4>1. n - (Len(file) - Double) \in 1 .. Len(local)
        BY <2>2, <2>5, <3>1, <3>2
      <4>2. local[n - (Len(file) - Double)] = n
        BY <2>2, <2>3, <3>1, <4>1
      <4> QED
        BY <2>1, <4>1, <4>2
    <3>3. CASE n > Passed /\ n <= Passed + Len(batch)
      <4>1. n - Passed \in 1 .. Len(batch)
        BY <2>2, <3>1, <3>3
      <4>2. batch[n - Passed] = n
        BY <2>2, <2>3, <3>1, <4>1
      <4> QED
        BY <2>1, <4>1, <4>2
    <3>4. CASE n > Passed + Len(batch)
      BY <2>2, <2>3, <3>1, <3>4
    <3>5. Passed \in Int /\ Passed + Len(batch) \in Int
      BY <2>2
    <3>6. n <= Passed \/ (n > Passed /\ n <= Passed + Len(batch)) \/ n > Passed + Len(batch)
      BY <3>1, <3>5
    <3> QED
      BY <3>2, <3>3, <3>4, <3>6
  <2> QED
    BY <2>4, <2>5 DEF FileInOrder
<1>2. LogInit => FileWhole
  BY DEF LogInit, FileWhole
<1> QED
  BY <1>1, <1>2, LogInvStarts, LogInvStep, FileWholeStep, PTL DEF LogSpec

-----------------------------------------------------------------------------
(* The MQTT subscriber.                                                    *)

(* SubTypeOK is an invariant of the loop and the client. *)
LEMMA SubTypeCorrect == SubSpec => []SubTypeOK
<1>1. SubInit => SubTypeOK
  <2>1. 0 \in 0 .. CONNECT_TIMEOUT_SEC
    BY DEF CONNECT_TIMEOUT_SEC
  <2>2. QED
    BY <2>1, Zenon DEF SubInit, SubTypeOK
<1>2. SubTypeOK /\ [SubNext]_subscriberVars => SubTypeOK'
  <2> SUFFICES ASSUME SubTypeOK, [SubNext]_subscriberVars
               PROVE  SubTypeOK'
    OBVIOUS
  <2> USE DEF SubTypeOK
  <2>1. CASE Check \/ Sleep \/ Subscribed
    BY <2>1 DEF Check, Sleep, Subscribed
  <2>2. CASE Connect
    BY <2>2 DEF Connect, Connected, NotConnected, CONNECT_TIMEOUT_SEC
  <2>3. CASE WaitReturns
    BY <2>3 DEF WaitReturns, Connected, NotConnected
  <2>4. ASSUME NEW t \in Topics, Subscribe(t)
        PROVE  SubTypeOK'
    BY <2>4 DEF Subscribe
  <2>5. CASE Connack \/ AttemptFails \/ ConnectionLost \/ BrokerChanges
    BY <2>5 DEF Connack, AttemptFails, ConnectionLost, BrokerChanges
  <2>6. CASE Tick
    BY <2>6 DEF Tick, CONNECT_TIMEOUT_SEC
  <2>7. CASE UNCHANGED subscriberVars
    BY <2>7 DEF subscriberVars
  <2>8. QED
    BY <2>1, <2>2, <2>3, <2>4, <2>5, <2>6, <2>7 DEF SubNext, MainLoop, Client
<1>3. QED
  BY <1>1, <1>2, PTL DEF SubSpec

(* What ties the loop to the client: an attempt is pending only while the  *)
(* loop waits for it, because the wait outlasts the attempt, and the topics*)
(* of a connection are the ones the loop has already asked for.            *)
LoopInv ==
  /\ link = "pending" => pc = "wait"
  /\ pc = "connect" => link = "down"
  /\ pc = "wait" /\ link = "up" => session = {}
  /\ pc = "subscribe" /\ link = "up" => session = Topics \ todo
  /\ ConnectedIsSubscribed

(* Every step of the loop, of paho and of the broker preserves LoopInv.    *)
LEMMA LoopInvStep ==
  ASSUME MayRefuse = FALSE, SubTypeOK, LoopInv, [SubNext]_subscriberVars
  PROVE  LoopInv'
<1> USE DEF SubTypeOK, LoopInv, ConnectedIsSubscribed
<1>1. CASE Check \/ Sleep \/ Subscribed
  BY <1>1 DEF Check, Sleep, Subscribed
<1>2. CASE Connect
  BY <1>2 DEF Connect, Connected, NotConnected
<1>3. CASE WaitReturns
  BY <1>3 DEF WaitReturns, Connected, NotConnected, ConnectWait, CONNECT_TIMEOUT_SEC
<1>4. ASSUME NEW t \in Topics, Subscribe(t)
      PROVE  LoopInv'
  BY <1>4 DEF Subscribe
<1>5. CASE Connack \/ AttemptFails \/ ConnectionLost \/ BrokerChanges
  BY <1>5 DEF Connack, AttemptFails, ConnectionLost, BrokerChanges
<1>6. CASE Tick
  BY <1>6 DEF Tick
<1>7. CASE UNCHANGED subscriberVars
  BY <1>7 DEF subscriberVars
<1>8. QED
  BY <1>1, <1>2, <1>3, <1>4, <1>5, <1>6, <1>7 DEF SubNext, MainLoop, Client

(* mqttsub_entry and MqttClient::connect: provided that no subscription is *)
(* refused, the loop never sleeps on a connection without its topics.      *)
THEOREM SubscribedWhileConnected ==
  ASSUME MayRefuse = FALSE
  PROVE  SubSpec => []ConnectedIsSubscribed
<1>1. SubInit => LoopInv
  BY DEF SubInit, LoopInv, ConnectedIsSubscribed
<1>2. SubTypeOK /\ LoopInv /\ [SubNext]_subscriberVars => LoopInv'
  BY LoopInvStep
<1>3. LoopInv => ConnectedIsSubscribed
  BY DEF LoopInv
<1>4. QED
  BY <1>1, <1>2, <1>3, SubTypeCorrect, PTL DEF SubSpec

-----------------------------------------------------------------------------
(* The two MQTT clients.                                                   *)

\* The steps of the publisher are not seen by the subscriber, and those of the
\* subscriber and of the broker leave the publisher as it is.
LEMMA ClientSteps ==
  ASSUME [ClientsNext]_allVars
  PROVE  /\ [SubNext]_subscriberVars
         /\ Publisher \/ UNCHANGED pubVars
<1>1. CASE Subscriber
  BY <1>1 DEF Subscriber, SubNext
<1>2. CASE Publisher
  <2>1. UNCHANGED broker
    BY <1>2 DEF Publisher, Pub!Entry, Pub!Publish, Pub!Drop, Pub!Reconnect, Pub!ReconnectSucceeds,
       Pub!ReconnectFails, Pub!Tick, Pub!ConnectionLost, Pub!vars
  <2>2. UNCHANGED subscriberVars
    BY <1>2, <2>1 DEF Publisher, subVars, subscriberVars
  <2> QED
    BY <1>2, <2>2
<1>3. CASE Broker
  BY <1>3 DEF Broker, SubNext
<1>4. CASE UNCHANGED allVars
  BY <1>4 DEF allVars
<1> QED
  BY <1>1, <1>2, <1>3, <1>4 DEF ClientsNext

\* What a step of the publisher does, and what the broker may do meanwhile,
\* keeps its types and the age of the last attempt.
LEMMA PublisherTypes ==
  Pub!TypeOK /\ SubTypeOK' /\ (Publisher \/ UNCHANGED pubVars) => Pub!TypeOK'
<1> SUFFICES ASSUME Pub!TypeOK, broker' \in BOOLEAN, Publisher \/ UNCHANGED pubVars
             PROVE  Pub!TypeOK'
  BY DEF SubTypeOK
<1> USE DEF Pub!TypeOK, Pub!PUB_RECONNECT_INTERVAL, Pub!CONNECT_TIMEOUT_SEC
<1>1. CASE Pub!Publish \/ Pub!Drop
  BY <1>1 DEF Pub!Publish, Pub!Drop, Pub!vars
<1>2. CASE Pub!Reconnect
  BY <1>2 DEF Pub!Reconnect
<1>3. CASE Pub!ReconnectSucceeds \/ Pub!ReconnectFails
  BY <1>3 DEF Pub!ReconnectSucceeds, Pub!ReconnectFails
<1>4. CASE Pub!Tick
  BY <1>4 DEF Pub!Tick, Pub!Older
<1>5. CASE Pub!ConnectionLost
  BY <1>5 DEF Pub!ConnectionLost
<1>6. CASE UNCHANGED pubVars
  BY <1>6 DEF pubVars
<1> QED
  BY <1>1, <1>2, <1>3, <1>4, <1>5, <1>6 DEF Publisher, Pub!Entry

\* ClientsSpec without its fairness.
ClientsSafety == ClientsInit /\ [][ClientsNext]_allVars

\* The subscriber beside the publisher is the subscriber.
LEMMA SubscriberAlone == ClientsSafety => SubSpec
<1>1. ClientsInit => SubInit
  BY DEF ClientsInit
<1>2. [ClientsNext]_allVars => [SubNext]_subscriberVars
  BY ClientSteps
<1> QED
  BY <1>1, <1>2, PTL DEF ClientsSafety, SubSpec

\* Types of both clients; publish connects only without a connection, and
\* dates the attempt at its start.
LEMMA ClientTypes == ClientsSafety => []ClientsTypeOK
<1>1. ClientsInit => Pub!TypeOK
  <2> SUFFICES ASSUME Pub!Init
               PROVE  Pub!TypeOK
    BY DEF ClientsInit
  <2>1. broker \in BOOLEAN /\ pubLink \in BOOLEAN
    BY Zenon DEF Pub!Init
  <2>2. pubAge \in 0 .. Pub!PUB_RECONNECT_INTERVAL /\ pubTrying \in 0 .. Pub!CONNECT_TIMEOUT_SEC
    BY DEF Pub!Init, Pub!PUB_RECONNECT_INTERVAL, Pub!CONNECT_TIMEOUT_SEC
  <2> QED
    BY <2>1, <2>2 DEF Pub!Init, Pub!TypeOK
<1>2. [ClientsNext]_allVars => Publisher \/ UNCHANGED pubVars
  BY ClientSteps
<1>3. ClientsTypeOK <=> SubTypeOK /\ Pub!TypeOK
  BY DEF ClientsTypeOK
<1> QED
  BY <1>1, <1>2, <1>3, PublisherTypes, SubscriberAlone, SubTypeCorrect, PTL DEF ClientsSafety

-----------------------------------------------------------------------------
(* The composition.                                                        *)

\* Each part of MCPlatform runs by its own specification: the pick of one part
\* for a behaviour takes steps away and adds none.
THEOREM PartsKeepTheirSpecs ==
  PlatformSpec => Spec /\ WheelSpec /\ MonitorSpec /\ LogSpec /\ ClientsSafety
<1>1. PlatformInit => Init /\ WheelInit /\ MonitorInit /\ LogInit /\ ClientsInit
  BY DEF PlatformInit
<1>2. [PlatformNext]_platformVars =>
        /\ [Next]_vars /\ [WheelNext]_wheelVars /\ [MonitorNext]_monitorVars
        /\ [LogNext]_logVars /\ [ClientsNext]_allVars
  BY DEF PlatformNext, InMailbox, InTimers, InMonitor, InLog, InClients, platformVars,
     mv, wv, tv, lv, cv
<1> QED
  BY <1>1, <1>2, PTL DEF PlatformSpec, Spec, WheelSpec, MonitorSpec, LogSpec, ClientsSafety

\* Types of all parts, and the lists every timer unit is in, in the composition.
THEOREM PlatformTypeCorrect == PlatformSpec => []PlatformTypeOK
<1>1. PlatformTypeOK <=> /\ TypeOK /\ WheelTypeOK /\ ListsAgree
                         /\ MonitorTypeOK /\ LogTypeOK /\ ClientsTypeOK
  BY DEF PlatformTypeOK
<1>2. MonitorInvariant => MonitorTypeOK
  BY DEF MonitorInvariant
<1> QED
  BY <1>1, <1>2, PartsKeepTheirSpecs, TypeCorrect, WheelTypeCorrect, NoUnitLost, MonitorsInvariant,
     LogTypeCorrect, ClientTypes, PTL
=============================================================================
