--------------------------- MODULE ThreadMonitor ----------------------------
(***************************************************************************)
(* The thread monitor (platform/linux/pf_thread_mon.cpp): msg_entry counts *)
(* a module thread into and out of every handler, so that an odd count     *)
(* means "in a handler"; the timer task compares the counts with those of  *)
(* its previous check and ends the process when a handler has not moved.   *)
(*                                                                         *)
(* Nothing is locked: the check reads and copies the counts one at a time  *)
(* while the threads go on.  A check may begin at any moment (slTime reads *)
(* of the timerfd after the last one, 80 s by default).                    *)
(***************************************************************************)
EXTENDS Naturals, FiniteSets

CONSTANTS
  Mids,         \* module threads
  Unmonitored,  \* MODULE_FTP and MODULE_DAILYREC (pf_thread_mon_init)
  CountMod,     \* counts are U32: 2^32
  NoMid

\* CountMod is even: the wrap keeps the parity.
ASSUME MonitorAssumption ==
  /\ Unmonitored \subseteq Mids
  /\ CountMod \in Nat \ {0} /\ CountMod % 2 = 0
  /\ NoMid \notin Mids

VARIABLES
  ulCurMsgCnt, ulLastMsgCnt,
  thread,          \* each thread: "waiting", "handling" or "hung"
  check,           \* where the timer task is in pf_thread_mon_check
  midsLeft,            \* mids its present loop has not reached
  odd,             \* the mid whose count it has just found odd
  abnormal,        \* ~gulThreadMonSuccFlag
  msgQArray,       \* mids whose mailbox pointer is set
  bootupFile,      \* the reboot reason is in PF_BOOTUP_FILE_PATH
  reason,          \* where its log line is: see LogReason and the passes
  openLines,       \* threads inside pf_log, their line published but incomplete
  ahead,           \* those of them whose line comes before the reason's
  logPass,         \* the log module is inside pf_log_send
  process,         \* "running", "exited" or "crashed"
  moved            \* history: counts of each thread since the last copy of its count

counts == <<ulCurMsgCnt, ulLastMsgCnt>>
scan   == <<check, midsLeft, odd, abnormal>>
log    == <<reason, openLines, ahead, logPass>>
ends   == <<bootupFile, log>>
monitorVars == <<counts, thread, scan, msgQArray, ends, process, moved>>

Monitored == Mids \ Unmonitored

MonitorInit ==
  /\ ulCurMsgCnt = [m \in Mids |-> 0]
  /\ ulLastMsgCnt = [m \in Mids |-> 0]
  /\ thread = [m \in Mids |-> "waiting"]
  /\ check = "idle" /\ midsLeft = {} /\ odd = NoMid
  /\ abnormal = FALSE
  /\ msgQArray = Mids
  /\ bootupFile = FALSE
  /\ reason = "none" /\ openLines = {} /\ ahead = {} /\ logPass = FALSE
  /\ process = "running"
  /\ moved = [m \in Mids |-> 0]

-----------------------------------------------------------------------------
(* Module threads                                                          *)

\* pf_thread_mon_update, pf_thread_mon_update_count.  2^32 counts between two
\* checks are out of reach: the bound of the model.
Count(m) ==
  /\ moved[m] < CountMod - 1
  /\ ulCurMsgCnt' = [ulCurMsgCnt EXCEPT ![m] = (@ + 1) % CountMod]
  /\ moved' = [moved EXCEPT ![m] = @ + 1]
  /\ UNCHANGED ulLastMsgCnt

\* A message has arrived; its handler is looked up in moduleArray, which is
\* cleared together with msgQArray: a call through a null pointer.
BeginHandler(m) ==
  /\ process = "running"
  /\ thread[m] = "waiting"
  /\ thread' = [thread EXCEPT ![m] = "handling"]
  /\ Count(m)
  /\ process' = IF m \in msgQArray THEN process ELSE "crashed"
  /\ UNCHANGED <<scan, msgQArray, ends>>

\* The handler returns, and pf_get_message takes the mailbox from msgQArray.
EndHandler(m) ==
  /\ process = "running"
  /\ thread[m] = "handling" /\ m \notin openLines
  /\ thread' = [thread EXCEPT ![m] = "waiting"]
  /\ Count(m)
  /\ process' = IF m \in msgQArray THEN process ELSE "crashed"
  /\ UNCHANGED <<scan, msgQArray, ends>>

\* pf_log publishes a line's number and address before it formats the line, and
\* marks it complete when it has; pool threads log in the same way.  Lines
\* published after the reason's come behind it, and are left out.
BeginLine(m) ==
  /\ process = "running" /\ reason = "none"
  /\ thread[m] = "handling" /\ m \notin openLines
  /\ openLines' = openLines \cup {m}
  /\ UNCHANGED <<counts, thread, scan, msgQArray, bootupFile, reason, ahead, logPass, process, moved>>

EndLine(m) ==
  /\ process = "running"
  /\ thread[m] = "handling" /\ m \in openLines
  /\ openLines' = openLines \ {m}
  /\ ahead' = ahead \ {m}
  /\ UNCHANGED <<counts, thread, scan, msgQArray, bootupFile, reason, logPass, process, moved>>

\* A handler that will never return: a deadlock, an endless loop.
Hang(m) ==
  /\ process = "running"
  /\ thread[m] = "handling"
  /\ thread' = [thread EXCEPT ![m] = "hung"]
  /\ UNCHANGED <<counts, scan, msgQArray, ends, process, moved>>

-----------------------------------------------------------------------------
(* pf_thread_mon_check, in the timer task                                  *)

monitorOnly == <<thread, msgQArray, ends, process>>

BeginCheck ==
  /\ process = "running"
  /\ check = "idle"
  /\ check' = "compare"
  /\ midsLeft' = Monitored
  /\ UNCHANGED <<counts, odd, abnormal, monitorOnly, moved>>

\* Mutant: the parity is not looked at.
BusyAlways(m) == TRUE

\* "(ulCurMsgCnt & 1) == 0" is an idle thread.
Busy(m) == ulCurMsgCnt[m] % 2 = 1

LookAtParity(m) ==
  /\ process = "running"
  /\ check = "compare" /\ odd = NoMid
  /\ m \in midsLeft
  /\ odd' = IF Busy(m) THEN m ELSE NoMid
  /\ midsLeft' = midsLeft \ {m}
  /\ UNCHANGED <<counts, check, abnormal, monitorOnly, moved>>

\* The second read: "thread deadlock detected!" if nothing was counted.
Compare ==
  /\ process = "running"
  /\ odd # NoMid
  /\ abnormal' = (abnormal \/ ulLastMsgCnt[odd] = ulCurMsgCnt[odd])
  /\ odd' = NoMid
  /\ UNCHANGED <<counts, check, midsLeft, monitorOnly, moved>>

EndCompare ==
  /\ process = "running"
  /\ check = "compare" /\ midsLeft = {} /\ odd = NoMid
  /\ check' = IF abnormal THEN "report" ELSE "copy"
  /\ midsLeft' = Mids
  /\ UNCHANGED <<counts, odd, abnormal, monitorOnly, moved>>

\* Mutant: only the counts of threads in a handler are copied.
CopyBusy(m) ==
  /\ process = "running"
  /\ check = "copy"
  /\ m \in midsLeft
  /\ ulLastMsgCnt' = IF thread[m] = "waiting" THEN [ulLastMsgCnt EXCEPT ![m] = ulCurMsgCnt[m]]
                     ELSE ulLastMsgCnt
  /\ moved' = [moved EXCEPT ![m] = 0]
  /\ midsLeft' = midsLeft \ {m}
  /\ UNCHANGED <<ulCurMsgCnt, check, odd, abnormal, monitorOnly>>

Copy(m) ==
  /\ process = "running"
  /\ check = "copy"
  /\ m \in midsLeft
  /\ ulLastMsgCnt' = [ulLastMsgCnt EXCEPT ![m] = ulCurMsgCnt[m]]
  /\ moved' = [moved EXCEPT ![m] = 0]
  /\ midsLeft' = midsLeft \ {m}
  /\ UNCHANGED <<ulCurMsgCnt, check, odd, abnormal, monitorOnly>>

EndCopy ==
  /\ process = "running"
  /\ check = "copy" /\ midsLeft = {}
  /\ check' = "idle"
  /\ UNCHANGED <<counts, midsLeft, odd, abnormal, monitorOnly, moved>>

\* The dumps, then BOOTUP_FLAG_THREAD_MONITOR goes to PF_BOOTUP_FILE_PATH.
WriteBootupFlag ==
  /\ process = "running"
  /\ check = "report"
  /\ check' = "log"
  /\ bootupFile' = TRUE
  /\ UNCHANGED <<counts, thread, midsLeft, odd, abnormal, msgQArray, log, process, moved>>

\* pl_log("BOOTUP_FLAG_THREAD_MONITOR"): a complete line in memory, behind the
\* ones that were published before it.
LogReason ==
  /\ process = "running"
  /\ check = "log"
  /\ check' = "flush"
  /\ reason' = "memory"
  /\ ahead' = openLines
  /\ UNCHANGED <<counts, thread, midsLeft, odd, abnormal, msgQArray, bootupFile, openLines, logPass,
                 process, moved>>

\* Mutant: the mailboxes are cleared before the log is written.
FlushLate ==
  /\ process = "running"
  /\ check = "flush"
  /\ check' = "clear"
  /\ UNCHANGED <<counts, thread, midsLeft, odd, abnormal, msgQArray, ends, process, moved>>

\* pf_log_write_file: pf_log_send on this thread.  The log module may be inside
\* its own pf_log_send; the two share their map without a lock ("raced").
BeginFlush ==
  /\ process = "running"
  /\ check = "flush"
  /\ check' = "flushing"
  /\ reason' = IF logPass /\ reason # "file" THEN "raced" ELSE reason
  /\ UNCHANGED <<counts, thread, midsLeft, odd, abnormal, msgQArray, bootupFile, openLines, ahead,
                 logPass, process, moved>>

\* traversal_log_info: every line behind an incomplete one is put off to the
\* local map, for a later pass; the others are written.
LineGoesTo == IF ahead = {} THEN "file" ELSE "putOff"

EndFlush ==
  /\ process = "running"
  /\ check = "flushing"
  /\ check' = "clear"
  /\ reason' = IF reason \in {"memory", "putOff"} THEN LineGoesTo ELSE reason
  /\ UNCHANGED <<counts, thread, midsLeft, odd, abnormal, msgQArray, bootupFile, openLines, ahead,
                 logPass, process, moved>>

\* pf_log_send in the log module, upon its timer: takes what is in both maps.
\* Until an alarm only its being under way matters, so it may begin then.
BeginPass ==
  /\ process = "running" /\ abnormal
  /\ ~logPass
  /\ logPass' = TRUE
  /\ reason' = IF check = "flushing" /\ reason # "file" THEN "raced"
               ELSE IF reason \in {"memory", "putOff"} THEN "taken" ELSE reason
  /\ UNCHANGED <<counts, thread, scan, msgQArray, bootupFile, openLines, ahead, process, moved>>

\* ... and writes it or puts it off.
EndPass ==
  /\ process = "running"
  /\ logPass
  /\ logPass' = FALSE
  /\ reason' = IF reason = "taken" THEN LineGoesTo ELSE reason
  /\ UNCHANGED <<counts, thread, scan, msgQArray, bootupFile, openLines, ahead, process, moved>>

\* Two threads copy, clear and fill one std::map.
PassesMeet ==
  /\ process = "running"
  /\ check = "flushing" /\ logPass
  /\ process' = "crashed"
  /\ UNCHANGED <<counts, thread, scan, msgQArray, ends, moved>>

\* msgQArray[i] = NULL, moduleArray[i] = NULL, under the running threads.
ClearMailbox(m) ==
  /\ process = "running"
  /\ check = "clear"
  /\ m \in midsLeft
  /\ midsLeft' = midsLeft \ {m}
  /\ msgQArray' = msgQArray \ {m}
  /\ UNCHANGED <<counts, thread, check, odd, abnormal, ends, process, moved>>

\* _exit(0), or the coredump dr_ulimit_config asks for.
Exit ==
  /\ process = "running"
  /\ check = "clear" /\ midsLeft = {}
  /\ process' \in {"exited", "crashed"}
  /\ UNCHANGED <<counts, thread, scan, msgQArray, ends, moved>>

-----------------------------------------------------------------------------
pf_thread_mon_check ==
  \/ BeginCheck
  \/ \E m \in Mids : LookAtParity(m) \/ Copy(m) \/ ClearMailbox(m)
  \/ Compare \/ EndCompare \/ EndCopy
  \/ WriteBootupFlag \/ LogReason \/ BeginFlush \/ EndFlush \/ Exit

ModuleThread(m) == BeginHandler(m) \/ EndHandler(m) \/ Hang(m) \/ BeginLine(m) \/ EndLine(m)

LogModule == BeginPass \/ EndPass \/ PassesMeet

MonitorNext == pf_thread_mon_check \/ LogModule \/ \E m \in Mids : ModuleThread(m)

MonitorSpec == MonitorInit /\ [][MonitorNext]_monitorVars

\* The timer task runs, whatever the module threads do.
MonitorFairness == WF_monitorVars(pf_thread_mon_check)

-----------------------------------------------------------------------------
(* Type invariant.                                                         *)
MonitorTypeOK ==
  /\ ulCurMsgCnt \in [Mids -> 0..CountMod-1]
  /\ ulLastMsgCnt \in [Mids -> 0..CountMod-1]
  /\ thread \in [Mids -> {"waiting", "handling", "hung"}]
  /\ check \in {"idle", "compare", "copy", "report", "log", "flush", "flushing", "clear"}
  /\ midsLeft \subseteq Mids
  /\ odd \in Mids \cup {NoMid}
  /\ abnormal \in BOOLEAN
  /\ msgQArray \subseteq Mids
  /\ bootupFile \in BOOLEAN
  /\ reason \in {"none", "memory", "taken", "raced", "putOff", "file"}
  /\ ahead \subseteq openLines /\ openLines \subseteq Mids /\ logPass \in BOOLEAN
  /\ process \in {"running", "exited", "crashed"}
  /\ moved \in [Mids -> 0..CountMod-1]

\* No false alarm, although the two loops of the check read a moving count
\* three times: the process is condemned only for a monitored thread that has
\* been inside one and the same handler ever since the previous check.
AlarmIsReal ==
  [][abnormal' /\ ~abnormal =>
       odd \in Monitored /\ thread[odd] # "waiting" /\ moved[odd] = 0]_monitorVars

\* No missed alarm: a monitored thread that hangs takes the process down.
HangEndsProcess == \A m \in Monitored : thread[m] = "hung" ~> process # "running"

\* However the process ends, by _exit, by a thread that trips over a cleared
\* mailbox first or by two passes that meet, the reason is in the boot file, and
\* its log line has not been left to nobody: it is in the log, or a pass has put
\* it off behind a thread's incomplete line or has it in hand (then the line is
\* lost, and the boot file is the only record).
EndIsRecorded ==
  process # "running" => bootupFile /\ reason \in {"file", "putOff", "taken", "raced"}
=============================================================================
