------------------------------ MODULE LogRing -------------------------------
(***************************************************************************)
(* How a log line gets to the file (platform/linux/pf_log.cpp and          *)
(* pf_thread_mon.cpp).  pf_log gives the line a place - in the ring that   *)
(* every module thread has, or in a block of its own -, publishes it under *)
(* a sequence number in g_stLogMapInfo, formats it in place and marks it   *)
(* complete.  Every 100 ms the log module takes the published lines in     *)
(* order (pf_log_send), puts off the first incomplete one and all that     *)
(* follow, and gives the places of the others back.                        *)
(*                                                                         *)
(* Only g_stLogMapInfo has a mutex.  The ring's offsets are read and       *)
(* written by its thread and by the log module with no lock at all: the    *)
(* tests and updates of them are steps of their own, in program order,     *)
(* except that an update reads its operands in the same step and that a    *)
(* pair of updates no test of the other side separates is one step.        *)
(* pucLogReadAddr and pucLogWriteAddr are the offsets seen from            *)
(* pucLogStartAddr.                                                        *)
(***************************************************************************)
EXTENDS Integers, Sequences, FiniteSets

CONSTANTS
  Writer,    \* the module thread or task whose ring this is
  Others,    \* threads without one: those of the pools, the stick thread
  LOG_STACK_MAX_SIZE, REMAINING_SPACE_SIZE,
  Lengths,   \* of log lines, before they are cut to their place
  U32Mod,    \* 2^32
  MaxLines   \* bound: lines ever published

\* Sizes, and lengths that leave the unsigned arithmetic its meaning.
ASSUME LogAssumption ==
  /\ LOG_STACK_MAX_SIZE \in Nat /\ REMAINING_SPACE_SIZE \in Nat
  /\ 2 < REMAINING_SPACE_SIZE /\ REMAINING_SPACE_SIZE < LOG_STACK_MAX_SIZE
  /\ Lengths \subseteq Nat \ {0}
  /\ U32Mod \in Nat /\ LOG_STACK_MAX_SIZE < U32Mod
  /\ \A n \in Lengths : LOG_STACK_MAX_SIZE + n < U32Mod
  /\ MaxLines \in Nat
  /\ Writer \notin Others

VARIABLES
  readOffset, readAddr, writeOffset, writeAddr, avail,  \* the ring of Writer
  place,     \* where each thread is in pf_log
  mine,      \* the line each thread is writing
  measured,  \* ulAvaiMaxOffset, Writer's own copy of avail
  lines,     \* every line ever published: its offset (-1: a block of its own),
             \* its length, whether it is complete
  shared,    \* g_stLogMapInfo: lines published since the last pass
  local,     \* g_stLocalLogMapInfo: lines put off by the last pass
  sending,   \* where the log module is in pf_log_send
  batch,     \* lines it has still to go through
  giving,    \* where it is in pf_thread_mon_update_read_section
  flag,      \* no incomplete line was met in this pass
  file       \* lines in the log file

offsets == <<readOffset, readAddr, writeOffset, writeAddr, avail>>
writers == <<place, mine, measured>>
reader  == <<local, sending, batch, giving, flag, file>>
logVars == <<offsets, writers, lines, shared, reader>>

L == LOG_STACK_MAX_SIZE
R == REMAINING_SPACE_SIZE
Loggers == {Writer} \cup Others
NoOffset == -1

Min2(a, b) == IF a < b THEN a ELSE b

LogInit ==
  /\ readOffset = 0 /\ readAddr = 0
  /\ writeOffset = 0 /\ writeAddr = 0
  /\ avail = L
  /\ place = [t \in Loggers |-> "out"]
  /\ mine = [t \in Loggers |-> 0]
  /\ measured = 0
  /\ lines = << >>
  /\ shared = {}
  /\ local = << >>
  /\ sending = "idle"
  /\ batch = << >>
  /\ giving = "nothing"
  /\ flag = TRUE
  /\ file = << >>

-----------------------------------------------------------------------------
(* pf_log in Writer                                                        *)

Goes(t, from, to) == place[t] = from /\ place' = [place EXCEPT ![t] = to]

\* pf_thread_mon_get_log_info: is the reader ahead, in the lap before?
Measure ==
  /\ Goes(Writer, "out", IF readAddr > writeAddr THEN "behind" ELSE "choose")
  /\ UNCHANGED <<offsets, mine, measured, lines, shared, reader>>

\* Then what is left lies between the two, in unsigned arithmetic.
MeasureBehind ==
  /\ Goes(Writer, "behind", "choose")
  /\ avail' = (readOffset - writeOffset - 2) % U32Mod
  /\ UNCHANGED <<readOffset, readAddr, writeOffset, writeAddr, mine, measured,
                 lines, shared, reader>>

\* Room for a line: it goes to the ring.
ChooseRing ==
  /\ Goes(Writer, "choose", "ring")
  /\ avail > R
  /\ measured' = avail
  /\ UNCHANGED <<offsets, mine, lines, shared, reader>>

\* None: the line gets a block of its own, and at the end of the ring writing
\* returns to its start if the reader has left room there.
ChooseBlock ==
  /\ avail <= R
  /\ Goes(Writer, "choose",
          IF writeOffset + R >= L /\ readOffset > R THEN "wrap" ELSE "block")
  /\ UNCHANGED <<offsets, mine, measured, lines, shared, reader>>

WrapAvail ==
  /\ Goes(Writer, "wrap", "wrapped")
  /\ writeAddr' = 0
  /\ avail' = readOffset
  /\ UNCHANGED <<readOffset, readAddr, writeOffset, mine, measured, lines, shared, reader>>

WrapOffset ==
  /\ Goes(Writer, "wrapped", "block")
  /\ writeOffset' = 0
  /\ UNCHANGED <<readOffset, readAddr, writeAddr, avail, mine, measured, lines, shared, reader>>

\* ulSeqNum++ and push_back under g_stLogMutex.
Published(t, off) ==
  /\ Len(lines) < MaxLines
  /\ lines' = Append(lines, [off |-> off, len |-> 0, done |-> FALSE])
  /\ mine' = [mine EXCEPT ![t] = Len(lines')]
  /\ shared' = shared \cup {Len(lines')}
  /\ UNCHANGED <<offsets, measured, reader>>

PublishInRing == Goes(Writer, "ring", "format in ring") /\ Published(Writer, writeAddr)
PublishBlock  == Goes(Writer, "block", "format") /\ Published(Writer, NoOffset)

Complete(t, len) ==
  /\ lines' = [lines EXCEPT ![mine[t]].len = len, ![mine[t]].done = TRUE]
  /\ UNCHANGED <<offsets, mine, measured, shared, reader>>

\* vsnprintf cuts the line to its place; "mark that a log has been written".
FormatInRing ==
  /\ Goes(Writer, "format in ring", "deduct")
  /\ \E n \in Lengths : Complete(Writer, Min2(n, measured - 2))

\* pf_thread_mon_update_write_section
DeductAvail ==
  /\ Goes(Writer, "deduct", "advance")
  /\ avail' = (avail - lines[mine[Writer]].len) % U32Mod
  /\ UNCHANGED <<readOffset, readAddr, writeOffset, writeAddr, mine, measured,
                 lines, shared, reader>>

Advance ==
  /\ Goes(Writer, "advance", "out")
  /\ writeOffset' = writeOffset + lines[mine[Writer]].len
  /\ writeAddr' = writeAddr + lines[mine[Writer]].len
  /\ UNCHANGED <<readOffset, readAddr, avail, mine, measured, lines, shared, reader>>

-----------------------------------------------------------------------------
(* pf_log in a thread without a ring, and the end of it for blocks         *)

Publish(t) ==
  /\ Goes(t, "out", "format")
  /\ Published(t, NoOffset)

Format(t) == Goes(t, "format", "out") /\ Complete(t, 0)

-----------------------------------------------------------------------------
(* pf_log_send in the log module                                           *)

Numbered(S) ==
  [i \in 1..Cardinality(S) |-> CHOOSE n \in S : Cardinality({k \in S : k <= n}) = i]

\* The lines put off come first.
BeginSend ==
  /\ sending = "idle"
  /\ local # << >> \/ shared # {}
  /\ sending' = "local"
  /\ batch' = local
  /\ local' = << >>
  /\ flag' = TRUE
  /\ UNCHANGED <<offsets, writers, lines, shared, giving, file>>

\* Then the map is emptied under the mutex.
TakeShared ==
  /\ sending = "local" /\ batch = << >>
  /\ sending' = "shared"
  /\ batch' = Numbered(shared)
  /\ shared' = {}
  /\ UNCHANGED <<offsets, writers, lines, local, flag, giving, file>>

EndSend ==
  /\ sending = "shared" /\ batch = << >>
  /\ sending' = "idle"
  /\ UNCHANGED <<offsets, writers, lines, shared, local, batch, flag, giving, file>>

\* traversal_log_info looks at the next line.
Line == lines[Head(batch)]
Looks == batch # << >> /\ giving = "nothing"

\* Mutant: only the incomplete lines themselves are put off.
PutOffOne ==
  /\ Looks
  /\ ~Line.done
  /\ local' = Append(local, Head(batch))
  /\ batch' = Tail(batch)
  /\ UNCHANGED <<offsets, writers, lines, shared, sending, flag, giving, file>>

\* Mutant: ulNewSeqNum is not advanced, and of the lines put off under one key
\* the next pass sees the first alone.
PutOffOneKey ==
  /\ Looks
  /\ ~flag \/ ~Line.done
  /\ local' = IF local = << >> THEN <<Head(batch)>> ELSE local
  /\ flag' = FALSE
  /\ batch' = Tail(batch)
  /\ UNCHANGED <<offsets, writers, lines, shared, sending, giving, file>>

\* An incomplete line, and every line behind one, waits for the next pass.
PutOff ==
  /\ Looks
  /\ ~flag \/ ~Line.done
  /\ local' = Append(local, Head(batch))
  /\ flag' = FALSE
  /\ batch' = Tail(batch)
  /\ UNCHANGED <<offsets, writers, lines, shared, sending, giving, file>>

\* A complete line goes to the file (strInformation, written after the loop).
\* Its block is freed, or its place in the ring given back.
Write ==
  /\ Looks
  /\ flag /\ Line.done
  /\ file' = Append(file, Head(batch))
  /\ IF Line.off = NoOffset
     THEN batch' = Tail(batch) /\ UNCHANGED <<readOffset, giving>>
     ELSE readOffset' = readOffset + Line.len /\ giving' = "address" /\ UNCHANGED batch
  /\ UNCHANGED <<readAddr, writeOffset, writeAddr, avail, writers, lines, shared,
                 local, sending, flag>>

\* pf_thread_mon_update_read_section, after ulLogReadOffset
Gives(from, to) ==
  /\ giving = from
  /\ giving' = to
  /\ batch' = IF to = "nothing" THEN Tail(batch) ELSE batch
  /\ UNCHANGED <<writeOffset, writeAddr, writers, lines, shared, local, sending, flag, file>>

GiveAddress ==
  /\ Gives("address", "judge")
  /\ readAddr' = readAddr + Line.len
  /\ UNCHANGED <<readOffset, avail>>

\* "judge whether the log space has been read"
Judge ==
  /\ Gives("judge", IF R + readOffset >= L THEN "rewind" ELSE "nothing")
  /\ UNCHANGED <<readOffset, readAddr, avail>>

Rewind ==
  /\ Gives("rewind", "zero")
  /\ readAddr' = 0
  /\ UNCHANGED <<readOffset, avail>>

Zero ==
  /\ Gives("zero", "refill")
  /\ readOffset' = 0
  /\ UNCHANGED <<readAddr, avail>>

Refill ==
  /\ Gives("refill", "nothing")
  /\ avail' = (L - writeOffset) % U32Mod
  /\ UNCHANGED <<readOffset, readAddr>>

-----------------------------------------------------------------------------
WriterStep ==
  \/ MeasureBehind \/ ChooseRing \/ ChooseBlock \/ WrapAvail \/ WrapOffset
  \/ PublishInRing \/ PublishBlock \/ FormatInRing \/ DeductAvail \/ Advance

ReaderStep ==
  \/ BeginSend \/ TakeShared \/ EndSend \/ PutOff \/ Write
  \/ GiveAddress \/ Judge \/ Rewind \/ Zero \/ Refill

LogNext ==
  \/ Measure \/ \E t \in Others : Publish(t)
  \/ WriterStep \/ \E t \in Loggers : Format(t)
  \/ ReaderStep

LogSpec == LogInit /\ [][LogNext]_logVars

\* Threads inside pf_log run on, and the log timer never stops.
LogFairness ==
  /\ WF_logVars(WriterStep)
  /\ \A t \in Loggers : WF_logVars(Format(t))
  /\ WF_logVars(ReaderStep)

-----------------------------------------------------------------------------
(* Type invariant.                                                         *)
LogTypeOK ==
  /\ {readOffset, readAddr, writeOffset, writeAddr} \subseteq Nat
  /\ avail \in 0..U32Mod-1 /\ measured \in 0..U32Mod-1
  /\ mine \in [Loggers -> 0..MaxLines]
  /\ \A n \in DOMAIN lines : lines[n].off \in Nat \cup {NoOffset} /\ lines[n].len \in Nat
  /\ shared \subseteq DOMAIN lines
  /\ \A q \in {local, batch, file} : \A i \in DOMAIN q : q[i] \in DOMAIN lines
  /\ flag \in BOOLEAN

\* The file shows the lines of all threads once each and in the order of their
\* numbers, whoever is slow to finish one and over any number of passes, each
\* one complete; and no line is ever in none of the file, the maps and the pass.
FileInOrder ==
  /\ \A i \in DOMAIN file : file[i] = i /\ lines[i].done
  /\ \A n \in DOMAIN lines : n > Len(file) =>
       \/ n \in shared
       \/ \E i \in DOMAIN local : local[i] = n
       \/ \E i \in DOMAIN batch : batch[i] = n

\* Nothing is forgotten between the two maps: whenever the threads fall silent
\* (in the model, at MaxLines at the latest), all they logged gets written.
EveryLineWritten == []<>(Len(file) = Len(lines))

\* pf_thread_mon_get_log_info measures what can be written: a line given a
\* place in the ring ends inside it.
InsideRing == \A n \in DOMAIN lines : lines[n].off # NoOffset => lines[n].off + lines[n].len <= L
=============================================================================
