----------------------------- MODULE FileLogger -----------------------------
(***************************************************************************)
(* The temperature logger, src/temp_logger/temp_logger.c, built without a  *)
(* database: reading a device that may be cut off, logging to files, and   *)
(* being stopped, killed and started again.                                *)
(*                                                                         *)
(* One step is one piece read from the device, or one change of a file.    *)
(* Time passes while the logger waits for the device, or is not there.     *)
(***************************************************************************)
EXTENDS LogFile, Device

CONSTANTS
  Period,    \* Period[k]: PERIOD_LOG2 and PERIOD_LOG3, in seconds
  Chunk,     \* READ_BUF_SIZE, in lines
  Leftover,  \* the files an earlier version may have left: in order, whole, and of
             \* no later date than the first second
  Crashes,   \* may the logger be killed?
  MaxNow,    \* bound on time
  MaxLines,  \* bound: the reader waits when log 1 would grow beyond this
  MaxStarts  \* bound on the runs of the logger

ASSUME FileLoggerAssumption ==
  /\ Period \in [2..3 -> Nat] /\ Period[2] <= Period[3]
  /\ Chunk \in Nat \ {0}
  /\ Leftover \subseteq [Logs -> Seq(Line)]
  /\ \A files \in Leftover : \A l \in Logs :
       /\ InOrder(files[l])
       /\ \A i \in 1..Len(files[l]) : files[l][i].date <= 1 /\ files[l][i].val # "fragment"
  /\ Crashes \in BOOLEAN
  /\ MaxNow \in Nat /\ MaxLines \in Nat /\ MaxStarts \in Nat

VARIABLES
  pc,       \* program point; "off" when the logger is not there
  running,  \* is_working
  eof,      \* the device has been seen at its end; that is never forgotten
  value,    \* the reading in main's stack slot
  last,     \* log2_last_write and log3_last_write
  log,      \* the log being pruned, written or put in order
  r,        \* lines of it read so far
  w,        \* lines of it written so far
  buf,      \* swp_buf
  starts,   \* runs of the logger so far
  torn      \* torn[l]: the logger was killed with log l out of order (history)

loggerVars == <<pc, running, eof, value, last, log, r, w, buf, starts, torn>>
vars == <<now, file, pos, first, deviceVars, loggerVars>>
fileVars == <<now, file, pos, first>>

TypeOK ==
  /\ FilesTypeOK /\ DeviceTypeOK
  /\ pc \in {"off", "prune", "skip_old", "skip_till", "loop", "read", "resync", "store",
             "swap", "shift", "hung"}
  /\ running \in BOOLEAN /\ eof \in BOOLEAN
  /\ value \in Val
  /\ last \in [2..3 -> Nat]
  /\ log \in Logs
  /\ r \in Nat /\ w \in Nat
  /\ buf \in Seq(Line)
  /\ starts \in Nat
  /\ torn \in [Logs -> BOOLEAN]

Init ==
  /\ DeviceInit
  /\ now = 1
  /\ file \in Leftover
  /\ pos = [l \in Logs |-> 0] /\ first = [l \in Logs |-> NoEntry]
  /\ pc = "off" /\ running = TRUE /\ eof = FALSE
  /\ value = "none" /\ last = [k \in 2..3 |-> 0]
  /\ log = 1 /\ r = 0 /\ w = 0 /\ buf = <<>>
  /\ starts = 0 /\ torn = [l \in Logs |-> FALSE]

-----------------------------------------------------------------------------
(* Starting: init_log and delete_old_entries for each log.                  *)

\* The variables of a process that is not there.
Locals ==
  /\ running' = TRUE /\ eof' = FALSE
  /\ value' = "none" /\ last' = [k \in 2..3 |-> 0]
  /\ log' = 1 /\ r' = 0 /\ w' = 0 /\ buf' = <<>>

Start ==
  /\ pc = "off" /\ starts < MaxStarts
  /\ InitLogs
  /\ pc' = "prune" /\ Locals
  /\ starts' = starts + 1
  /\ UNCHANGED <<deviceVars, torn>>

PruneLine_Bug ==   \* write_pos is not moved on
  /\ pc = "prune" /\ r < Len(file[log])
  /\ r' = r + 1
  /\ IF Fresh(log, file[log][r + 1]) THEN MoveUp(log, w, r + 1) ELSE UNCHANGED fileVars
  /\ UNCHANGED <<deviceVars, pc, running, eof, value, last, log, w, buf, starts, torn>>

PruneLine ==
  /\ pc = "prune" /\ r < Len(file[log])
  /\ r' = r + 1
  /\ IF Fresh(log, file[log][r + 1])
       THEN w' = w + 1 /\ MoveUp(log, w, r + 1)
       ELSE w' = w /\ UNCHANGED fileVars
  /\ UNCHANGED <<deviceVars, pc, running, eof, value, last, log, buf, starts, torn>>

PruneDone ==
  /\ pc = "prune" /\ r = Len(file[log])
  /\ Cut(log, w)
  /\ IF log < 3 THEN pc' = "prune" /\ log' = log + 1 ELSE pc' = "skip_old" /\ log' = 1
  /\ r' = 0 /\ w' = 0
  /\ UNCHANGED <<deviceVars, running, eof, value, last, buf, starts, torn>>

\* skip_old_values drops bytes until the second is over.  It may end inside a
\* message.
SkipOld ==
  /\ pc = "skip_old"
  /\ \/ Take /\ pc' = "skip_old"
     \/ /\ stream # <<>>
        /\ stream' = <<Rest(Head(stream))>> \o Tail(stream)
        /\ pc' = "skip_till"
        /\ UNCHANGED sending
     \/ pc' = "skip_till" /\ UNCHANGED deviceVars
  /\ eof' = (eof \/ AtEnd)
  /\ UNCHANGED <<fileVars, running, value, last, log, r, w, buf, starts, torn>>

\* skip_till_value looks for DELIM and knows no other end: at the end of the
\* device fgetc returns EOF for ever.
SkipTill_Bug ==   \* after a fixed number of bytes
  /\ pc \in {"skip_till", "resync"}
  /\ IF eof \/ AtEnd
       THEN pc' = "hung" /\ eof' = TRUE /\ UNCHANGED <<deviceVars, last>>
       ELSE /\ Take
            /\ pc' = IF pc = "resync" THEN "store" ELSE "loop"
            /\ last' = IF pc = "skip_till" THEN [k \in 2..3 |-> now] ELSE last
            /\ UNCHANGED eof
  /\ UNCHANGED <<fileVars, running, value, log, r, w, buf, starts, torn>>

SkipTill ==
  /\ pc \in {"skip_till", "resync"}
  /\ IF eof \/ AtEnd
       THEN pc' = "hung" /\ eof' = TRUE /\ UNCHANGED <<deviceVars, last>>
       ELSE /\ Take
            /\ pc' = IF ~Delimited(Head(stream)) THEN pc
                     ELSE IF pc = "resync" THEN "store" ELSE "loop"
            /\ last' = IF pc' = "loop" THEN [k \in 2..3 |-> now] ELSE last
            /\ UNCHANGED eof
  /\ UNCHANGED <<fileVars, running, value, log, r, w, buf, starts, torn>>

-----------------------------------------------------------------------------
(* The main loop.                                                           *)

\* while (is_working)
Loop ==
  /\ pc = "loop"
  /\ pc' = IF running THEN "read" ELSE "swap"
  /\ log' = 1
  /\ UNCHANGED <<fileVars, deviceVars, running, eof, value, last, r, w, buf, starts, torn>>

\* Bound: see MaxLines.
Room == running /\ AtFileEnd(1) /\ ~Expired(1) => Len(file[1]) < MaxLines

\* read_value.  Its result is not looked at: after an error what was in the
\* stack slot is logged.  The byte it looks at last has not been read when the
\* piece is short, so that this may go either way.
ReadPiece ==
  /\ pc = "read" /\ Room /\ ~eof
  /\ Take
  /\ LET piece == Head(stream) IN
     \/ /\ piece = "whole"
        /\ value' = "message" /\ pc' = "store"
     \/ /\ piece \in {"noise", "short", "tail"}
        /\ value' = value /\ pc' = "store"
     \/ /\ piece \in {"short", "tail"}
        /\ value' = (IF piece = "short" THEN "message" ELSE "fragment") /\ pc' = "store"
     \/ /\ piece \in {"head", "short", "tail"}
        /\ value' = value /\ pc' = "resync"
  /\ log' = 1
  /\ UNCHANGED <<fileVars, running, eof, last, r, w, buf, starts, torn>>

\* At the end of the device fgets returns at once, from now on always.
ReadEnd ==
  /\ pc = "read" /\ Room /\ (eof \/ AtEnd)
  /\ eof' = TRUE
  /\ pc' = "store" /\ log' = 1
  /\ UNCHANGED <<fileVars, deviceVars, running, value, last, r, w, buf, starts, torn>>

Due(k) == now - last[k] >= Period[k]

GoOn_Bug ==   \* log 3 first
  LET due == {k \in 2..3 : (log = 1 \/ k < log) /\ Due(k)} IN
    IF due = {} THEN pc' = "loop" /\ log' = 1
                ELSE pc' = "store" /\ log' = CHOOSE k \in due : \A j \in due : k >= j

\* The averages are looked at in the order log 2, log 3.
GoOn ==
  LET due == {k \in 2..3 : k > log /\ Due(k)} IN
    IF due = {} THEN pc' = "loop" /\ log' = 1
                ELSE pc' = "store" /\ log' = CHOOSE k \in due : \A j \in due : k <= j

StoreReading ==
  /\ pc = "store" /\ log = 1
  /\ WriteLog(1, value)
  /\ GoOn
  /\ UNCHANGED <<deviceVars, running, eof, value, last, r, w, buf, starts, torn>>

\* write_log_with_avg: get_avg_log of the log below, write_log, the timer.
StoreAverage ==
  /\ pc = "store" /\ log > 1
  /\ LET matching == MatchingVals(log - 1, Period[log]) IN
       IF matching = {} THEN LoseCursor(log - 1) /\ UNCHANGED last
                        ELSE WriteLog(log, Mean(matching)) /\ last' = [last EXCEPT ![log] = now]
  /\ GoOn
  /\ UNCHANGED <<deviceVars, running, eof, value, r, w, buf, starts, torn>>

-----------------------------------------------------------------------------
(* Ending: deinit_log for each log.                                         *)

SwapNothing_Bug ==   \* one log too many
  /\ pc = "swap" /\ AtFileEnd(log)
  /\ IF log <= 3
       THEN /\ log' = log + 1
            /\ UNCHANGED <<fileVars, pc, running, eof, value, last, r, w, buf>>
       ELSE pc' = "off" /\ CloseLogs /\ Locals
  /\ UNCHANGED <<deviceVars, starts, torn>>

\* At the end of the file there is nothing to swap.
SwapNothing ==
  /\ pc = "swap" /\ AtFileEnd(log)
  /\ IF log < 3
       THEN /\ log' = log + 1
            /\ UNCHANGED <<fileVars, pc, running, eof, value, last, r, w, buf>>
       ELSE pc' = "off" /\ CloseLogs /\ Locals
  /\ UNCHANGED <<deviceVars, starts, torn>>

SwapStart ==
  /\ pc = "swap" /\ ~AtFileEnd(log)
  /\ pc' = "shift" /\ w' = 0
  /\ buf' = Before(log)
  /\ UNCHANGED <<fileVars, deviceVars, running, eof, value, last, log, r, starts, torn>>

Remaining == Len(file[log]) - pos[log] - w

SwapChunk ==
  LET n == IF Remaining < Chunk THEN Remaining ELSE Chunk IN
  /\ pc = "shift" /\ Remaining > 0
  /\ ShiftChunk(log, pos[log], w, n)
  /\ w' = w + n
  /\ UNCHANGED <<deviceVars, pc, running, eof, value, last, log, r, buf, starts, torn>>

SwapDone ==
  /\ pc = "shift" /\ Remaining = 0
  /\ PutBehind(log, buf)
  /\ pc' = "swap" /\ w' = 0 /\ buf' = <<>>
  /\ UNCHANGED <<deviceVars, running, eof, value, last, log, r, starts, torn>>

-----------------------------------------------------------------------------
(* The surroundings.                                                        *)

Reading == pc \in {"skip_old", "skip_till", "read", "resync"}

\* Time only counts while there is nothing to be read.
Advance ==
  /\ pc = "off" \/ (Reading /\ (stream = <<>> \/ eof))
  /\ now < MaxNow
  /\ now' = now + 1
  /\ UNCHANGED <<file, pos, first, deviceVars, loggerVars>>

\* sigint_handler.  While files are written nobody looks at is_working.
Interrupt ==
  /\ running /\ (Reading \/ pc = "loop")
  /\ running' = FALSE
  /\ UNCHANGED <<fileVars, deviceVars, pc, eof, value, last, log, r, w, buf, starts, torn>>

\* Is log l being moved about, or written over from its beginning?
OutOfOrder(l) ==
  \/ 0 < pos[l] /\ pos[l] < Len(file[l])
  \/ pc = "prune" /\ l = log /\ 0 < w /\ w < r

\* Every write goes to the file before the next: only what is in memory is lost.
Crash ==
  /\ Crashes /\ pc # "off"
  /\ pc' = "off" /\ CloseLogs /\ Locals
  /\ torn' = [l \in Logs |-> torn[l] \/ OutOfOrder(l)]
  /\ UNCHANGED <<deviceVars, starts>>

\* What happens to the device while the logger does not look at it might as well
\* happen when it does, and a device that is opened again before its end was seen
\* has only been silent.
Listening == Reading /\ ~eof

Emulate == (Listening /\ (Send \/ Close)) \/ (pc = "off" /\ Open)

EmulatorNext == Emulate /\ UNCHANGED <<fileVars, loggerVars>>

LoggerStep ==
  \/ PruneLine \/ PruneDone \/ SkipOld \/ SkipTill \/ Loop \/ ReadPiece \/ ReadEnd
  \/ StoreReading \/ StoreAverage \/ SwapNothing \/ SwapStart \/ SwapChunk \/ SwapDone

\* It is not started again, or loops for ever at the end of the device.
Ended ==
  /\ (pc = "off" /\ starts = MaxStarts) \/ pc = "hung"
  /\ UNCHANGED vars

Next == Start \/ LoggerStep \/ Advance \/ Interrupt \/ Crash \/ EmulatorNext \/ Ended

Spec == Init /\ [][Next]_vars

\* A logger that is there is scheduled, and so is the emulator, which sends or
\* ends.  A second ends, too, but how the clock goes on, starting, stopping and
\* killing are never forced.
FairSpec ==
  /\ Spec
  /\ WF_vars(LoggerStep)
  /\ WF_vars(SkipOld /\ pc' = "skip_till")
  /\ WF_vars(Listening /\ Send /\ UNCHANGED <<fileVars, loggerVars>>)

-----------------------------------------------------------------------------
\* The lines of a log from the oldest: behind the cursor, and then before it;
\* while it is pruned, those that stay and those not yet looked at; while it is
\* swapped, those moved, those to be moved, and the buffer.
Entries(l) ==
  LET lines == file[l] IN
  IF pc = "prune" /\ l = log THEN SubSeq(lines, 1, w) \o SubSeq(lines, r + 1, Len(lines))
  ELSE IF pc = "shift" /\ l = log
    THEN SubSeq(lines, 1, w) \o SubSeq(lines, pos[l] + w + 1, Len(lines)) \o buf
  ELSE SubSeq(lines, pos[l] + 1, Len(lines)) \o SubSeq(lines, 1, pos[l])

Phase ==
  IF pc = "off" THEN "off"
  ELSE IF pc = "prune" THEN "starting"
  ELSE IF pc \in {"swap", "shift"} THEN "stopping" ELSE "on"

Queue == INSTANCE LogQueue WITH
  Vals <- Val, phase <- Phase, entries <- [l \in Logs |-> Entries(l)]

\* Each log is a queue: a write adds at one end and takes at most the oldest
\* entry from the other, pruning takes what is too old, and the swap at the end
\* changes nothing.  A kill leaves of it what LogQueue's Crash says: everything, in
\* a ring or with old lines in between, or, in the swap, its front and the rest of
\* what was there before.
ImplementsQueue == Queue!Spec

\* "At the end of the execution all the lines in the logger are shifted to be
\* sorted by date": so are the files of a logger that is not there, unless it
\* was killed while one was out of order.
InDateOrder ==
  pc = "off" => \A l \in Logs : ~torn[l] => InOrder(file[l])

\* first_entry_time is that of the first line whenever write_log may look at it.
FirstExact ==
  pc \in {"loop", "read", "resync", "store"} =>
    \A l \in Logs : file[l] # <<>> => first[l] = file[l][1].date

Among(line, lines) == \E j \in 1..Len(lines) : lines[j] = line

\* Pruning writes over the file it reads: whichever write comes next, a line that is
\* to stay is still in the file after it, so that no kill between two of them loses
\* one.  (The swap keeps lines in memory only, see LogQueue.)
PrunedLinesStay ==
  [][\A l \in Logs : \A i \in 1..Len(file[l]) :
       pc = "prune" /\ Fresh(l, file[l][i]) => Among(file[l][i], file'[l])]_vars

\* No average is taken over nothing: the return from get_avg_log that leaves the
\* cursor behind is never taken.
AverageFindsEntries == pc = "store" /\ log > 1 => Matching(log - 1, Period[log]) # {}

\* No part of a message is ever logged as a reading: the reader finds the start
\* of a message whatever went before.
NoFragmentLogged ==
  \A l \in Logs : \A i \in 1..Len(file[l]) : file[l][i].val # "fragment"

\* Ctrl-C ends the logger, unless the device is gone while it looks for DELIM.
LoggerEnds == ~running /\ pc # "off" ~> pc \in {"off", "hung"}
=============================================================================
