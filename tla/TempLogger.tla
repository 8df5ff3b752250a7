----------------------------- MODULE TempLogger -----------------------------
(***************************************************************************)
(* The temperature logger, src/temp_logger/temp_logger.c, writing through  *)
(* write_log, get_avg_log and delete_old_entries of logger_db.c.           *)
(*                                                                         *)
(* One step is one SQL statement, or one reading of the device.  Time only *)
(* passes while the logger waits for the device: nothing else in it looks  *)
(* at the clock.                                                           *)
(***************************************************************************)
EXTENDS DbLog

CONSTANTS
  Period,   \* Period[k]: PERIOD_LOG2 and PERIOD_LOG3, in ticks
  Keep,     \* Keep[l]: MAX_KEEP_LOG1 to MAX_KEEP_LOG3, in ticks
  Leftover, \* the tables an earlier session may have left behind
  MaxRows   \* bound: a log with this many rows is pruned without faults (model only)

\* How far a reading may lie behind the row that holds it or a mean of it.
Reach == <<1, Period[2], Period[2] + Period[3] - 1>>

InReach(l, table) ==
  \A i \in 1..Len(table) : \A t \in table[i].temp : table[i].date - t < Reach[l]

ASSUME TempLoggerAssumption ==
  /\ Period \in [2..3 -> Nat \ {0}]
  /\ Keep \in [Logs -> Nat \ {0}]
  /\ Leftover \subseteq [Logs -> Seq(Row)]
  /\ \A tables \in Leftover : InReach(2, tables[2]) /\ InReach(3, tables[3])
  /\ MaxRows \in Nat

VARIABLES
  now,      \* the clock
  lpc,      \* program point of the logger
  running,  \* is_working
  log,      \* the log being written or pruned
  cursor,   \* rows the pruning select has passed without deleting them
  value,    \* the reading in main's stack slot
  temp,     \* the value to be inserted
  date,     \* the date of the iteration
  last      \* log2_last_write and log3_last_write

loggerVars == <<now, lpc, running, log, cursor, value, temp, date, last>>

LoggerTypeOK ==
  /\ RowsTypeOK
  /\ now \in Time /\ date \in Time
  /\ lpc \in {"start", "skip", "loop", "read", "average", "prune", "insert", "done"}
  /\ running \in BOOLEAN
  /\ log \in Logs
  /\ cursor \in Nat
  /\ value \in Temp /\ temp \in Temp
  /\ last \in [2..3 -> Time]

LoggerInit ==
  /\ rows \in Leftover
  /\ now = 1 /\ date = 1
  /\ lpc = "start" /\ running = TRUE
  /\ log = 1 /\ cursor = 0
  /\ value \in {NaN, {-1}} /\ temp = NaN
  /\ last = [k \in 2..3 |-> 0]

-----------------------------------------------------------------------------
(* delete_old_entries.                                                      *)

Pruning == lpc \in {"start", "prune"}
More    == cursor < Len(rows[log])
Roomy   == Len(rows[log]) < MaxRows
Current == rows[log][cursor + 1]

\* The flag called is_ascii is the negation of is_valid_ascii: a row of plain
\* text is deleted whatever its age.  Any other is deleted if its date is more
\* than Keep ago, and what date a damaged column gives is anybody's guess.
PruneRow ==
  /\ Pruning /\ More
  /\ Delete(log, cursor + 1)
  /\ UNCHANGED loggerVars

\* A delete that fails is reported, and the loop goes on to the next row.
PruneFails ==
  /\ Pruning /\ More /\ Roomy /\ "delete" \in Faults
  /\ cursor' = cursor + 1
  /\ UNCHANGED <<rows, now, lpc, running, log, value, temp, date, last>>

PruneDone_Bug ==   \* the loop may be left at any row
  /\ Pruning
  /\ cursor' = 0
  /\ IF lpc = "prune"  THEN lpc' = "insert" /\ log' = log
     ELSE IF log < 3   THEN lpc' = "start"  /\ log' = log + 1
                       ELSE lpc' = "skip"   /\ log' = 1
  /\ UNCHANGED <<rows, now, running, value, temp, date, last>>

\* The loop ends after the last row, at a row that is to stay, or on an error.
PruneDone ==
  /\ Pruning
  /\ More => Roomy /\ (Current.text = "damaged" \/ "select" \in Faults)
  /\ cursor' = 0
  /\ IF lpc = "prune"  THEN lpc' = "insert" /\ log' = log
     ELSE IF log < 3   THEN lpc' = "start"  /\ log' = log + 1
                       ELSE lpc' = "skip"   /\ log' = 1
  /\ UNCHANGED <<rows, now, running, value, temp, date, last>>

-----------------------------------------------------------------------------
(* The main loop.                                                           *)

\* skip_old_values and skip_till_value, then the timers are set.
SkipOld ==
  /\ lpc = "skip"
  /\ lpc' = "loop"
  /\ last' = [k \in 2..3 |-> now]
  /\ UNCHANGED <<rows, now, running, log, cursor, value, temp, date>>

Advance ==
  /\ lpc \in {"skip", "read"} /\ now < MaxNow
  /\ now' = now + 1
  /\ UNCHANGED <<rows, lpc, running, log, cursor, value, temp, date, last>>

\* while (is_working)
Loop_Bug ==   \* while (true)
  /\ lpc = "loop"
  /\ lpc' = "read"
  /\ UNCHANGED <<rows, now, running, log, cursor, value, temp, date, last>>

Loop ==
  /\ lpc = "loop"
  /\ lpc' = IF running THEN "read" ELSE "done"
  /\ UNCHANGED <<rows, now, running, log, cursor, value, temp, date, last>>

\* read_value; its result is not looked at, so that after an error the
\* previous content of the stack slot is logged as the new value.
Read ==
  /\ lpc = "read"
  /\ value' = {now} \/ ("read" \in Faults /\ value' = value)
  /\ temp' = value'
  /\ date' = now
  /\ lpc' = "prune" /\ log' = 1
  /\ UNCHANGED <<rows, now, running, cursor, last>>

\* The averages are looked at in the order log 2, log 3.
Due(k) == date - last[k] >= Period[k]

GoOn_Bug ==   \* log 3 waits for an iteration without log 2
  LET due == {k \in 2..3 : k > log /\ Due(k)} IN
    IF log = 2 \/ due = {} THEN lpc' = "loop" /\ log' = 1
                          ELSE lpc' = "average" /\ log' = CHOOSE k \in due : \A j \in due : k <= j

GoOn ==
  LET due == {k \in 2..3 : k > log /\ Due(k)} IN
    IF due = {} THEN lpc' = "loop" /\ log' = 1
                ELSE lpc' = "average" /\ log' = CHOOSE k \in due : \A j \in due : k <= j

\* The insert is put together as text, in which a mean of no rows reads "nan":
\* SQLite takes that for the name of a column and does not prepare the statement.
Prepares(t) == t # NaN

\* write_log inserts what it is given, if SQLite takes it.
InsertRow ==
  /\ lpc = "insert" /\ Prepares(temp)
  /\ Insert(log, date, temp)
  /\ last' = [k \in 2..3 |-> IF k = log THEN date ELSE last[k]]
  /\ GoOn
  /\ UNCHANGED <<now, running, cursor, value, temp, date>>

InsertFails_Bug ==   \* the timer moves on all the same
  /\ lpc = "insert" /\ (~Prepares(temp) \/ "insert" \in Faults)
  /\ last' = [k \in 2..3 |-> IF k = log THEN date ELSE last[k]]
  /\ GoOn
  /\ UNCHANGED <<rows, now, running, cursor, value, temp, date>>

\* A failed write is skipped; its timer stays, so that it is tried again.
InsertFails ==
  /\ lpc = "insert" /\ (~Prepares(temp) \/ "insert" \in Faults)
  /\ GoOn
  /\ UNCHANGED <<rows, now, running, cursor, value, temp, date, last>>

\* get_avg_log of the log below, over the period of this one: the readings that
\* are in the mean of the matching rows.
Readings(l, from, to) ==
  UNION {rows[l][i].temp : i \in {j \in DOMAIN rows[l] : Between(rows[l][j], from, to)}}

Average ==
  /\ lpc = "average"
  /\ temp' = Readings(log - 1, date - Period[log], date)
  /\ lpc' = "prune"
  /\ UNCHANGED <<rows, now, running, log, cursor, value, date, last>>

AverageFails ==
  /\ lpc = "average" /\ "select" \in Faults
  /\ GoOn
  /\ UNCHANGED <<rows, now, running, cursor, value, temp, date, last>>

InterruptLogger ==
  /\ running /\ lpc # "done"
  /\ running' = FALSE
  /\ UNCHANGED <<rows, now, lpc, log, cursor, value, temp, date, last>>

LoggerStep ==
  \/ PruneRow \/ PruneFails \/ PruneDone \/ SkipOld \/ Loop \/ Read
  \/ Average \/ AverageFails \/ InsertRow \/ InsertFails

LoggerNext == LoggerStep \/ Advance \/ InterruptLogger

loggerState == <<rows, loggerVars>>

LoggerSpec == LoggerInit /\ [][LoggerNext]_loggerState

\* The logger is scheduled, and the device goes on sending.
FairLoggerSpec == LoggerSpec /\ WF_loggerState(LoggerStep)

-----------------------------------------------------------------------------
\* Every average that is due is in its log before the next reading: no timer is
\* left behind, and no average is ever taken over nothing.
NoBacklog == lpc = "read" => \A k \in 2..3 : ~Due(k)

\* The reading that triggers an average is part of it: it is in the log below
\* by the time that is read, and inside the range the query really covers.
AverageIncludesReading ==
  lpc = "prune" =>
    /\ log = 2 => value \subseteq temp
    /\ log = 3 /\ last[2] = date => value \subseteq temp

\* As long as log 1 gets every reading at once, no average is older than the
\* periods it is taken over: those of log 2 hold nothing from before one of theirs,
\* those of log 3 nothing from before one of both, whatever fails and however often
\* an average is put off, and although the query only looks at whole seconds.
AverageIsRecent ==
  []InReach(1, rows[1]) => [](InReach(2, rows[2]) /\ InReach(3, rows[3]))

\* Whatever fails, a timer only moves on with a row in its log: an average that
\* could not be taken or written is tried again with the next reading.
TimerMovesWithRow ==
  [][lpc # "skip" =>
       \A k \in 2..3 : last'[k] # last[k] =>
         \E i \in DOMAIN rows'[k] : rows'[k][i].date = last'[k]]_loggerState

\* "Write new date-value to log, deleting old ones" (logger_interface.h:29): a
\* row its log is still to keep is not deleted.
FreshKept ==
  [][\A l \in Logs : \A i \in DOMAIN rows[l] :
       rows[l][i].text # "damaged" /\ date - rows[l][i].date <= Keep[l]
         => \E j \in DOMAIN rows'[l] : rows'[l][j] = rows[l][i]]_loggerState

\* Ctrl-C ends the logger, whatever fails.
LoggerStops == ~running ~> lpc = "done"
=============================================================================
