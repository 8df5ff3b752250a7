------------------------------ MODULE LogFile ------------------------------
(***************************************************************************)
(* The log files of src/temp_logger/logger_fs.c: text files of lines of    *)
(* one length, used as rings.  The state of a log is its file, the         *)
(* position in it (the lines before the cursor), and first_entry_time.     *)
(* One operator per function, or per write inside one.                     *)
(***************************************************************************)
EXTENDS Integers, Sequences

CONSTANT Keep  \* Keep[l]: MAX_KEEP_LOG1 to MAX_KEEP_LOG3, in seconds

Logs == 1..3

ASSUME LogFileAssumption == Keep \in [Logs -> Nat]

VARIABLES
  now,   \* the clock, in seconds
  file,  \* file[l]: the lines of log l
  pos,   \* pos[l]: lines before the cursor of log l
  first  \* first[l]: first_entry_time

NoDate  == -1  \* of a line whose date cannot be read
NoEntry == -1  \* first_entry_time is -INFINITY

\* What a value is: a number that was a message, or part of one, or none at all
\* (what was in memory before the first reading).
Val  == {"message", "fragment", "none"}
Line == [date : Nat \cup {NoDate}, val : Val]

FilesTypeOK ==
  /\ now \in Nat
  /\ file \in [Logs -> Seq(Line)]
  /\ pos \in [Logs -> Nat]
  /\ \A l \in Logs : pos[l] <= Len(file[l])
  /\ first \in [Logs -> Nat \cup {NoEntry}]

\* Sorted by date, as far as there are dates.
InOrder(lines) ==
  \A i, j \in 1..Len(lines) :
    i < j /\ lines[i].date # NoDate /\ lines[j].date # NoDate
      => lines[i].date <= lines[j].date

\* first_entry_secs
FirstEntry(lines) == IF lines = <<>> THEN NoEntry ELSE lines[1].date

\* init_log opens with "a+" to create the file and again with "rb+" to write
\* anywhere in it.  A first line that cannot be read counts as none.
InitLogs ==
  /\ pos' = [l \in Logs |-> 0]
  /\ first' = [l \in Logs |-> FirstEntry(file[l])]
  /\ UNCHANGED <<now, file>>

AtFileEnd(l) == pos[l] = Len(file[l])

\* secs - first_entry_time > max_period
Expired(l) == first[l] = NoEntry \/ now - first[l] > Keep[l]

\* fprintf at a position: over the line there, or a line more.
PutLine(lines, i, line) ==
  IF i > Len(lines) THEN Append(lines, line) ELSE [lines EXCEPT ![i] = line]

WriteLog_Bug(l, val) ==   \* the age of the first entry is looked at everywhere
  LET start == IF Expired(l) THEN 0 ELSE pos[l] IN
  /\ file' = [file EXCEPT ![l] = PutLine(@, start + 1, [date |-> now, val |-> val])]
  /\ pos' = [pos EXCEPT ![l] = start + 1]
  /\ first' = IF Expired(l) THEN [first EXCEPT ![l] = now] ELSE first
  /\ UNCHANGED now

\* write_log: at the end of the file it is decided where to go on.
WriteLog(l, val) ==
  LET wrap  == AtFileEnd(l) /\ Expired(l)
      start == IF wrap THEN 0 ELSE pos[l]
  IN
  /\ file' = [file EXCEPT ![l] = PutLine(@, start + 1, [date |-> now, val |-> val])]
  /\ pos' = [pos EXCEPT ![l] = start + 1]
  /\ first' = IF wrap THEN [first EXCEPT ![l] = now] ELSE first
  /\ UNCHANGED now

\* The lines get_avg_log takes the mean of.
Matching(l, period) ==
  {i \in 1..Len(file[l]) : file[l][i].date # NoDate /\ now - file[l][i].date <= period}

\* The mean of some values is no better than the worst of them.
Mean(vals) ==
  IF "none" \in vals THEN "none" ELSE IF "fragment" \in vals THEN "fragment" ELSE "message"

MatchingVals(l, period) == {file[l][i].val : i \in Matching(l, period)}

\* An average over nothing leaves get_avg_log before the cursor is put back.
LoseCursor(l) ==
  /\ pos' = [pos EXCEPT ![l] = Len(file[l])]
  /\ UNCHANGED <<now, file, first>>

-----------------------------------------------------------------------------
(* delete_old_entries reads line by line and writes what is to stay further *)
(* up in the same file.                                                     *)

Fresh(l, line) == line.date # NoDate /\ now - line.date <= Keep[l]

\* The r-th line, of which w stay, goes to the end of those.
MoveUp(l, w, r) ==
  /\ file' = [file EXCEPT ![l][w + 1] = file[l][r]]
  /\ UNCHANGED <<now, pos, first>>

Cut_Bug(l, w) ==   \* first_entry_time is not read again
  /\ file' = [file EXCEPT ![l] = SubSeq(@, 1, w)]
  /\ pos' = [pos EXCEPT ![l] = w]
  /\ UNCHANGED <<now, first>>

\* After the last line: ftrunc, the cursor at the end, and first_entry_time.
Cut(l, w) ==
  /\ file' = [file EXCEPT ![l] = SubSeq(@, 1, w)]
  /\ pos' = [pos EXCEPT ![l] = w]
  /\ first' = IF w > 0 THEN [first EXCEPT ![l] = file'[l][1].date] ELSE first
  /\ UNCHANGED now

-----------------------------------------------------------------------------
(* swap_file_parts: the lines before the cursor go behind the others.       *)

Before(l) == SubSeq(file[l], 1, pos[l])

\* One READ_BUF_SIZE of the lines behind the first left goes left lines up,
\* moved of them having gone before.
ShiftChunk(l, left, moved, n) ==
  /\ file' = [file EXCEPT ![l] = [i \in DOMAIN @ |->
                IF moved < i /\ i <= moved + n THEN @[i + left] ELSE @[i]]]
  /\ UNCHANGED <<now, pos, first>>

PutBehind_Bug(l, lines) ==   \* at the old cursor instead of the end
  /\ file' = [file EXCEPT ![l] = [i \in DOMAIN @ |->
                IF pos[l] < i /\ i <= pos[l] + Len(lines) THEN lines[i - pos[l]] ELSE @[i]]]
  /\ pos' = [pos EXCEPT ![l] = Len(file[l])]
  /\ UNCHANGED <<now, first>>

PutBehindBack_Bug(l, lines) ==   \* the cursor goes back to where it was
  LET start == Len(file[l]) - Len(lines) IN
  /\ file' = [file EXCEPT ![l] = [i \in DOMAIN @ |-> IF i > start THEN lines[i - start] ELSE @[i]]]
  /\ UNCHANGED <<now, pos, first>>

\* The buffer with the lines from before the cursor is written at the end.
PutBehind(l, lines) ==
  LET start == Len(file[l]) - Len(lines) IN
  /\ file' = [file EXCEPT ![l] = [i \in DOMAIN @ |-> IF i > start THEN lines[i - start] ELSE @[i]]]
  /\ pos' = [pos EXCEPT ![l] = Len(file[l])]
  /\ UNCHANGED <<now, first>>

\* Across a process the position is not kept.
CloseLogs ==
  /\ pos' = [l \in Logs |-> 0]
  /\ first' = [l \in Logs |-> NoEntry]
  /\ UNCHANGED <<now, file>>
=============================================================================
