------------------------------- MODULE DbLog -------------------------------
(***************************************************************************)
(* The three log tables of src/temp_logger/logger_db.c and the SQL         *)
(* statements run on them.  Every statement is a transaction of its own    *)
(* (autocommit); a select sees one snapshot (WAL).                         *)
(*                                                                         *)
(* Time is counted in ticks, Second of them to a second.  A temperature is *)
(* represented by where it comes from: the set of times of the device      *)
(* readings it is the mean of.  The empty set is NaN, and the time -1      *)
(* stands for whatever was in memory before the first reading.             *)
(***************************************************************************)
EXTENDS Integers, Sequences, SequencesExt

CONSTANTS
  Second,  \* ticks per second
  MaxNow,  \* bound on time
  Faults   \* which of "delete", "insert", "select" and "read" of the logger, and
           \* "query" of the server, may fail

ASSUME DbLogAssumption ==
  /\ Second \in Nat \ {0}
  /\ MaxNow \in Nat \ {0}
  /\ Faults \subseteq {"delete", "insert", "select", "read", "query"}

VARIABLE rows  \* rows[l]: the rows of log l in the order of their ids

Logs == 1..3
Time == 0..MaxNow
Temp == SUBSET (Time \cup {-1})
NaN  == {}

\* text: what the date column holds.  A "date" in every row the program wrote;
\* a "day" without a time of day, which DATETIME takes for midnight and scan_date
\* does not take; or something "damaged".
Row == [date : Time, temp : Temp, text : {"date", "day", "damaged"}]

RowsTypeOK == rows \in [Logs -> Seq(Row)]

\* where DATETIME(date) between from and to: DATETIME drops the fraction of the
\* row's date, and as text "hh:mm:ss" sorts before "hh:mm:ss.sss".  A date that
\* does not parse is NULL, and NULL is not between anything.
Secs(t) == t \div Second
Between_Bug(r, from, to) ==   \* the second that has begun is left out
  r.text # "damaged" /\ Secs(from) < Secs(r.date) /\ Secs(r.date) < Secs(to)

Between_Wide_Bug(r, from, to) ==   \* the second before the range is in it
  r.text # "damaged" /\ Secs(from) <= Secs(r.date) /\ Secs(r.date) <= Secs(to)

Between(r, from, to) ==
  r.text # "damaged" /\ Secs(from) < Secs(r.date) /\ Secs(r.date) <= Secs(to)

\* The rows of a table a select with that condition returns, step by step.
Matching(table, from, to) ==
  LET found[n \in 0..Len(table)] ==   \* among the first n rows
        IF n = 0 THEN <<>>
        ELSE IF Between(table[n], from, to) THEN Append(found[n - 1], table[n])
        ELSE found[n - 1]
  IN found[Len(table)]

Selected(l, from, to) == Matching(rows[l], from, to)

\* insert into l values (date, temp)
Insert(l, date, temp) ==
  rows' = [rows EXCEPT ![l] = Append(@, [date |-> date, temp |-> temp, text |-> "date"])]

\* delete from l where id is that of its i-th row
Delete(l, i) == rows' = [rows EXCEPT ![l] = RemoveAt(@, i)]
=============================================================================
