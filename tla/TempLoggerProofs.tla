-------------------------- MODULE TempLoggerProofs --------------------------
(***************************************************************************)
(* Theorems about TempLogger, for every value of its constants: what holds *)
(* whatever fails, and what holds while neither an insert nor a select nor *)
(* a reading does.                                                         *)
(***************************************************************************)
EXTENDS TempLogger, TLAPS, SequenceTheorems

\* A table without one of its rows.
LEMMA RemoveAtFacts ==
  ASSUME NEW S, NEW table \in Seq(S), NEW c \in 1..Len(table)
  PROVE  /\ RemoveAt(table, c) \in Seq(S) /\ Len(RemoveAt(table, c)) = Len(table) - 1
         /\ \A i \in 1 .. Len(table) - 1 :
              RemoveAt(table, c)[i] = IF i < c THEN table[i] ELSE table[i + 1]
<1> DEFINE L == Len(table)
           x == SubSeq(table, 1, c - 1)
           y == SubSeq(table, c + 1, L)
<1>0. L \in Nat /\ c \in 1..L /\ \A i \in 1..L : table[i] \in S
  BY LenProperties, ElementOfSeq
<1>1. RemoveAt(table, c) = x \o y
  BY DEF RemoveAt
<1> HIDE DEF L
<1>2. x \in Seq(S) /\ Len(x) = c - 1 /\ \A i \in 1 .. c - 1 : x[i] = table[i]
  <2>1. 1 \in Int /\ c - 1 \in Int /\ \A i \in 1 .. c - 1 : table[i] \in S
    BY <1>0
  <2>2. /\ x \in Seq(S)
        /\ Len(x) = IF 1 <= c - 1 THEN c - 1 - 1 + 1 ELSE 0
        /\ \A i \in 1 .. c - 1 - 1 + 1 : x[i] = table[1 + i - 1]
    BY <2>1, SubSeqProperties
  <2> HIDE DEF x
  <2> QED
    BY <1>0, <2>2
<1>3. /\ y \in Seq(S) /\ Len(y) = L - c
      /\ \A i \in 1 .. L - c : y[i] = table[c + i]
  <2>1. c + 1 \in Int /\ L \in Int /\ \A i \in c + 1 .. L : table[i] \in S
    BY <1>0
  <2>2. /\ y \in Seq(S)
        /\ Len(y) = IF c + 1 <= L THEN L - (c + 1) + 1 ELSE 0
        /\ \A i \in 1 .. L - (c + 1) + 1 : y[i] = table[c + 1 + i - 1]
    BY <2>1, SubSeqProperties
  <2> HIDE DEF y
  <2>3. Len(y) = L - c
    BY <1>0, <2>2
  <2>4. ASSUME NEW i \in 1 .. L - c PROVE y[i] = table[c + i]
    <3>1. i \in 1 .. L - (c + 1) + 1 /\ c + 1 + i - 1 = c + i
      BY <1>0
    <3> QED
      BY <2>2, <3>1
  <2> QED
    BY <2>2, <2>3, <2>4
<1> HIDE DEF x, y
<1>4. /\ x \o y \in Seq(S) /\ Len(x \o y) = Len(x) + Len(y)
      /\ \A i \in 1 .. Len(x) + Len(y) :
           (x \o y)[i] = IF i <= Len(x) THEN x[i] ELSE y[i - Len(x)]
  BY <1>2, <1>3, ConcatProperties
<1>5. Len(x \o y) = L - 1
  BY <1>0, <1>2, <1>3, <1>4
<1>6. ASSUME NEW i \in 1 .. L - 1
      PROVE  (x \o y)[i] = IF i < c THEN table[i] ELSE table[i + 1]
  <2>1. i \in 1 .. Len(x) + Len(y) /\ i \in Nat
    BY <1>0, <1>2, <1>3
  <2>2. CASE i < c
    BY <1>0, <1>2, <1>4, <2>1, <2>2
  <2>3. CASE ~(i < c)
    <3>1. (x \o y)[i] = y[i - (c - 1)]
      BY <1>0, <1>2, <1>4, <2>1, <2>3
    <3>2. i - (c - 1) \in 1 .. L - c /\ c + (i - (c - 1)) = i + 1
      BY <1>0, <2>1, <2>3
    <3> QED
      BY <1>3, <2>3, <3>1, <3>2
  <2> QED
    BY <2>2, <2>3
<1> QED
  BY <1>1, <1>4, <1>5, <1>6 DEF L

\* A statement keeps the tables within any set of rows that has the new one.
LEMMA InsertRows ==
  ASSUME NEW S, rows \in [Logs -> Seq(S)], NEW l \in Logs, NEW d, NEW t,
         [date |-> d, temp |-> t, text |-> "date"] \in S, Insert(l, d, t)
  PROVE  /\ rows' \in [Logs -> Seq(S)]
         /\ rows'[l] = Append(rows[l], [date |-> d, temp |-> t, text |-> "date"])
         /\ \A k \in Logs \ {l} : rows'[k] = rows[k]
<1>1. Append(rows[l], [date |-> d, temp |-> t, text |-> "date"]) \in Seq(S)
  BY AppendProperties
<1> QED
  BY <1>1 DEF Insert

LEMMA DeleteRows ==
  ASSUME NEW S, rows \in [Logs -> Seq(S)], NEW l \in Logs, NEW i \in 1..Len(rows[l]),
         Delete(l, i)
  PROVE  /\ rows' \in [Logs -> Seq(S)]
         /\ rows'[l] = RemoveAt(rows[l], i) /\ Len(rows'[l]) = Len(rows[l]) - 1
         /\ \A k \in Logs \ {l} : rows'[k] = rows[k]
<1>1. RemoveAt(rows[l], i) \in Seq(S) /\ Len(RemoveAt(rows[l], i)) = Len(rows[l]) - 1
  BY RemoveAtFacts
<1> QED
  BY <1>1 DEF Delete

\* What is due next, or nothing.
LEMMA GoOnFacts ==
  ASSUME LoggerTypeOK, GoOn
  PROVE  \/ /\ lpc' = "loop" /\ log' = 1
            /\ \A k \in 2..3 : k > log => ~Due(k)
         \/ /\ lpc' = "average" /\ log' \in 2..3 /\ log' > log /\ Due(log')
            /\ \A k \in 2..3 : k > log /\ k < log' => ~Due(k)
<1> DEFINE due == {k \in 2..3 : k > log /\ Due(k)}
<1>1. CASE due = {}
  BY <1>1 DEF GoOn
<1>2. CASE due # {}
  <2>1. \E k \in due : \A j \in due : k <= j
    <3>1. CASE 2 \in due
      BY <3>1
    <3>2. CASE 2 \notin due
      BY <1>2, <3>2
    <3> QED
      BY <3>1, <3>2
  <2>2. lpc' = "average" /\ log' = CHOOSE k \in due : \A j \in due : k <= j
    BY <1>2 DEF GoOn
  <2>3. log' \in due /\ \A j \in due : log' <= j
    BY <2>1, <2>2
  <2>4. log \in 1..3
    BY DEF LoggerTypeOK, Logs
  <2> QED
    BY <2>2, <2>3, <2>4
<1> QED
  BY <1>1, <1>2

-----------------------------------------------------------------------------
LEMMA ReadingsType ==
  ASSUME RowsTypeOK, NEW l \in Logs, NEW from, NEW to
  PROVE  Readings(l, from, to) \in Temp
<1>1. rows[l] \in Seq(Row)
  BY DEF RowsTypeOK
<1>2. \A i \in DOMAIN rows[l] : rows[l][i] \in Row
  BY <1>1, ElementOfSeq, LenProperties
<1> QED
  BY <1>2 DEF Readings, Row, Temp

\* The types, and that an average is only taken for a log above another.
TypeInv ==
  /\ LoggerTypeOK
  /\ lpc = "average" => log > 1

LEMMA TypeInit == LoggerInit => TypeInv
<1> SUFFICES ASSUME LoggerInit PROVE TypeInv
  OBVIOUS
<1>1. rows \in [Logs -> Seq(Row)]
  BY TempLoggerAssumption DEF LoggerInit
<1>2. 0 \in Time /\ 1 \in Time
  BY DbLogAssumption DEF Time
<1> QED
  BY <1>1, <1>2 DEF LoggerInit, TypeInv, LoggerTypeOK, RowsTypeOK, Logs, Temp, NaN

LEMMA TypeStep ==
  ASSUME TypeInv, [LoggerNext]_loggerState
  PROVE  TypeInv'
<1>0. /\ LoggerTypeOK /\ rows \in [Logs -> Seq(Row)] /\ log \in 1..3
      /\ lpc = "average" => log > 1
  BY DEF TypeInv, LoggerTypeOK, RowsTypeOK, Logs
<1>g. ASSUME GoOn
      PROVE  lpc' \in {"loop", "average"} /\ log' \in Logs /\ (lpc' = "average" => log' > 1)
  <2>1. (lpc' = "loop" /\ log' = 1) \/ (lpc' = "average" /\ log' \in 2..3)
    BY <1>0, <1>g, GoOnFacts
  <2> QED
    BY <2>1 DEF Logs
<1>1. CASE PruneRow
  <2>1. cursor + 1 \in 1..Len(rows[log])
    BY <1>0, <1>1, LenProperties DEF PruneRow, More, LoggerTypeOK, Logs
  <2>2. rows' \in [Logs -> Seq(Row)]
    BY <1>0, <1>1, <2>1, DeleteRows DEF PruneRow, LoggerTypeOK
  <2> QED
    BY <1>0, <1>1, <2>2 DEF PruneRow, loggerVars, TypeInv, LoggerTypeOK, RowsTypeOK
<1>2. CASE InsertRow
  <2>1. [date |-> date, temp |-> temp, text |-> "date"] \in Row
    BY <1>0, <1>2 DEF InsertRow, Row, LoggerTypeOK
  <2>2. rows' \in [Logs -> Seq(Row)]
    BY <1>0, <1>2, <2>1, InsertRows DEF InsertRow, LoggerTypeOK
  <2>3. last' \in [2..3 -> Time]
    BY <1>0, <1>2 DEF InsertRow, LoggerTypeOK
  <2>4. lpc' \in {"loop", "average"} /\ log' \in Logs /\ (lpc' = "average" => log' > 1)
    BY <1>2, <1>g DEF InsertRow
  <2>5. UNCHANGED <<now, running, cursor, value, temp, date>>
    BY <1>2 DEF InsertRow
  <2> QED
    BY <1>0, <2>2, <2>3, <2>4, <2>5 DEF TypeInv, LoggerTypeOK, RowsTypeOK
<1>3. CASE InsertFails \/ AverageFails
  <2>1. lpc' \in {"loop", "average"} /\ log' \in Logs /\ (lpc' = "average" => log' > 1)
    BY <1>3, <1>g DEF InsertFails, AverageFails
  <2> QED
    BY <1>0, <1>3, <2>1 DEF InsertFails, AverageFails, TypeInv, LoggerTypeOK, RowsTypeOK
<1>4. CASE Average
  <2>1. log - 1 \in Logs
    BY <1>0, <1>4 DEF Average, Logs
  <2>2. temp' \in Temp
    BY <1>0, <1>4, <2>1, ReadingsType DEF Average, LoggerTypeOK
  <2> QED
    BY <1>0, <1>4, <2>2 DEF Average, TypeInv, LoggerTypeOK, RowsTypeOK
<1>5. CASE Read
  <2>1. value' \in Temp /\ temp' = value' /\ date' = now
    BY <1>0, <1>5 DEF Read, LoggerTypeOK, Temp
  <2> QED
    BY <1>0, <1>5, <2>1 DEF Read, TypeInv, LoggerTypeOK, RowsTypeOK, Logs
<1>6. CASE Advance
  BY <1>0, <1>6, DbLogAssumption DEF Advance, TypeInv, LoggerTypeOK, RowsTypeOK, Time
<1>7. CASE PruneDone
  BY <1>0, <1>7 DEF PruneDone, TypeInv, LoggerTypeOK, RowsTypeOK, Logs
<1>8. CASE PruneFails \/ SkipOld \/ Loop
  BY <1>0, <1>8 DEF PruneFails, SkipOld, Loop, TypeInv, LoggerTypeOK, RowsTypeOK
<1>9. CASE InterruptLogger \/ UNCHANGED loggerState
  BY <1>0, <1>9 DEF InterruptLogger, loggerState, loggerVars, TypeInv, LoggerTypeOK,
     RowsTypeOK
<1> QED
  BY <1>1, <1>2, <1>3, <1>4, <1>5, <1>6, <1>7, <1>8, <1>9 DEF LoggerNext, LoggerStep

LEMMA TypesKept == LoggerSpec => []TypeInv
<1>1. LoggerInit => TypeInv
  BY TypeInit
<1>2. TypeInv /\ [LoggerNext]_loggerState => TypeInv'
  BY TypeStep
<1> QED
  BY <1>1, <1>2, PTL DEF LoggerSpec

\* Every variable of the logger keeps its type, whatever fails and whatever an earlier
\* session left in the tables.
THEOREM LoggerTypes == LoggerSpec => []LoggerTypeOK
<1>1. TypeInv => LoggerTypeOK
  BY DEF TypeInv
<1> QED
  BY <1>1, TypesKept, PTL

\* A timer only moves on with a row in its log, whatever fails.
THEOREM TimersFollowRows == LoggerSpec => TimerMovesWithRow
<1> DEFINE Moves ==
      lpc # "skip" => \A k \in 2..3 : last'[k] # last[k] =>
        \E i \in DOMAIN rows'[k] : rows'[k][i].date = last'[k]
<1>1. TypeInv /\ [LoggerNext]_loggerState => [Moves]_loggerState
  <2> SUFFICES ASSUME TypeInv, LoggerNext, lpc # "skip",
                      NEW k \in 2..3, last'[k] # last[k]
               PROVE  \E i \in DOMAIN rows'[k] : rows'[k][i].date = last'[k]
    BY DEF loggerState
  <2>1. InsertRow
    BY DEF LoggerNext, LoggerStep, PruneRow, loggerVars, PruneFails, PruneDone, SkipOld, Loop,
       Read, Average, AverageFails, InsertFails, Advance, InterruptLogger
  <2>2. k = log /\ last'[k] = date
    BY <2>1 DEF InsertRow
  <2>3. /\ [date |-> date, temp |-> temp, text |-> "date"] \in Row
        /\ rows \in [Logs -> Seq(Row)] /\ log \in Logs
    BY <2>1 DEF InsertRow, Row, TypeInv, LoggerTypeOK, RowsTypeOK
  <2>4. rows'[k] = Append(rows[k], [date |-> date, temp |-> temp, text |-> "date"])
    BY <2>1, <2>2, <2>3, InsertRows DEF InsertRow
  <2>5. Len(rows[k]) + 1 \in DOMAIN rows'[k] /\ rows'[k][Len(rows[k]) + 1].date = date
    BY <2>2, <2>3, <2>4, AppendProperties, LenProperties
  <2> QED
    BY <2>2, <2>5
<1>2. LoggerSpec => [][Moves]_loggerState
  BY <1>1, TypesKept, PTL DEF LoggerSpec
<1> QED
  BY <1>2 DEF TimerMovesWithRow

-----------------------------------------------------------------------------
(* How old the readings of an average are.                                  *)

LEMMA SecsMonotone ==
  ASSUME NEW a \in Int, NEW b \in Int
  PROVE  /\ a <= b => Secs(a) <= Secs(b)
         /\ a + Second <= b => Secs(a) < Secs(b)
<1>1. Second \in Nat \ {0}
  BY DbLogAssumption
<1> QED
  BY <1>1, SMTT(30) DEF Secs

\* What has been averaged for a log, and not been written yet, is no older than the
\* periods of that log.
YoungMean ==
  lpc \in {"prune", "insert"} /\ log > 1 => \A t \in temp : date - t < Reach[log]

AgeInv == TypeInv /\ InReach(2, rows[2]) /\ InReach(3, rows[3]) /\ YoungMean

LEMMA ReachFacts ==
  /\ Reach[2] = Period[2] /\ Reach[3] = Period[2] + Period[3] - 1
  /\ Reach[1] = 1 /\ Period[2] \in Nat \ {0} /\ Period[3] \in Nat \ {0}
  BY TempLoggerAssumption DEF Reach

\* A select over a period finds rows that are younger than the period.
LEMMA MeanIsYoung ==
  ASSUME TypeInv, NEW l \in 2..3, InReach(l - 1, rows[l - 1]),
         NEW t \in Readings(l - 1, date - Period[l], date)
  PROVE  date - t < Reach[l]
<1>1. PICK i \in DOMAIN rows[l - 1] :
        Between(rows[l - 1][i], date - Period[l], date) /\ t \in rows[l - 1][i].temp
  BY DEF Readings
<1> DEFINE d == rows[l - 1][i].date
<1>2. i \in 1..Len(rows[l - 1]) /\ d \in Int /\ t \in Int /\ date \in Int
  <2>1. rows[l - 1] \in Seq(Row)
    BY DEF TypeInv, LoggerTypeOK, RowsTypeOK, Logs
  <2>2. i \in 1..Len(rows[l - 1]) /\ rows[l - 1][i] \in Row
    BY <1>1, <2>1, LenProperties, ElementOfSeq
  <2> QED
    BY <1>1, <2>2 DEF Row, Time, Temp, TypeInv, LoggerTypeOK
<1>3. d - t < Reach[l - 1]
  BY <1>1, <1>2 DEF InReach
<1>4. Secs(date - Period[l]) < Secs(d)
  BY <1>1 DEF Between
<1> HIDE DEF d
<1>5. date - Period[l] < d
  <2>1. date - Period[l] \in Int
    BY <1>2, ReachFacts
  <2>2. Secs(d) \in Int /\ Secs(date - Period[l]) \in Int
    BY <1>2, <2>1, DbLogAssumption DEF Secs
  <2>3. d <= date - Period[l] => Secs(d) <= Secs(date - Period[l])
    BY <1>2, <2>1, SecsMonotone
  <2> QED
    BY <1>2, <1>4, <2>1, <2>2, <2>3
<1>6. CASE l = 2
  BY <1>2, <1>3, <1>5, <1>6, ReachFacts
<1>7. CASE l = 3
  BY <1>2, <1>3, <1>5, <1>7, ReachFacts
<1> QED
  BY <1>6, <1>7

LEMMA AgeInit == LoggerInit => AgeInv
<1> SUFFICES ASSUME LoggerInit PROVE AgeInv
  OBVIOUS
<1>1. TypeInv /\ rows \in Leftover /\ lpc = "start"
  BY TypeInit DEF LoggerInit
<1> QED
  BY <1>1, TempLoggerAssumption DEF AgeInv, YoungMean

LEMMA AgeStep ==
  ASSUME AgeInv, InReach(1, rows[1]), [LoggerNext]_loggerState
  PROVE  AgeInv'
<1>0. /\ TypeInv /\ TypeInv' /\ YoungMean /\ log \in Logs
      /\ rows \in [Logs -> Seq(Row)]
      /\ \A l \in Logs : InReach(l, rows[l])
  BY TypeStep DEF AgeInv, TypeInv, LoggerTypeOK, RowsTypeOK, Logs
<1> SUFFICES YoungMean' /\ \A l \in 2..3 : InReach(l, rows'[l])
  BY <1>0 DEF AgeInv, InReach
<1>1. CASE PruneRow
  <2>1. cursor + 1 \in 1..Len(rows[log]) /\ Delete(log, cursor + 1) /\ UNCHANGED loggerVars
    BY <1>0, <1>1, LenProperties DEF PruneRow, More, TypeInv, LoggerTypeOK
  <2>2. /\ rows'[log] = RemoveAt(rows[log], cursor + 1)
        /\ \A k \in Logs \ {log} : rows'[k] = rows[k]
    BY <1>0, <2>1, DeleteRows
  <2>3. InReach(log, rows'[log])
    <3>1. /\ Len(rows'[log]) = Len(rows[log]) - 1 /\ Len(rows[log]) \in Nat
          /\ \A i \in 1 .. Len(rows[log]) - 1 :
               rows'[log][i] = IF i < cursor + 1 THEN rows[log][i] ELSE rows[log][i + 1]
      <4> DEFINE table == rows[log]
                 c == cursor + 1
      <4>1. table \in Seq(Row) /\ c \in 1..Len(table) /\ rows'[log] = RemoveAt(table, c)
        BY <1>0, <2>1, <2>2
      <4> HIDE DEF table, c
      <4>2. /\ Len(rows'[log]) = Len(table) - 1 /\ Len(table) \in Nat
            /\ \A i \in 1 .. Len(table) - 1 :
                 rows'[log][i] = IF i < c THEN table[i] ELSE table[i + 1]
        BY <4>1, RemoveAtFacts, LenProperties
      <4> QED
        BY <4>2 DEF table, c
    <3>2. \A i \in 1..Len(rows'[log]) : \E j \in 1..Len(rows[log]) : rows'[log][i] = rows[log][j]
      BY <3>1
    <3> QED
      BY <1>0, <3>2 DEF InReach
  <2>4. YoungMean'
    BY <1>0, <2>1 DEF YoungMean, loggerVars
  <2> QED
    BY <1>0, <2>2, <2>3, <2>4 DEF Logs
<1>2. CASE InsertRow
  <2> DEFINE row == [date |-> date, temp |-> temp, text |-> "date"]
  <2>1. /\ lpc = "insert" /\ Insert(log, date, temp) /\ GoOn
        /\ row \in Row
    BY <1>0, <1>2 DEF InsertRow, Row, TypeInv, LoggerTypeOK
  <2>2. /\ rows'[log] = Append(rows[log], row)
        /\ \A k \in Logs \ {log} : rows'[k] = rows[k]
    BY <1>0, <2>1, InsertRows
  <2>3. log > 1 => InReach(log, rows'[log])
    <3> SUFFICES ASSUME log > 1, NEW i \in 1..Len(rows'[log]), NEW t \in rows'[log][i].temp
                 PROVE  rows'[log][i].date - t < Reach[log]
      BY DEF InReach
    <3>1. /\ Len(rows'[log]) = Len(rows[log]) + 1 /\ Len(rows[log]) \in Nat
          /\ \A j \in 1..Len(rows[log]) : rows'[log][j] = rows[log][j]
          /\ rows'[log][Len(rows[log]) + 1] = row
      BY <1>0, <2>1, <2>2, AppendProperties, LenProperties
    <3>2. CASE i \in 1..Len(rows[log])
      BY <1>0, <3>1, <3>2 DEF InReach
    <3>3. CASE i = Len(rows[log]) + 1
      BY <1>0, <2>1, <3>1, <3>3 DEF YoungMean
    <3> QED
      BY <3>1, <3>2, <3>3
  <2>4. lpc' \in {"loop", "average"}
    BY <1>0, <2>1, GoOnFacts DEF TypeInv
  <2>5. ASSUME NEW l \in 2..3 PROVE InReach(l, rows'[l])
    <3>1. l \in Logs /\ l > 1
      BY DEF Logs
    <3> QED
      BY <1>0, <2>2, <2>3, <3>1
  <2> QED
    BY <2>4, <2>5 DEF YoungMean
<1>3. CASE Average
  <2>1. /\ lpc = "average" /\ log \in 2..3 /\ UNCHANGED <<rows, log, date>>
        /\ temp' = Readings(log - 1, date - Period[log], date)
    BY <1>0, <1>3 DEF Average, TypeInv, Logs
  <2>2. log - 1 \in Logs
    BY <2>1 DEF Logs
  <2>3. \A t \in temp' : date - t < Reach[log]
    BY <1>0, <2>1, <2>2, MeanIsYoung
  <2> QED
    BY <1>0, <2>1, <2>3 DEF YoungMean, Logs
<1>4. CASE Read
  BY <1>0, <1>4 DEF Read, YoungMean, Logs
<1>5. CASE InsertFails \/ AverageFails
  <2>1. lpc' \in {"loop", "average"} /\ UNCHANGED rows
    BY <1>0, <1>5, GoOnFacts DEF InsertFails, AverageFails, TypeInv
  <2> QED
    BY <1>0, <2>1 DEF YoungMean, Logs
<1>6. CASE PruneDone
  <2>1. UNCHANGED <<rows, temp, date>>
        /\ \/ lpc' = "insert" /\ lpc = "prune" /\ log' = log
           \/ lpc' \in {"start", "skip"}
    BY <1>6 DEF PruneDone, Pruning
  <2> QED
    BY <1>0, <2>1 DEF YoungMean, Logs
<1>7. CASE SkipOld \/ Loop
  <2>1. lpc' \in {"loop", "read", "done"} /\ UNCHANGED rows
    BY <1>7 DEF SkipOld, Loop
  <2> QED
    BY <1>0, <2>1 DEF YoungMean, Logs
<1>8. CASE PruneFails \/ Advance \/ InterruptLogger \/ UNCHANGED loggerState
  <2>1. UNCHANGED <<rows, lpc, log, temp, date>>
    BY <1>8 DEF PruneFails, Advance, InterruptLogger, loggerState, loggerVars
  <2> QED
    BY <1>0, <2>1 DEF YoungMean, Logs
<1> QED
  BY <1>1, <1>2, <1>3, <1>4, <1>5, <1>6, <1>7, <1>8 DEF LoggerNext, LoggerStep

\* As long as log 1 gets its readings at once, no average of log 2 holds one older than
\* a period of it, and none of log 3 one older than a period of each: whatever fails,
\* for any periods, any tick length and any recent averages of an earlier session.
THEOREM AveragesAreRecent == LoggerSpec => AverageIsRecent
<1> DEFINE Own == InReach(1, rows[1])
           Young == InReach(2, rows[2]) /\ InReach(3, rows[3])
<1>1. LoggerInit => AgeInv
  BY AgeInit
<1>2. AgeInv /\ Own /\ [LoggerNext]_loggerState => AgeInv'
  BY AgeStep
<1>3. AgeInv => Young
  BY DEF AgeInv
<1> HIDE DEF Own, Young
<1>4. LoggerSpec => ([]Own => []Young)
  BY <1>1, <1>2, <1>3, PTL DEF LoggerSpec
<1> QED
  BY <1>4 DEF Own, Young, AverageIsRecent

-----------------------------------------------------------------------------
(* While neither a delete nor a select fails, and no damaged row is found.  *)

Thorough ==
  /\ {"delete", "select"} \cap Faults = {}
  /\ \A tables \in Leftover : \A l \in Logs : \A i \in 1..Len(tables[l]) :
       tables[l][i].text # "damaged"

\* A row that pruning does not stop at.
Whole == {row \in Row : row.text # "damaged"}

\* Once a log has been pruned for the first time it holds a row at most.
OneRowEach == \A l \in Logs : (lpc = "start" => l < log) => Len(rows[l]) <= 1

Tidy ==
  /\ TypeInv
  /\ rows \in [Logs -> Seq(Whole)]
  /\ cursor = 0
  /\ OneRowEach
  /\ lpc = "insert" => Len(rows[log]) = 0

LEMMA TidyInit == ASSUME Thorough PROVE LoggerInit => Tidy
<1> SUFFICES ASSUME LoggerInit PROVE Tidy
  OBVIOUS
<1>1. TypeInv
  BY TypeInit
<1>2. ASSUME NEW l \in Logs PROVE rows[l] \in Seq(Whole)
  <2>1. rows[l] \in Seq(Row)
    BY <1>1, <1>2 DEF TypeInv, LoggerTypeOK, RowsTypeOK
  <2>2. \A i \in 1..Len(rows[l]) : rows[l][i].text # "damaged"
    BY <1>2 DEF LoggerInit, Thorough
  <2>3. \A i \in 1..Len(rows[l]) : rows[l][i] \in Whole
    BY <2>1, <2>2, ElementOfSeq DEF Whole
  <2>4. rows[l] = [i \in 1..Len(rows[l]) |-> rows[l][i]] /\ Len(rows[l]) \in Nat
    BY <2>1, LenProperties
  <2> QED
    BY <2>3, <2>4, IsASeq
<1>3. rows \in [Logs -> Seq(Whole)]
  BY <1>1, <1>2 DEF TypeInv, LoggerTypeOK, RowsTypeOK
<1>4. lpc = "start" /\ log = 1 /\ cursor = 0
  BY DEF LoggerInit
<1> QED
  BY <1>1, <1>3, <1>4 DEF Tidy, OneRowEach, Logs

LEMMA TidyStep ==
  ASSUME Tidy, Thorough, [LoggerNext]_loggerState
  PROVE  Tidy'
<1>0. TypeInv'
  BY TypeStep DEF Tidy
<1>1. /\ LoggerTypeOK /\ rows \in [Logs -> Seq(Whole)] /\ cursor = 0 /\ OneRowEach
      /\ lpc = "insert" => Len(rows[log]) = 0
      /\ log \in 1..3 /\ \A l \in Logs : Len(rows[l]) \in Nat
  BY LenProperties DEF Tidy, TypeInv, LoggerTypeOK, Logs
<1>2. CASE PruneRow
  <2>1. cursor + 1 \in 1..Len(rows[log]) /\ Delete(log, cursor + 1) /\ log \in Logs
    BY <1>1, <1>2 DEF PruneRow, More, Logs
  <2>2. /\ rows' \in [Logs -> Seq(Whole)] /\ Len(rows'[log]) = Len(rows[log]) - 1
        /\ \A k \in Logs \ {log} : rows'[k] = rows[k]
    BY <1>1, <2>1, DeleteRows
  <2>3. UNCHANGED loggerVars /\ lpc # "insert"
    BY <1>2 DEF PruneRow, Pruning
  <2>4. OneRowEach'
    <3>1. lpc' = lpc /\ log' = log /\ log \in Logs
      BY <1>1, <2>3 DEF loggerVars, Logs
    <3>2. \A l \in Logs : Len(rows'[l]) <= Len(rows[l]) /\ Len(rows'[l]) \in Int
      BY <1>1, <2>2, <3>1
    <3> QED
      BY <1>1, <3>1, <3>2 DEF OneRowEach
  <2> QED
    BY <1>0, <1>1, <2>2, <2>3, <2>4 DEF Tidy, loggerVars
<1>3. CASE PruneDone
  <2>1. ~More
    <3> SUFFICES ASSUME More PROVE FALSE
      OBVIOUS
    <3>1. cursor + 1 \in 1..Len(rows[log])
      BY <1>1 DEF More, Logs
    <3>2. Current \in Whole
      BY <1>1, <3>1, ElementOfSeq DEF Current, Logs
    <3> QED
      BY <1>3, <3>2 DEF PruneDone, Thorough, Whole
  <2>2. Len(rows[log]) = 0
    BY <1>1, <2>1 DEF More, Logs
  <2>3. /\ UNCHANGED rows /\ cursor' = 0 /\ lpc \in {"start", "prune"}
        /\ \/ lpc = "prune" /\ lpc' = "insert" /\ log' = log
           \/ lpc = "start" /\ log < 3 /\ lpc' = "start" /\ log' = log + 1
           \/ lpc = "start" /\ log = 3 /\ lpc' = "skip" /\ log' = 1
    BY <1>1, <1>3 DEF PruneDone, Pruning
  <2>4. OneRowEach'
    BY <1>1, <2>2, <2>3 DEF OneRowEach, Logs
  <2>5. lpc' = "insert" => Len(rows'[log']) = 0
    BY <2>2, <2>3
  <2> QED
    BY <1>0, <1>1, <2>3, <2>4, <2>5 DEF Tidy
<1>4. CASE InsertRow
  <2> DEFINE row == [date |-> date, temp |-> temp, text |-> "date"]
  <2>1. row \in Whole /\ log \in Logs /\ lpc = "insert" /\ Insert(log, date, temp)
        /\ cursor' = cursor
    BY <1>1, <1>4 DEF InsertRow, Whole, Row, LoggerTypeOK
  <2>2. /\ rows' \in [Logs -> Seq(Whole)] /\ rows'[log] = Append(rows[log], row)
        /\ \A k \in Logs \ {log} : rows'[k] = rows[k]
    BY <1>1, <2>1, InsertRows
  <2>3. Len(rows'[log]) = 1
    BY <1>1, <2>1, <2>2, AppendProperties
  <2>4. lpc' \in {"loop", "average"}
    BY <1>1, <1>4, GoOnFacts DEF InsertRow
  <2>5. OneRowEach'
    <3>1. lpc # "start" /\ lpc' # "start"
      BY <2>1, <2>4
    <3>2. \A l \in Logs : Len(rows[l]) <= 1
      BY <1>1, <3>1 DEF OneRowEach
    <3>3. \A l \in Logs : Len(rows'[l]) <= 1
      BY <1>1, <2>2, <2>3, <3>2
    <3> QED
      BY <3>1, <3>3 DEF OneRowEach
  <2> QED
    BY <1>0, <1>1, <2>1, <2>2, <2>4, <2>5 DEF Tidy
<1>5. CASE InsertFails \/ AverageFails
  <2>1. lpc' \in {"loop", "average"} /\ lpc # "start" /\ UNCHANGED <<rows, cursor>>
    BY <1>1, <1>5, GoOnFacts DEF InsertFails, AverageFails
  <2> QED
    BY <1>0, <1>1, <2>1 DEF Tidy, OneRowEach
<1>6. CASE PruneFails
  BY <1>6 DEF PruneFails, Thorough
<1>7. CASE Advance \/ InterruptLogger \/ UNCHANGED loggerState
  <2>1. UNCHANGED <<rows, cursor, lpc, log>>
    BY <1>7 DEF Advance, InterruptLogger, loggerState, loggerVars
  <2> QED
    BY <1>0, <1>1, <2>1 DEF Tidy, OneRowEach
<1>8. CASE SkipOld \/ Loop \/ Read \/ Average
  <2>1. UNCHANGED <<rows, cursor>> /\ lpc # "start" /\ lpc' \notin {"start", "insert"}
    BY <1>8 DEF SkipOld, Loop, Read, Average
  <2> QED
    BY <1>0, <1>1, <2>1 DEF Tidy, OneRowEach
<1> QED
  BY <1>2, <1>3, <1>4, <1>5, <1>6, <1>7, <1>8 DEF LoggerNext, LoggerStep

LEMMA TidyKept == ASSUME Thorough PROVE LoggerSpec => []Tidy
<1>1. LoggerInit => Tidy
  BY TidyInit
<1>2. Tidy /\ [LoggerNext]_loggerState => Tidy'
  BY TidyStep
<1> QED
  BY <1>1, <1>2, PTL DEF LoggerSpec

\* What the inverted flag of logger_db.c:157 comes to: as long as deletes and
\* selects work, a log never holds more than the one row written last.
THEOREM OneRowAtMost == ASSUME Thorough PROVE LoggerSpec => []OneRowEach
<1>1. Tidy => OneRowEach
  BY DEF Tidy
<1> QED
  BY <1>1, TidyKept, PTL

-----------------------------------------------------------------------------
(* While neither an insert nor a select nor a reading fails.                *)

Calm ==
  /\ {"insert", "select", "read"} \cap Faults = {}
  /\ Second <= Period[2] /\ Period[2] + Second <= Period[3]

\* Among some rows there is one of the tick d, with the reading of that tick in it.
Has(table, d) ==
  \E i \in DOMAIN table : table[i].date = d /\ table[i].text = "date" /\ d \in table[i].temp

Storing == lpc \in {"average", "prune", "insert"}

Clock == date <= now /\ \A k \in 2..3 : last[k] <= now

\* What has been done in this iteration of the loop, up to log.
Iteration ==
  Storing =>
    /\ value = {date}
    /\ \A k \in 2..3 : last[k] <= date
    /\ \A k \in 2..3 : k < log => ~Due(k)
    /\ log = 1 => lpc # "average" /\ temp = value
    /\ log > 1 => Has(rows[1], date) /\ Due(log)
    /\ lpc # "average" /\ log = 2 => date \in temp
    /\ lpc # "average" /\ log = 3 => last[2] \in temp

Idle == lpc \in {"loop", "read"} => \A k \in 2..3 : ~Due(k)

\* The row log2_last_write speaks of is there, unless there has been none since the
\* timers were set.
Recent ==
  lpc \in {"start", "skip"} \/ (lpc \in {"prune", "insert"} /\ log = 2)
    \/ last[2] <= last[3] \/ Has(rows[2], last[2])

CalmInv == TypeInv /\ Clock /\ Iteration /\ Idle /\ Recent

\* An average over a range that a row is in holds its reading.
LEMMA ReadingsHave ==
  ASSUME NEW k \in Logs, NEW d \in Int, NEW from \in Int, NEW to \in Int,
         Has(rows[k], d), from + Second <= d, d <= to
  PROVE  d \in Readings(k, from, to)
<1>1. PICK i \in DOMAIN rows[k] :
        rows[k][i].date = d /\ rows[k][i].text = "date" /\ d \in rows[k][i].temp
  BY DEF Has
<1>2. Secs(from) < Secs(d) /\ Secs(d) <= Secs(to)
  BY SecsMonotone
<1>3. Between(rows[k][i], from, to)
  BY <1>1, <1>2 DEF Between
<1> QED
  BY <1>1, <1>3 DEF Readings

\* At the third log the second is not due, so that what it was last written with is
\* young enough.
LEMMA SecondIsYoung ==
  ASSUME CalmInv, Calm, Storing, log = 3
  PROVE  /\ last[2] \in Int /\ last[2] > date - Period[2] /\ last[2] <= date
         /\ Has(rows[2], last[2])
<1>1. /\ Period[2] \in Nat /\ Period[3] \in Nat /\ Second \in Nat \ {0}
      /\ last[2] \in Nat /\ last[3] \in Nat /\ date \in Nat
  BY TempLoggerAssumption, DbLogAssumption DEF CalmInv, TypeInv, LoggerTypeOK, Time
<1>2. ~Due(2) /\ Due(3) /\ last[2] <= date
  BY DEF CalmInv, Iteration
<1>3. ~(last[2] <= last[3]) /\ last[2] > date - Period[2]
  BY <1>1, <1>2 DEF Due, Calm
<1> QED
  BY <1>1, <1>2, <1>3 DEF CalmInv, Recent, Storing

LEMMA CalmInit == LoggerInit => CalmInv
<1> SUFFICES ASSUME LoggerInit PROVE CalmInv
  OBVIOUS
<1>1. TypeInv
  BY TypeInit
<1> QED
  BY <1>1 DEF LoggerInit, CalmInv, Clock, Iteration, Storing, Idle, Recent

LEMMA CalmStep ==
  ASSUME CalmInv, Calm, [LoggerNext]_loggerState
  PROVE  CalmInv'
<1>0. TypeInv'
  BY TypeStep DEF CalmInv
<1>a. /\ Period[2] \in Nat \ {0} /\ Period[3] \in Nat \ {0} /\ Second \in Nat \ {0}
      /\ now \in Nat /\ date \in Nat /\ last \in [2..3 -> Time]
      /\ last[2] \in Nat /\ last[3] \in Nat /\ log \in 1..3
      /\ rows \in [Logs -> Seq(Row)]
  BY TempLoggerAssumption, DbLogAssumption DEF CalmInv, TypeInv, LoggerTypeOK, RowsTypeOK, Time, Logs
<1>b. Clock /\ Iteration /\ Idle /\ Recent
  BY DEF CalmInv
<1> SUFFICES Clock' /\ Iteration' /\ Idle' /\ Recent'
  BY <1>0 DEF CalmInv
<1>1. CASE PruneRow
  <2>1. cursor + 1 \in 1..Len(rows[log]) /\ Delete(log, cursor + 1)
    BY <1>1, <1>a, LenProperties DEF PruneRow, More, CalmInv, TypeInv, LoggerTypeOK, Logs
  <2>2. \A k \in Logs \ {log} : rows'[k] = rows[k]
    BY <1>a, <2>1, DeleteRows DEF Logs
  <2>3. UNCHANGED loggerVars /\ lpc \in {"start", "prune"}
    BY <1>1 DEF PruneRow, Pruning
  <2>4. log # 1 => rows'[1] = rows[1]
    BY <1>a, <2>2 DEF Logs
  <2>5. log # 2 => rows'[2] = rows[2]
    BY <1>a, <2>2 DEF Logs
  <2>6. Iteration'
    BY <1>b, <2>3, <2>4 DEF loggerVars, Iteration, Storing, Due
  <2>7. Recent'
    BY <1>b, <2>3, <2>5 DEF loggerVars, Recent
  <2> QED
    BY <1>b, <2>3, <2>6, <2>7 DEF loggerVars, Clock, Idle
<1>2. CASE PruneFails
  BY <1>2, <1>b DEF PruneFails, Pruning, Clock, Iteration, Storing, Idle, Recent, Due
<1>3. CASE PruneDone
  BY <1>3, <1>b DEF PruneDone, Pruning, Clock, Iteration, Storing, Idle, Recent, Due
<1>4. CASE SkipOld
  <2>1. /\ lpc' = "loop" /\ now' = now /\ date' = date
        /\ last'[2] = now /\ last'[3] = now
    BY <1>4 DEF SkipOld
  <2>2. \A k \in 2..3 : ~Due(k)'
    BY <1>a, <1>b, <2>1 DEF Due, Clock
  <2> QED
    BY <1>a, <1>b, <2>1, <2>2 DEF Clock, Iteration, Storing, Idle, Recent
<1>5. CASE Loop
  BY <1>5, <1>b DEF Loop, Clock, Iteration, Storing, Idle, Recent, Due
<1>6. CASE Read
  <2>1. /\ lpc = "read" /\ value' = {now} /\ temp' = value' /\ date' = now
        /\ lpc' = "prune" /\ log' = 1 /\ UNCHANGED <<rows, now, last>>
    BY <1>6 DEF Read, Calm
  <2> QED
    BY <1>a, <1>b, <2>1 DEF Clock, Iteration, Storing, Idle, Recent
<1>7. CASE Average
  <2>1. /\ lpc = "average" /\ lpc' = "prune" /\ log \in 2..3
        /\ temp' = Readings(log - 1, date - Period[log], date)
        /\ UNCHANGED <<rows, now, running, log, cursor, value, date, last>>
    BY <1>7, <1>a DEF Average, CalmInv, TypeInv
  <2>2. Has(rows[1], date)
    BY <1>b, <2>1 DEF Iteration, Storing
  <2>3. log = 2 => date \in temp'
    <3>1. date - Period[2] \in Int /\ date - Period[2] + Second <= date
      BY <1>a DEF Calm
    <3>2. date \in Readings(1, date - Period[2], date)
      BY <1>a, <2>2, <3>1, ReadingsHave DEF Logs
    <3> QED
      BY <2>1, <3>2
  <2>4. log = 3 => last[2] \in temp'
    <3> SUFFICES ASSUME log = 3 PROVE last[2] \in Readings(2, date - Period[3], date)
      BY <2>1
    <3>1. last[2] > date - Period[2] /\ last[2] <= date /\ Has(rows[2], last[2])
      BY <2>1, SecondIsYoung DEF Storing
    <3>2. date - Period[3] \in Int /\ date - Period[3] + Second <= last[2]
      <4> DEFINE older(a, p, q, s, x) == x > a - p /\ p + s <= q => a - q + s <= x
      <4>1. \A a, p, q, s, x \in Int : older(a, p, q, s, x)
        OBVIOUS
      <4>2. older(date, Period[2], Period[3], Second, last[2])
        BY <1>a, <4>1
      <4> QED
        BY <1>a, <3>1, <4>2 DEF Calm
    <3> QED
      BY <1>a, <3>1, <3>2, ReadingsHave DEF Logs
  <2>5. Iteration'
    BY <1>b, <2>1, <2>3, <2>4 DEF Iteration, Storing, Due
  <2> QED
    BY <1>b, <2>1, <2>5 DEF Clock, Idle, Recent
<1>8. CASE AverageFails
  BY <1>8 DEF AverageFails, Calm
<1>9. CASE InsertRow
  <2>1. /\ lpc = "insert" /\ Insert(log, date, temp) /\ GoOn
        /\ last' = [k \in 2..3 |-> IF k = log THEN date ELSE last[k]]
        /\ UNCHANGED <<now, running, cursor, value, temp, date>>
    BY <1>9 DEF InsertRow
  <2> DEFINE row == [date |-> date, temp |-> temp, text |-> "date"]
  <2>2. row \in Row
    BY <1>9 DEF InsertRow, Row, CalmInv, TypeInv, LoggerTypeOK
  <2>3. /\ rows'[log] = Append(rows[log], row)
        /\ \A k \in Logs \ {log} : rows'[k] = rows[k]
    <3> DEFINE S == Row
               l == log
    <3>1. rows \in [Logs -> Seq(S)] /\ l \in Logs /\ row \in S /\ Insert(l, date, temp)
      BY <1>a, <2>1, <2>2 DEF Logs
    <3> HIDE DEF S, l
    <3>2. /\ rows'[l] = Append(rows[l], row)
          /\ \A k \in Logs \ {l} : rows'[k] = rows[k]
      BY <3>1, InsertRows
    <3> QED
      BY <3>2 DEF l
  <2>4. date \in temp => Has(rows'[log], date)
    <3>1. /\ Len(rows[log]) + 1 \in DOMAIN rows'[log]
          /\ rows'[log][Len(rows[log]) + 1] = row
      BY <1>a, <2>2, <2>3, AppendProperties, LenProperties DEF Logs
    <3> QED
      BY <3>1 DEF Has
  <2>5. /\ value = {date} /\ last[2] <= date /\ last[3] <= date
        /\ log = 1 => temp = value
        /\ log = 2 => date \in temp
        /\ log > 1 => Has(rows[1], date)
        /\ \A k \in 2..3 : k < log => ~Due(k)
    BY <1>b, <2>1 DEF Iteration, Storing
  <2>6. /\ \A k \in 2..3 : k <= log => ~Due(k)'
        /\ \A k \in 2..3 : k > log => (Due(k)' <=> Due(k)) /\ last'[k] = last[k]
    BY <1>a, <2>1, <2>5 DEF Due
  <2>7. Has(rows'[1], date)
    <3>1. CASE log = 1
      BY <2>4, <2>5, <3>1
    <3>2. CASE log > 1
      BY <1>a, <2>3, <2>5, <3>2 DEF Logs
    <3> QED
      BY <1>a, <3>1, <3>2
  <2>8. last'[2] <= date' /\ last'[3] <= date'
    BY <1>a, <2>1, <2>5
  <2>9. Clock'
    BY <1>a, <1>b, <2>1, <2>8 DEF Clock
  <2>10. last'[2] <= last'[3] \/ Has(rows'[2], last'[2])
    <3>1. CASE log = 1
      BY <1>a, <1>b, <2>1, <2>3, <3>1 DEF Recent, Logs
    <3>2. CASE log = 2
      BY <2>1, <2>4, <2>5, <3>2
    <3>3. CASE log = 3
      BY <1>a, <2>1, <2>5, <3>3
    <3> QED
      BY <1>a, <3>1, <3>2, <3>3
  <2>11. \/ /\ lpc' = "loop" /\ log' = 1
            /\ \A k \in 2..3 : k > log => ~Due(k)
         \/ /\ lpc' = "average" /\ log' \in 2..3 /\ log' > log /\ Due(log')
            /\ \A k \in 2..3 : k > log /\ k < log' => ~Due(k)
    BY <2>1, GoOnFacts DEF CalmInv, TypeInv
  <2>12. Idle'
    BY <1>a, <2>6, <2>11 DEF Idle
  <2>13. Iteration'
    <3> SUFFICES ASSUME Storing' PROVE Iteration'
      BY DEF Iteration
    <3>1. /\ lpc' = "average" /\ log' \in 2..3 /\ log' > log /\ Due(log')
          /\ \A k \in 2..3 : k > log /\ k < log' => ~Due(k)
      BY <2>11 DEF Storing
    <3>2. \A k \in 2..3 : k < log' => ~Due(k)'
      BY <1>a, <2>6, <3>1
    <3>3. Due(log)'
      BY <1>a, <2>1, <2>6, <3>1 DEF Due
    <3> QED
      BY <2>1, <2>5, <2>7, <2>8, <3>1, <3>2, <3>3 DEF Iteration
  <2> QED
    BY <2>9, <2>10, <2>12, <2>13 DEF Recent
<1>10. CASE InsertFails
  <2>1. lpc = "insert" /\ temp = NaN
    BY <1>10 DEF InsertFails, Prepares, Calm
  <2>2. /\ log = 1 => date \in temp
        /\ log = 2 => date \in temp
        /\ log = 3 => last[2] \in temp
    BY <1>b, <2>1 DEF Iteration, Storing
  <2>3. log = 1 \/ log = 2 \/ log = 3
    BY <1>a
  <2> QED
    BY <2>1, <2>2, <2>3 DEF NaN
<1>11. CASE Advance
  BY <1>11, <1>a, <1>b DEF Advance, Clock, Iteration, Storing, Idle, Recent, Due
<1>12. CASE InterruptLogger \/ UNCHANGED loggerState
  BY <1>12, <1>b DEF InterruptLogger, loggerState, loggerVars, Clock, Iteration, Storing,
     Idle, Recent, Due
<1> QED
  BY <1>1, <1>2, <1>3, <1>4, <1>5, <1>6, <1>7, <1>8, <1>9, <1>10, <1>11, <1>12
     DEF LoggerNext, LoggerStep

LEMMA CalmKept == ASSUME Calm PROVE LoggerSpec => []CalmInv
<1>1. LoggerInit => CalmInv
  BY CalmInit
<1>2. CalmInv /\ [LoggerNext]_loggerState => CalmInv'
  BY CalmStep
<1> QED
  BY <1>1, <1>2, PTL DEF LoggerSpec

\* While neither an insert nor a select nor a reading fails, nothing is due when the
\* next reading is waited for, if a period of log 3 is a second longer than one of log 2.
THEOREM NothingIsLate == ASSUME Calm PROVE LoggerSpec => []NoBacklog
<1>1. CalmInv => NoBacklog
  BY DEF CalmInv, Idle, NoBacklog
<1> QED
  BY <1>1, CalmKept, PTL

\* Under the same conditions the reading that makes an average due is part of it.
THEOREM ReadingCounts == ASSUME Calm PROVE LoggerSpec => []AverageIncludesReading
<1>1. CalmInv => AverageIncludesReading
  BY DEF CalmInv, Iteration, Storing, AverageIncludesReading
<1> QED
  BY <1>1, CalmKept, PTL
=============================================================================
