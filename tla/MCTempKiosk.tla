---------------------------- MODULE MCTempKiosk ----------------------------
EXTENDS TempKiosk

\* PERIOD_LOG2, PERIOD_LOG3 and MAX_KEEP_LOG1 to MAX_KEEP_LOG3, scaled down: one
\* and two seconds of two ticks, and twice to four times as long.
Periods == 2 :> 2 @@ 3 :> 4
Keeps   == <<4, 8, 16>>

NoRows == [l \in Logs |-> <<>>]
OldRow == [date |-> 0, temp |-> {0}, text |-> "date"]
DayRow == [date |-> 0, temp |-> {0}, text |-> "day"]

\* An empty database, or two rows of an earlier session in log 1.
CleanStart == {NoRows, [NoRows EXCEPT ![1] = <<OldRow, OldRow>>]}

\* ... or a row somebody else wrote, and a sound one.
AnyStart == CleanStart \cup {[NoRows EXCEPT ![1] = <<DayRow, OldRow>>]}

\* No bounds given (FIRST_DATE to LAST_DATE), and a narrow range.
Everything == [from |-> -Second, to |-> MaxNow]
AllDates   == {Everything}
SomeDates  == {Everything, [from |-> 1, to |-> 3]}
=============================================================================
