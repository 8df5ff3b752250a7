---------------------------- MODULE MCFileLogger ----------------------------
EXTENDS FileLogger, TLC

\* PERIOD_LOG2, PERIOD_LOG3 and MAX_KEEP_LOG1 to MAX_KEEP_LOG3 are 10, 30, 20, 60
\* and 150 seconds; here small enough for logs 1 and 2 to wrap around.
Periods == 2 :> 1 @@ 3 :> 2
Keeps   == <<1, 1, 2>>

NoLines == [l \in Logs |-> <<>>]
Old     == [date |-> 0, val |-> "message"]
Broken  == [date |-> NoDate, val |-> "none"]

\* Log 1 has three lines behind one that cannot be read.  Started in second 2 or
\* later all of them go, and the logger begins with empty files.
AnyStart == {[NoLines EXCEPT ![1] = <<Broken, Old, Old, Old>>]}
=============================================================================
