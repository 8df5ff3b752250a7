---------------------------- MODULE MCTempLogger ----------------------------
EXTENDS TempLogger

\* PERIOD_LOG2, PERIOD_LOG3 and MAX_KEEP_LOG1 to MAX_KEEP_LOG3 are 10, 30, 20, 60
\* and 150 seconds; here in ticks, in the same proportions.
Periods == 2 :> 4 @@ 3 :> 12
Keeps   == <<8, 24, 60>>

\* Smaller still, for the runs with faults.
FastPeriods == 2 :> 1 @@ 3 :> 3
FastKeeps   == <<2, 6, 15>>

NoRows    == [l \in Logs |-> <<>>]
OldRow    == [date |-> 0, temp |-> {0}, text |-> "date"]
BrokenRow == [date |-> 0, temp |-> {0}, text |-> "damaged"]

\* An empty database, or two rows of an earlier session in log 1.
CleanStart == {NoRows, [NoRows EXCEPT ![1] = <<OldRow, OldRow>>]}

\* ... or a row whose date column is damaged, followed by a sound one.
AnyStart == CleanStart \cup {[NoRows EXCEPT ![1] = <<BrokenRow, OldRow>>]}
=============================================================================
