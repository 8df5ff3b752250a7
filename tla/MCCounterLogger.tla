--------------------------- MODULE MCCounterLogger ---------------------------
EXTENDS CounterLogger, TLC
CONSTANTS m1, m2, m3, a1, a2, b1, b2, c1   \* the process runs
AllProcs == Mains \cup Copy1s \cup Copy2s \cup Clis
NoOwner == [c \in {} |-> m1]
OwnerC1 == [c \in {c1} |-> m1]
Symmetry == Permutations(Mains) \cup Permutations(Copy1s) \cup Permutations(Copy2s)
=============================================================================
