--------------------------- MODULE CounterService ---------------------------
(***************************************************************************)
(* What the counter logger promises its users, without shared memory,      *)
(* semaphores or program points: one counter, changed by one atomic        *)
(* operation at a time, kept for as long as somebody uses it, and one      *)
(* leader among the mains.                                                 *)
(***************************************************************************)
EXTENDS Integers

CONSTANTS Mains, Copy1s, Copy2s, CliValues, WordLimit, NoLeader

VARIABLES
  users,    \* the instances that use the service
  leader,   \* the main that ticks, logs and starts copies, or NoLeader
  value,    \* the counter; 0 while nobody uses it
  doubled   \* the copy2 runs that have doubled and not yet halved

serviceVars == <<users, leader, value, doubled>>

Instances == Mains \cup Copy1s \cup Copy2s

I32(x) == ((x + WordLimit) % (2 * WordLimit)) - WordLimit
Half(x) == IF x >= 0 THEN x \div 2 ELSE -((-x) \div 2)

Init == users = {} /\ leader = NoLeader /\ value = 0 /\ doubled = {}

\* The first user is a main, and leads.
Found(m) ==
  /\ users = {}
  /\ users' = {m} /\ leader' = m
  /\ UNCHANGED <<value, doubled>>

Join(p) ==
  /\ users # {} /\ p \notin users
  /\ users' = users \cup {p}
  /\ UNCHANGED <<leader, value, doubled>>

\* A copy2 that leaves has halved what it doubled.  The last user takes the
\* counter with it.
Part(p) ==
  /\ p \in users \ doubled
  /\ users' = users \ {p}
  /\ leader' = IF leader = p THEN NoLeader ELSE leader
  /\ value' = IF users' = {} THEN 0 ELSE value
  /\ UNCHANGED doubled

\* Leadership is vacant: a main that is the only user left takes it.
Elect(m) ==
  /\ users = {m} /\ leader = NoLeader
  /\ leader' = m
  /\ UNCHANGED <<users, value, doubled>>

SetValue(v) == value' = v /\ UNCHANGED <<users, leader, doubled>>

Tick == leader # NoLeader /\ SetValue(I32(value + 1))

Add(c) == c \in users \cap Copy1s /\ SetValue(I32(value + 10))

Type == users # {} /\ \E v \in CliValues : SetValue(v)

Double(c) ==
  /\ c \in (users \cap Copy2s) \ doubled
  /\ value' = I32(value * 2)
  /\ doubled' = doubled \cup {c}
  /\ UNCHANGED <<users, leader>>

Halve(c) ==
  /\ c \in doubled
  /\ value' = Half(value)
  /\ doubled' = doubled \ {c}
  /\ UNCHANGED <<users, leader>>

Next ==
  \/ \E m \in Mains : Found(m) \/ Elect(m)
  \/ \E p \in Instances : Join(p) \/ Part(p)
  \/ Tick \/ Type
  \/ \E c \in Instances : Add(c) \/ Double(c) \/ Halve(c)

Spec == Init /\ [][Next]_serviceVars
=============================================================================
