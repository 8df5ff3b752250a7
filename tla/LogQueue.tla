------------------------------ MODULE LogQueue ------------------------------
(***************************************************************************)
(* What the log files of the temperature logger promise: each log is a     *)
(* queue of dated entries, oldest first, that outlives the logger.         *)
(***************************************************************************)
EXTENDS Integers, SequencesExt

CONSTANTS
  Logs,    \* the logs
  Keep,    \* Keep[l]: for how many seconds log l keeps an entry
  Vals,    \* what can be logged
  NoDate   \* the date of an invalid entry

VARIABLES
  now,     \* the clock
  phase,   \* is the logger "off", "starting", "on" or "stopping"?
  entries  \* entries[l]: the entries of log l

TooOld(l, entry) == entry.date = NoDate \/ now - entry.date > Keep[l]

Init == now \in Nat /\ phase = "off" /\ DOMAIN entries = Logs

Tick ==
  /\ now' = now + 1
  /\ UNCHANGED <<phase, entries>>

Start ==
  /\ phase = "off" /\ phase' = "starting"
  /\ UNCHANGED <<now, entries>>

\* An entry that is old or invalid goes, ...
Drop(l) ==
  /\ phase = "starting"
  /\ \E i \in 1..Len(entries[l]) :
       /\ TooOld(l, entries[l][i])
       /\ entries' = [entries EXCEPT ![l] = RemoveAt(@, i)]
  /\ UNCHANGED <<now, phase>>

\* ... and when the logger is ready all of them have gone.
Ready ==
  /\ phase = "starting" /\ phase' = "on"
  /\ \A l \in Logs : \A i \in 1..Len(entries[l]) : ~TooOld(l, entries[l][i])
  /\ UNCHANGED <<now, entries>>

\* A new entry is the last one.  At most the oldest makes room for it, and a log
\* only grows while its oldest entry is to be kept.
Write(l) ==
  /\ phase = "on"
  /\ \E val \in Vals, kept \in {entries[l], SubSeq(entries[l], 2, Len(entries[l]))} :
       /\ kept = entries[l] => entries[l] = <<>> \/ ~TooOld(l, Head(entries[l]))
       /\ entries' = [entries EXCEPT ![l] = Append(kept, [date |-> now, val |-> val])]
  /\ UNCHANGED <<now, phase>>

\* The logger is told to end, puts its logs in order, which changes no queue, and ends.
Finish ==
  /\ phase = "on" /\ phase' = "stopping"
  /\ UNCHANGED <<now, entries>>

Stop ==
  /\ phase = "stopping" /\ phase' = "off"
  /\ UNCHANGED <<now, entries>>

-----------------------------------------------------------------------------
(* What a logger that is killed leaves of a queue.                          *)

Same(l) == entries'[l] = entries[l]

\* The last n entries of a sequence, and then the others.
Turned(s, n) == [i \in 1..Len(s) |-> IF i <= n THEN s[Len(s) - n + i] ELSE s[i - n]]

\* All of it, but with some of the newest entries in front.
TurnedBack(l) ==
  \E n \in 0..Len(entries[l]) : entries'[l] = Turned(entries[l], n)

\* The same, but written over from the front by what belongs there: entries that had
\* been in front are lost, and as many others are there twice.
HalfTurned(l) ==
  \E n, k \in 0..Len(entries[l]) :
    entries'[l] = [i \in 1..Len(entries[l]) |->
                     IF i <= k THEN entries[l][i] ELSE Turned(entries[l], n)[i]]

\* All of it, with some that had been dropped, or are there twice, still in between.
Refilled(l) ==
  \E k \in 0..Len(entries[l]), n \in 0..Len(entries'[l]) :
    /\ Len(entries'[l]) = Len(entries[l]) + n
    /\ \A i \in 1..Len(entries[l]) :
         entries[l][i] = entries'[l][IF i <= k THEN i ELSE i + n]
    /\ \A i \in k + 1 .. k + n :
         \/ TooOld(l, entries'[l][i])
         \/ \E j \in 1..k : entries'[l][i] = entries[l][j]

\* Pruning loses nothing, and neither does the main loop; putting a log in order may
\* lose entries of that log.
Crash ==
  /\ phase # "off" /\ phase' = "off"
  /\ \/ /\ phase = "starting"
        /\ \E l \in Logs : Refilled(l) /\ \A k \in Logs \ {l} : Same(k)
     \/ /\ phase = "on"
        /\ \A l \in Logs : TurnedBack(l)
     \/ /\ phase = "stopping"
        /\ \E l \in Logs : HalfTurned(l) /\ \A k \in Logs \ {l} : TurnedBack(k)
  /\ DOMAIN entries' = Logs
  /\ UNCHANGED now

Next == Tick \/ Start \/ Ready \/ Finish \/ Stop \/ Crash \/ \E l \in Logs : Drop(l) \/ Write(l)

Spec == Init /\ [][Next]_<<now, phase, entries>>
=============================================================================
