------------------------ MODULE CounterServiceProofs ------------------------
(***************************************************************************)
(* The counter logger implements CounterService, for any number of         *)
(* instances, as long as nobody crashes and nobody opens its objects while *)
(* another one leaves.                                                     *)
(*                                                                         *)
(* The step that stores and posts is the abstract operation: what the      *)
(* section loaded is still the counter (ReadIsFresh), the segment stored   *)
(* to is the one the names are bound to (NamesInUse), and the count says   *)
(* who is alone (Counted).  Every other step changes nothing the users of  *)
(* the counter see.                                                        *)
(***************************************************************************)
EXTENDS CounterCrewProofs

\* What is known before and after a step.
Agreed == Known /\ CrewInv' /\ CrewAtPts /\ CrewAtPts'

HalvingPts == {"pause", "in_halve"}

\* q is as much of a user, and of a doubler, as it was.
SameRole(q) ==
  /\ pc'[q] \in CrewPts <=> pc[q] \in CrewPts
  /\ pc'[q] \in HalvingPts <=> pc[q] \in HalvingPts

SameCounter == Crew = {} \/ (shmName' = shmName /\ shm'[shmName].ctr = shm[shmName].ctr)

-----------------------------------------------------------------------------
(* The leader.                                                             *)

LEMMA LeaderIs ==
  ASSUME OneActing, NEW m \in Mains, Acting(m)
  PROVE  Leader = m
<1>1. \A n \in Mains : Acting(n) => n = m
  BY CounterLoggerAssumption DEF OneActing, Acting, Crew
<1> QED
  BY <1>1 DEF Leader

LEMMA NoLeaderIs ==
  ASSUME \A m \in Mains : ~Acting(m)
  PROVE  Leader = None
BY DEF Leader

LEMMA LeaderIsNext ==
  ASSUME OneActing', NEW m \in Mains, Acting(m)'
  PROVE  Leader' = m
<1>1. \A n \in Mains : Acting(n)' => n = m
  BY CounterLoggerAssumption DEF OneActing, Acting, Crew
<1> QED
  BY <1>1 DEF Leader

LEMMA NoLeaderIsNext ==
  ASSUME \A m \in Mains : ~Acting(m)'
  PROVE  Leader' = None
BY DEF Leader

LEMMA SameLeader ==
  ASSUME OneActing, OneActing', \A m \in Mains : Acting(m)' <=> Acting(m)
  PROVE  Leader' = Leader
<1>1. CASE \E m \in Mains : Acting(m)
  BY <1>1, LeaderIs, LeaderIsNext
<1>2. CASE \A m \in Mains : ~Acting(m)
  BY <1>2, NoLeaderIs, NoLeaderIsNext
<1> QED
  BY <1>1, <1>2

\* Mains act when they are in the crew.
LEMMA ActingIs ==
  ASSUME NEW m \in Mains
  PROVE  /\ Acting(m) <=> m \in Crew /\ origin[m]
         /\ Acting(m)' <=> m \in Crew' /\ origin'[m]
BY CounterLoggerAssumption DEF Acting, Crew

-----------------------------------------------------------------------------
(* Steps nobody sees.                                                      *)

LEMMA Unseen ==
  ASSUME Agreed, \A q \in Procs : SameRole(q), SameCounter,
         \A q \in Crew : origin'[q] = origin[q]
  PROVE  UNCHANGED Service!serviceVars
<1>1. Crew' = Crew
  BY DEF Agreed, CrewAtPts, SameRole
<1>2. Leader' = Leader
  BY <1>1, ActingIs, SameLeader DEF Agreed, Known, CrewInv
<1>3. Counter' = Counter
  BY <1>1 DEF Counter, SameCounter
<1>4. Doubled' = Doubled
  BY CounterLoggerAssumption DEF Doubled, SameRole, HalvingPts
<1> QED
  BY <1>1, <1>2, <1>3, <1>4 DEF Service!serviceVars

\* One process moves between points of the same role.
LEMMA UnseenMove ==
  ASSUME Agreed, NEW p \in Procs, NEW from, NEW to, Goto(p, from, to),
         to \in CrewPts <=> from \in CrewPts,
         to \in HalvingPts <=> from \in HalvingPts,
         SameCounter, \A q \in Crew : origin'[q] = origin[q]
  PROVE  UNCHANGED Service!serviceVars
<1>1. pc[p] = from /\ pc'[p] = to /\ \A q \in Procs : q # p => pc'[q] = pc[q]
  BY DEF Goto, Agreed, Known, IInv, TypeOK
<1>2. \A q \in Procs : SameRole(q)
  BY <1>1 DEF SameRole
<1> QED
  BY <1>2, Unseen

\* A main starts a child.
LEMMA UnseenChild ==
  ASSUME Agreed, NEW m \in Procs, NEW child \in Procs, NEW from \in CrewPts, NEW to \in CrewPts,
         StartChild(m, child, from, to), from \notin HalvingPts, to \notin HalvingPts,
         UNCHANGED <<memVars, origin>>
  PROVE  UNCHANGED Service!serviceVars
<1>1. /\ pc \in [Procs -> Points] /\ pc[m] = from /\ pc[child] = "idle"
      /\ pc' = [pc EXCEPT ![m] = to, ![child] = "exists?"]
  BY DEF StartChild, Agreed, Known, IInv, TypeOK
<1>2. {"idle", "exists?"} \cap (CrewPts \cup HalvingPts) = {}
  BY DEF CrewPts, RegisteredPts, RunningPts, HalvingPts
<1>3. \A q \in Procs : SameRole(q)
  BY <1>1, <1>2 DEF SameRole
<1> QED
  BY <1>3, Unseen DEF SameCounter, memVars

\* Waits and loads: the segment has its pages.
LEMMA UnseenEnter ==
  ASSUME Agreed, NEW p \in Procs, NEW from \in WithSem, NEW section, NEW word,
         Enter(p, from, section, word),
         section \in CrewPts <=> from \in CrewPts,
         section \in HalvingPts <=> from \in HalvingPts
  PROVE  UNCHANGED Service!serviceVars
<1>1. shm[shmOf[p]].sized
  BY DEF Enter, Agreed, Known, CrewInv, Sized, WithShm, WithSem
<1>2. Goto(p, from, section) /\ UNCHANGED <<shmName, shm, origin>>
  BY <1>1 DEF Enter
<1> QED
  BY <1>2, UnseenMove DEF SameCounter

-----------------------------------------------------------------------------
(* Opening and registering.                                                *)

LEMMA UnseenOpen ==
  ASSUME Agreed, NEW p \in Procs, Open(p), ~LeaveRegister(p)
  PROVE  UNCHANGED Service!serviceVars
<1>1. PICK to : /\ Goto(p, pc[p], to) /\ pc[p] \in OpeningPts \ {"in_register"}
                /\ to \notin CrewPts \cup HalvingPts
  <2> USE DEF Goto, CrewPts, RegisteredPts, RunningPts, OpeningPts, HalvingPts
  <2>1. CASE Exists(p) \/ ExistsNot(p) \/ Unprobe(p)
    BY <2>1 DEF Exists, ExistsNot, Unprobe
  <2>2. CASE ExistsAgain(p) \/ ExistsNotAgain(p) \/ UnprobeAgain(p)
    BY <2>2 DEF ExistsAgain, ExistsNotAgain, UnprobeAgain
  <2>3. CASE OpenShm(p) \/ OpenShmDenied(p) \/ Truncate(p)
    BY <2>3 DEF OpenShm, OpenShmDenied, Truncate
  <2>4. CASE OpenSem(p)
    <3>1. \E to \in {"prompt", "init", "register"} : Goto(p, "semopen", to)
      BY <2>4 DEF OpenSem
    <3> QED
      BY <3>1
  <2>5. CASE InitWords(p) \/ EnterRegister(p)
    <3>1. \E from \in {"init", "register"} : \E to \in {"register", "in_register", "dead"} : Goto(p, from, to)
      BY <2>5 DEF InitWords, EnterRegister, Enter
    <3> QED
      BY <3>1
  <2> QED
    BY <2>1, <2>2, <2>3, <2>4, <2>5 DEF Open
<1>2. pc[p] \notin CrewPts \cup HalvingPts
  BY <1>1 DEF CrewPts, RegisteredPts, RunningPts, OpeningPts, HalvingPts
<1>3. \A q \in Crew : origin'[q] = origin[q]
  <2>1. p \notin Crew
    BY <1>2 DEF Agreed, CrewAtPts
  <2> QED
    <3>1. origin' = origin \/ origin' = [origin EXCEPT ![p] = p \in Mains]
      BY DEF Open, Exists, ExistsNot, Unprobe, ExistsAgain, ExistsNotAgain, UnprobeAgain, OpenShm,
             OpenShmDenied, Truncate, OpenSem, InitWords, EnterRegister, Enter, KeepLocals
    <3> QED
      BY <2>1, <3>1 DEF Agreed, Known, IInv, TypeOK, Crew
<1>4. SameCounter
  <2> SUFFICES ASSUME Crew # {} PROVE shmName' = shmName /\ shm' = shm
    BY DEF SameCounter
  <2>1. Joining(p) /\ shmName \in Procs
    <3>1. PICK m \in Crew : m \in Procs /\ pc[m] \in WithShm /\ shmName = shmOf[m]
      BY DEF Agreed, CrewAtPts, Known, CrewInv, NamesInUse, Crew, CrewPts, RegisteredPts, RunningPts, WithShm, WithSem, LeavingPts
    <3>2. shmName \in Procs
      BY <3>1 DEF Agreed, Known, IInv, Handles
    <3> QED
      BY <1>1, <3>2 DEF Agreed, Known, CrewInv, Settled, Opening
  <2>2. /\ ~ExistsNot(p) /\ ~Unprobe(p) /\ ~ExistsNotAgain(p) /\ ~UnprobeAgain(p)
        /\ ~Truncate(p) /\ ~InitWords(p)
    BY <2>1, CrossMemAssumption
       DEF Joining, ExistsNot, Unprobe, ExistsNotAgain, UnprobeAgain, Truncate, InitWords, ProbeCreate, Goto
  <2>3. CASE Exists(p) \/ ExistsAgain(p) \/ OpenShmDenied(p)
    BY <2>3 DEF Exists, ExistsAgain, OpenShmDenied, ProbeFound, ShmOpenDenied, memVars
  <2>4. CASE OpenShm(p)
    BY <2>1, <2>4, CrossMemAssumption DEF OpenShm, ShmOpen, memVars
  <2>5. CASE OpenSem(p)
    BY <2>5 DEF OpenSem, SemOpen, memVars
  <2>6. CASE EnterRegister(p)
    BY <2>6 DEF EnterRegister, Enter
  <2> QED
    BY <2>2, <2>3, <2>4, <2>5, <2>6 DEF Open
<1> QED
  BY <1>1, <1>2, <1>3, <1>4, UnseenMove

\* The first main founds the service and leads; whoever comes later joins it.
LEMMA RegisterJoins ==
  ASSUME Agreed, NEW p \in Procs, LeaveRegister(p)
  PROVE  (p \in Mains /\ Service!Found(p)) \/ (p \in Service!Instances /\ Service!Join(p))
<1> USE DEF Agreed, Known
<1>1. PICK to \in {"spawn", "work"} :
        /\ pc[p] = "in_register" /\ pc' = [pc EXCEPT ![p] = to]
        /\ Store(p, "ref", reg[p] + 1)
        /\ UNCHANGED <<shmName, semName, origin, shmOf, semOf>>
  BY DEF LeaveRegister, Leave, Goto
<1>2. /\ pc'[p] = to /\ \A q \in Procs : q # p => pc'[q] = pc[q]
      /\ reg[p] \in Int
  BY <1>1 DEF IInv, TypeOK
<1>3. InSection(p) /\ Opening(p)
  BY <1>1 DEF InSection, Sections, RefSections, Opening, OpeningPts
<1>4. shmOf[p] = shmName /\ shmName \in Procs
  <2>1. shmOf[p] \in Procs
    BY <1>1 DEF IInv, Handles, WithShm, WithSem
  <2> QED
    BY <1>1, <1>3, <2>1 DEF CrewInv, NoCrew, Settled, Founding, Joining, OwnShmPts
<1>5. Crew' = Crew \cup {p} /\ p \notin Crew
  <2>1. to \in CrewPts /\ pc[p] \notin CrewPts
    BY <1>1 DEF CrewPts, RegisteredPts, RunningPts
  <2> QED
    BY <1>2, <2>1 DEF CrewAtPts
<1>6. shm'[shmName].ctr = shm[shmName].ctr
  BY <1>1, <1>2, <1>4, StoreRef
<1>7. Doubled' = Doubled
  BY <1>1, <1>2, CounterLoggerAssumption DEF Doubled
<1>8. CASE Crew = {}
  <2>1. p \in Mains /\ origin[p] /\ shmName = p /\ shm[p].ctr = 0
    BY <1>1, <1>3, <1>8 DEF CrewInv, NoCrew, Founding, OwnShmPts
  <2>2. Leader' = p
    BY <1>1, <1>5, <2>1, ActingIs, LeaderIsNext DEF CrewInv
  <2>3. Counter = 0 /\ Counter' = 0
    BY <1>1, <1>5, <1>6, <1>8, <2>1 DEF Counter
  <2> QED
    BY <1>5, <1>7, <1>8, <2>1, <2>2, <2>3 DEF Service!Found
<1>9. CASE Crew # {}
  <2>1. ~origin[p]
    BY <1>3, <1>9 DEF CrewInv, Settled, Joining
  <2>2. Leader' = Leader
    BY <1>1, <1>5, <2>1, ActingIs, SameLeader DEF CrewInv
  <2>3. Counter' = Counter
    BY <1>1, <1>5, <1>6, <1>9 DEF Counter
  <2>4. p \in Mains \cup Copy1s \cup Copy2s
    <3>1. p \notin Clis
      BY <1>1 DEF Kinds, CliPts, NoSemYet, EndedPts
    <3> QED
      BY <3>1, CounterLoggerAssumption
  <2> QED
    BY <1>5, <1>7, <1>9, <2>2, <2>3, <2>4 DEF Service!Join, Service!Instances
<1> QED
  BY <1>8, <1>9

\* A decrement is a departure, and the last one ends the service.
LEMMA DropParts ==
  ASSUME Agreed, NEW p \in Procs, LeaveDrop(p)
  PROVE  p \in Service!Instances /\ Service!Part(p)
<1> USE DEF Agreed, Known
<1>1. PICK to \in {"unlink_sem", "done"} :
        /\ pc[p] = "in_drop" /\ pc' = [pc EXCEPT ![p] = to]
        /\ Store(p, "ref", reg[p] - 1)
        /\ UNCHANGED <<shmName, semName, origin, shmOf, semOf>>
  BY DEF LeaveDrop, Leave, Goto
<1>2. /\ pc'[p] = to /\ \A q \in Procs : q # p => pc'[q] = pc[q]
      /\ reg[p] \in Int
  BY <1>1 DEF IInv, TypeOK
<1>3. p \in Crew /\ Crew' = Crew \ {p}
  <2>1. to \notin CrewPts /\ pc[p] \in CrewPts
    BY <1>1 DEF CrewPts, RegisteredPts, RunningPts
  <2> QED
    BY <1>2, <2>1 DEF CrewAtPts
<1>4. shmOf[p] = shmName /\ shmName \in Procs
  BY <1>1, <1>3 DEF CrewInv, NamesInUse, Crew, IInv, Handles, WithShm, WithSem
<1>5. shm'[shmName].ctr = shm[shmName].ctr
  BY <1>1, <1>2, <1>4, StoreRef
<1>6. Doubled' = Doubled /\ p \notin Doubled
  BY <1>1, <1>2, CounterLoggerAssumption DEF Doubled
<1>7. Counter' = IF Crew' = {} THEN 0 ELSE Counter
  BY <1>1, <1>3, <1>5 DEF Counter
<1>8. p \in Mains \cup Copy1s \cup Copy2s
  BY <1>3, CounterLoggerAssumption DEF Crew, Registered
<1>9. Leader' = IF Leader = p THEN None ELSE Leader
  <2>1. CASE Acting(p) /\ p \in Mains
    <3>1. \A m \in Mains : ~Acting(m)'
      BY <1>1, <1>3, <2>1, ActingIs DEF CrewInv, OneActing
    <3> QED
      BY <2>1, <3>1, LeaderIs, NoLeaderIsNext DEF CrewInv
  <2>2. CASE ~(Acting(p) /\ p \in Mains)
    <3>1. \A m \in Mains : Acting(m)' <=> Acting(m)
      BY <1>1, <1>3, <2>2, ActingIs
    <3>2. Leader # p
      <4>1. CASE \E m \in Mains : Acting(m)
        BY <2>2, <4>1, LeaderIs DEF CrewInv
      <4>2. CASE \A m \in Mains : ~Acting(m)
        BY <4>2, NoLeaderIs, CrossMemAssumption
      <4> QED
        BY <4>1, <4>2
    <3> QED
      BY <3>1, <3>2, SameLeader DEF CrewInv
  <2> QED
    BY <2>1, <2>2
<1> QED
  BY <1>3, <1>6, <1>7, <1>8, <1>9 DEF Service!Part, Service!Instances

-----------------------------------------------------------------------------
(* The operations on the counter.                                          *)

\* Storing a counter touches nothing else.
LEMMA StoreCtr ==
  ASSUME IInv, NEW p \in Procs, shmOf[p] \in Procs, NEW v \in Int, Store(p, "ctr", v)
  PROVE  /\ shm'[shmOf[p]].ctr = v
         /\ \A o \in Procs : o # shmOf[p] => shm'[o] = shm[o]
<1>1. shm' = [shm EXCEPT ![shmOf[p]] = [shm[shmOf[p]] EXCEPT !.ctr = v]]
  BY DEF Store
<1>2. shm \in [Procs -> Segment]
  BY DEF IInv, TypeOK, MemTypeOK
<1>3. /\ shm'[shmOf[p]] = [shm[shmOf[p]] EXCEPT !.ctr = v] /\ shm[shmOf[p]] \in Segment
      /\ \A o \in Procs : o # shmOf[p] => shm'[o] = shm[o]
  BY <1>1, <1>2
<1> HIDE <1>1
<1>4. \A seg \in Segment : [seg EXCEPT !.ctr = v].ctr = v
  BY DEF Segment
<1> QED
  BY <1>3, <1>4

\* A section of the crew that stores to the counter: what it loaded is the
\* counter before, what it stores is the counter after.
LEMMA CtrStored ==
  ASSUME Agreed, NEW p \in Procs, NEW section \in CtrSections \ {"in_set"}, NEW to \in CrewPts,
         NEW v \in Int, Leave(p, section, to), Store(p, "ctr", v), UNCHANGED origin
  PROVE  /\ p \in Crew /\ Crew' = Crew /\ Leader' = Leader
         /\ Counter = reg[p] /\ Counter' = v
         /\ pc[p] = section /\ pc'[p] = to /\ \A q \in Procs : q # p => pc'[q] = pc[q]
<1> USE DEF Agreed, Known
<1>1. /\ pc[p] = section /\ pc'[p] = to /\ \A q \in Procs : q # p => pc'[q] = pc[q]
      /\ UNCHANGED <<shmName, shmOf>>
  BY DEF Leave, Goto, IInv, TypeOK
<1>2. p \in Crew /\ Crew' = Crew
  <2>1. section \in CrewPts
    BY DEF CrewPts, RegisteredPts, RunningPts, CtrSections
  <2> QED
    BY <1>1, <2>1 DEF CrewAtPts
<1>3. shmOf[p] = shmName /\ shmOf[p] \in Procs
  BY <1>1, <1>2 DEF CrewInv, NamesInUse, Crew, IInv, Handles, WithShm, WithSem, Sections, CtrSections
<1>4. Counter = reg[p]
  <2>1. reg[p] = shm[shmOf[p]].ctr
    BY <1>1 DEF CrewInv, ReadIsFresh, InSection, Sections, Word, CtrSections, RefSections
  <2> QED
    BY <1>2, <1>3, <2>1 DEF Counter
<1>5. Counter' = v
  BY <1>1, <1>2, <1>3, StoreCtr DEF Counter
<1>6. Leader' = Leader
  BY <1>2, ActingIs, SameLeader DEF CrewInv
<1> QED
  BY <1>1, <1>2, <1>4, <1>5, <1>6

LEMMA TickTicks ==
  ASSUME Agreed, NEW m \in Procs, LeaveTick(m)
  PROVE  Service!Tick
<1>1. I32(reg[m] + 1) \in Int /\ pc[m] = "in_tick"
  BY I32Type DEF Agreed, Known, IInv, TypeOK, LeaveTick, Leave, Goto
<1>2. /\ m \in Crew /\ UNCHANGED <<Crew, Leader>> /\ Counter' = I32(Counter + 1)
      /\ pc'[m] = "log" /\ \A q \in Procs : q # m => pc'[q] = pc[q]
  BY <1>1, CtrStored DEF LeaveTick, CtrSections, CrewPts, RegisteredPts, RunningPts
<1>3. Leader # None
  <2>1. m \in Mains /\ Acting(m)
    BY <1>1, <1>2, ActingIs DEF Agreed, Known, Kinds, ActingPts, MainPts
  <2> QED
    BY <2>1, LeaderIs, CounterLoggerAssumption, CrossMemAssumption DEF Agreed, Known, CrewInv
<1>4. Doubled' = Doubled
  BY <1>1, <1>2, CounterLoggerAssumption DEF Doubled
<1> QED
  BY <1>2, <1>3, <1>4 DEF Service!Tick, Service!SetValue, I32, Service!I32

LEMMA AddAdds ==
  ASSUME Agreed, NEW c \in Procs, LeaveAdd(c)
  PROVE  c \in Service!Instances /\ Service!Add(c)
<1>1. I32(reg[c] + 10) \in Int /\ pc[c] = "in_add"
  BY I32Type DEF Agreed, Known, IInv, TypeOK, LeaveAdd, Leave, Goto
<1>2. /\ c \in Crew /\ UNCHANGED <<Crew, Leader>> /\ Counter' = I32(Counter + 10)
      /\ pc'[c] = "drop" /\ \A q \in Procs : q # c => pc'[q] = pc[q]
  BY <1>1, CtrStored DEF LeaveAdd, CtrSections, CrewPts, RegisteredPts, RunningPts
<1>3. c \in Copy1s
  BY <1>1 DEF Agreed, Known, Kinds
<1>4. Doubled' = Doubled
  BY <1>1, <1>2, CounterLoggerAssumption DEF Doubled
<1> QED
  BY <1>2, <1>3, <1>4 DEF Service!Add, Service!SetValue, Service!Instances, I32, Service!I32

LEMMA DoubleDoubles ==
  ASSUME Agreed, NEW c \in Procs, LeaveDouble(c)
  PROVE  c \in Service!Instances /\ Service!Double(c)
<1>1. I32(reg[c] * 2) \in Int /\ pc[c] = "in_double"
  BY I32Type DEF Agreed, Known, IInv, TypeOK, LeaveDouble, Leave, Goto
<1>2. /\ c \in Crew /\ UNCHANGED <<Crew, Leader>> /\ Counter' = I32(Counter * 2)
      /\ pc'[c] = "pause" /\ \A q \in Procs : q # c => pc'[q] = pc[q]
  BY <1>1, CtrStored DEF LeaveDouble, CtrSections, CrewPts, RegisteredPts, RunningPts
<1>3. c \in Copy2s
  BY <1>1 DEF Agreed, Known, Kinds, DoublePts
<1>4. Doubled' = Doubled \cup {c} /\ c \notin Doubled
  BY <1>1, <1>2, <1>3, CounterLoggerAssumption DEF Doubled
<1> QED
  BY <1>2, <1>3, <1>4 DEF Service!Double, Service!Instances, I32, Service!I32

LEMMA HalveHalves ==
  ASSUME Agreed, NEW c \in Procs, LeaveHalve(c)
  PROVE  c \in Service!Instances /\ Service!Halve(c)
<1>1. Half(reg[c]) \in Int /\ pc[c] = "in_halve"
  BY HalfType DEF Agreed, Known, IInv, TypeOK, LeaveHalve, Leave, Goto
<1>2. /\ c \in Crew /\ UNCHANGED <<Crew, Leader>> /\ Counter' = Half(Counter)
      /\ pc'[c] = "drop" /\ \A q \in Procs : q # c => pc'[q] = pc[q]
  BY <1>1, CtrStored DEF LeaveHalve, CtrSections, CrewPts, RegisteredPts, RunningPts
<1>3. c \in Copy2s
  BY <1>1 DEF Agreed, Known, Kinds, DoublePts
<1>4. Doubled' = Doubled \ {c} /\ c \in Doubled
  BY <1>1, <1>2, <1>3, CounterLoggerAssumption DEF Doubled
<1> QED
  BY <1>2, <1>3, <1>4 DEF Service!Halve, Service!Instances, Half, Service!Half

\* A CLI may still hold the segment of a crew that has left: then nobody sees
\* what it stores.
LEMMA SetTypes ==
  ASSUME Agreed, NEW c \in Procs, LeaveSet(c)
  PROVE  Service!Type \/ UNCHANGED Service!serviceVars
<1> USE DEF Agreed, Known
<1>1. PICK v \in CliValues : Store(c, "ctr", v)
  BY DEF LeaveSet
<1>2. /\ Goto(c, "in_set", "prompt") /\ UNCHANGED <<shmName, shmOf, origin>>
      /\ v \in Int
  BY CounterLoggerAssumption DEF LeaveSet, Leave
<1>3. shmOf[c] \in Procs
  BY <1>2 DEF Goto, IInv, Handles, WithShm, WithSem, Sections, CtrSections
<1>4. "in_set" \notin CrewPts \cup HalvingPts /\ "prompt" \notin CrewPts \cup HalvingPts
  BY DEF CrewPts, HalvingPts
<1>5. CASE Crew = {} \/ shmName # shmOf[c]
  <2>1. SameCounter
    <3>1. Crew # {} => shmName \in Procs
      BY DEF CrewAtPts, CrewInv, NamesInUse, Crew, CrewPts, RegisteredPts, RunningPts, WithShm, WithSem, LeavingPts, IInv, Handles
    <3> QED
      BY <1>1, <1>2, <1>3, <1>5, <3>1, StoreCtr DEF SameCounter
  <2> QED
    BY <1>2, <1>4, <2>1, UnseenMove
<1>6. CASE Crew # {} /\ shmName = shmOf[c]
  <2>1. /\ pc[c] = "in_set" /\ pc'[c] = "prompt" /\ \A q \in Procs : q # c => pc'[q] = pc[q]
    BY <1>2 DEF Goto, IInv, TypeOK
  <2>2. Crew' = Crew
    BY <1>4, <2>1 DEF CrewAtPts
  <2>3. Leader' = Leader
    BY <1>2, <2>2, ActingIs, SameLeader DEF CrewInv
  <2>4. Doubled' = Doubled
    BY <2>1, CounterLoggerAssumption DEF Doubled
  <2>5. Counter' = v
    BY <1>1, <1>2, <1>3, <1>6, <2>2, StoreCtr DEF Counter
  <2> QED
    BY <1>6, <2>2, <2>3, <2>4, <2>5 DEF Service!Type, Service!SetValue
<1> QED
  BY <1>5, <1>6

\* A standby that finds itself alone is elected.
LEMMA StandbyElects ==
  ASSUME Agreed, NEW m \in Procs, LeaveStandby(m)
  PROVE  (m \in Mains /\ Service!Elect(m)) \/ UNCHANGED Service!serviceVars
<1> USE DEF Agreed, Known
<1>1. /\ Goto(m, "in_standby", "loop") /\ UNCHANGED <<shmName, shm>>
      /\ origin' = [origin EXCEPT ![m] = @ \/ reg[m] = 1] /\ origin \in [Procs -> BOOLEAN]
  BY DEF LeaveStandby, Leave, IInv, TypeOK
<1>2. /\ pc[m] = "in_standby" /\ pc'[m] = "loop" /\ \A q \in Procs : q # m => pc'[q] = pc[q]
      /\ "in_standby" \in CrewPts \ HalvingPts /\ "loop" \in CrewPts \ HalvingPts
  BY <1>1 DEF Goto, IInv, TypeOK, CrewPts, RegisteredPts, RunningPts, HalvingPts
<1>3. m \in Mains /\ m \in Crew /\ Crew' = Crew
  BY <1>2 DEF Kinds, MainPts, CrewAtPts
<1>4. CASE origin[m] \/ reg[m] # 1
  <2>1. origin' = origin
    BY <1>1, <1>4
  <2> QED
    BY <1>1, <1>2, <2>1, UnseenMove DEF SameCounter
<1>5. CASE ~origin[m] /\ reg[m] = 1
  <2>1. Crew = {m}
    <3>1. shmOf[m] = shmName
      BY <1>3 DEF CrewInv, NamesInUse, Crew
    <3>2. Cardinality(Crew) = 1 /\ IsFiniteSet(Crew)
      BY <1>2, <1>3, <1>5, <3>1 DEF CrewInv, Counted, ReadIsFresh, Word, InSection, Sections, RefSections
    <3> QED
      BY <1>3, <3>2, FS_Singleton
  <2>2. Leader = None
    BY <1>5, <2>1, ActingIs, NoLeaderIs
  <2>3. Leader' = m
    BY <1>1, <1>3, <1>5, ActingIs, LeaderIsNext DEF CrewInv
  <2>4. Doubled' = Doubled /\ Counter' = Counter
    BY <1>1, <1>2, <1>3, CounterLoggerAssumption DEF Doubled, Counter
  <2> QED
    BY <1>3, <2>1, <2>2, <2>3, <2>4 DEF Service!Elect
<1> QED
  BY <1>4, <1>5

-----------------------------------------------------------------------------
(* Every step.                                                             *)

LEMMA MainServes ==
  ASSUME Agreed, NEW p \in Procs, RunMain(p)
  PROVE  [Service!Next]_Service!serviceVars
<1> DEFINE Still == UNCHANGED Service!serviceVars
<1>0. Clis \subseteq Procs /\ Copy1s \subseteq Procs /\ Copy2s \subseteq Procs
  BY CounterLoggerAssumption
<1> USE DEF CrewPts, RegisteredPts, RunningPts, HalvingPts
<1>1. ASSUME NEW from \in CrewPts \ HalvingPts, NEW to \in CrewPts \ HalvingPts, Goto(p, from, to),
             UNCHANGED <<shmName, shm, origin>>
      PROVE  Still
  BY <1>1, UnseenMove DEF SameCounter
<1>2. ASSUME NEW from \in {"tick", "log", "standby"}, NEW section \in {"in_tick", "in_log", "in_standby"},
             NEW word, Enter(p, from, section, word)
      PROVE  Still
  BY <1>2, UnseenEnter DEF WithSem
<1>3. CASE SpawnCli(p)
  <2>1. UNCHANGED <<memVars, origin>>
    BY <1>3 DEF SpawnCli, KeepLocals
  <2>2. ASSUME NEW c \in Clis, StartChild(p, c, "spawn", "loop") PROVE Still
    BY <1>0, <2>1, <2>2, UnseenChild
  <2> QED
    BY <1>1, <1>3, <2>1, <2>2 DEF SpawnCli, memVars
<1>4. CASE StartFails(p, "spawn") \/ (\E at \in {"tick", "log", "copies", "spawn2"} : StartFails(p, at))
  BY <1>1, <1>4 DEF StartFails, KeepLocals, memVars
<1>5. CASE Loop(p)
  BY <1>1, <1>5 DEF Loop, KeepLocals, memVars
<1>6. CASE EnterTick(p) \/ EnterLog(p) \/ EnterStandby(p)
  BY <1>2, <1>6 DEF EnterTick, EnterLog, EnterStandby
<1>7. CASE LeaveTick(p)
  BY <1>7, TickTicks DEF Service!Next
<1>8. CASE LeaveLog(p)
  BY <1>1, <1>8 DEF LeaveLog, Leave
<1>9. CASE LogFails(p)
  BY <1>1, <1>9 DEF LogFails, memVars
<1>10. CASE CopiesStillRunning(p) \/ EndIteration(p)
  BY <1>1, <1>10 DEF CopiesStillRunning, EndIteration, KeepLocals, memVars
<1>11. CASE SpawnCopy1(p)
  <2>1. PICK c \in Copy1s : StartChild(p, c, pc[p], "spawn2")
    BY <1>11 DEF SpawnCopy1
  <2>2. pc[p] \in {"tick", "log", "copies"} /\ UNCHANGED <<memVars, origin>>
    BY <1>11 DEF SpawnCopy1
  <2> QED
    BY <1>0, <2>1, <2>2, UnseenChild
<1>12. CASE SpawnCopy2(p)
  <2>1. PICK c \in Copy2s : StartChild(p, c, "spawn2", "loop")
    BY <1>12 DEF SpawnCopy2
  <2>2. UNCHANGED <<memVars, origin>>
    BY <1>12 DEF SpawnCopy2
  <2> QED
    BY <1>0, <2>1, <2>2, UnseenChild
<1>13. CASE LeaveStandby(p)
  BY <1>13, StandbyElects DEF Service!Next
<1> QED
  BY <1>3, <1>4, <1>5, <1>6, <1>7, <1>8, <1>9, <1>10, <1>11, <1>12, <1>13 DEF RunMain

LEMMA ChildServes ==
  ASSUME Agreed, NEW p \in Procs, RunCopy(p) \/ RunCli(p) \/ CliInterrupted(p)
  PROVE  [Service!Next]_Service!serviceVars
<1> USE DEF CrewPts, RegisteredPts, RunningPts, HalvingPts
<1>1. CASE EnterAdd(p) \/ EnterDouble(p) \/ EnterHalve(p)
  BY <1>1, UnseenEnter DEF EnterAdd, EnterDouble, EnterHalve, WithSem
<1>2. CASE LeaveAdd(p) \/ LeaveDouble(p) \/ LeaveHalve(p)
  BY <1>2, AddAdds, DoubleDoubles, HalveHalves DEF Service!Next
<1>3. CASE EnterSet(p)
  BY <1>3, UnseenEnter DEF EnterSet, WithSem
<1>4. CASE LeaveSet(p)
  BY <1>4, SetTypes DEF Service!Next
<1>5. CASE EndOfInput(p)
  BY <1>5, UnseenMove DEF EndOfInput, KeepLocals, SameCounter, memVars
<1>6. CASE CliInterrupted(p)
  <2>1. Goto(p, pc[p], "dead") /\ UNCHANGED <<memVars, origin>>
    BY <1>6 DEF CliInterrupted, Goto, KeepLocals
  <2>2. p \notin Crew /\ pc[p] \notin CrewPts \cup HalvingPts
    BY <1>6 DEF CliInterrupted, Crew, Registered, Agreed, CrewAtPts
  <2> QED
    BY <2>1, <2>2, UnseenMove DEF SameCounter, memVars
<1> QED
  BY <1>1, <1>2, <1>3, <1>4, <1>5, <1>6 DEF RunCopy, RunCli

LEMMA ExitServes ==
  ASSUME Agreed, NEW p \in Procs, Exit(p)
  PROVE  [Service!Next]_Service!serviceVars
<1> USE DEF CrewPts, RegisteredPts, RunningPts, HalvingPts
<1>1. CASE KillCli(p)
  BY <1>1, UnseenMove DEF KillCli, SameCounter, memVars
<1>2. CASE EnterDrop(p)
  BY <1>2, UnseenEnter DEF EnterDrop, WithSem, LeavingPts
<1>3. CASE LeaveDrop(p)
  BY <1>3, DropParts DEF Service!Next
<1>4. CASE UnlinkSem(p) \/ UnlinkShm(p)
  <2>1. Crew = {}
    BY <1>4 DEF UnlinkSem, UnlinkShm, Goto, Agreed, Known, CrewInv, Settled, Unlinking
  <2> QED
    BY <1>4, <2>1, UnseenMove DEF UnlinkSem, UnlinkShm, KeepLocals, SameCounter
<1> QED
  BY <1>1, <1>2, <1>3, <1>4 DEF Exit

LEMMA StepServes ==
  ASSUME Agreed, [Next]_vars
  PROVE  [Service!Next]_Service!serviceVars
<1>1. ASSUME NEW p \in Procs, Start(p) \/ Step(p) \/ SigInt(p) \/ Crash(p)
      PROVE  [Service!Next]_Service!serviceVars
  <2>1. ~Crash(p)
    BY DEF Agreed, Known, Orderly, Crash
  <2>2. CASE SigInt(p)
    BY <2>2, Unseen DEF SigInt, SameRole, SameCounter, memVars
  <2>3. CASE Start(p)
    BY <2>3, UnseenMove DEF Start, KeepLocals, SameCounter, memVars, CrewPts, RegisteredPts, RunningPts, HalvingPts
  <2>4. CASE Open(p)
    BY <2>4, UnseenOpen, RegisterJoins DEF Service!Next
  <2> QED
    BY <1>1, <2>1, <2>2, <2>3, <2>4, MainServes, ChildServes, ExitServes DEF Step
<1>2. CASE UNCHANGED vars
  BY <1>2, Unseen DEF vars, procVars, SameRole, SameCounter, memVars
<1> QED
  BY <1>1, <1>2 DEF Next, Finished

LEMMA InitServes == Init => Service!Init
<1> SUFFICES ASSUME Init PROVE Service!Init
  OBVIOUS
<1>1. Crew = {}
  BY DEF Init, Crew, Registered, RegisteredPts, RunningPts
<1>2. Leader = None
  BY <1>1, ActingIs, NoLeaderIs
<1>3. Doubled = {}
  BY CounterLoggerAssumption DEF Init, Doubled
<1> QED
  BY <1>1, <1>2, <1>3 DEF Service!Init, Counter

\* The sections of all the processes behave as atomic operations on one counter
\* with one leader, kept for as long as an instance uses it.
THEOREM Implementation == ASSUME Orderly PROVE Spec => ImplementsService
<1> DEFINE All == IInv /\ Kinds /\ CrewInv
<1>1. All /\ All' /\ [Next]_vars => [Service!Next]_Service!serviceVars
  <2> SUFFICES ASSUME All, All', [Next]_vars PROVE [Service!Next]_Service!serviceVars
    OBVIOUS
  <2>1. Agreed
    BY CrewIs, CrewIsNext DEF Agreed, Known
  <2> QED
    BY <2>1, StepServes
<1> QED
  BY <1>1, InitServes, Agreement, PTL DEF Spec, ImplementsService, Service!Spec
=============================================================================
