------------------------- MODULE CounterCrewProofs --------------------------
(***************************************************************************)
(* What the instances of the counter logger agree on, for any number of    *)
(* them and whatever write_info and start_process report: the names, the   *)
(* segment, the reference count and who is the origin, as long as nobody   *)
(* crashes, and nobody is started while the first instance is founding or  *)
(* the last one leaves (MayStart, MayDrop).  Who joins a crew, or leaves   *)
(* one that stays, may do so beside any other.                             *)
(*                                                                         *)
(* The crew are the registered instances.  While there is one, the names   *)
(* are bound to the objects the crew uses and whoever is opening joins it; *)
(* while there is none, at most one process is opening or unlinking, and   *)
(* what the names are bound to is known from its program point.  The count *)
(* is what tells the last one to leave: it is right because no update of   *)
(* it is lost, and no update is lost because of Exclusion.                 *)
(***************************************************************************)
EXTENDS CounterLoggerProofs, FiniteSetTheorems

\* What is assumed of the environment.
Orderly == Overlap = FALSE /\ "crash" \notin Faults

\* The points of a registered instance; of a CLI; of a main that leads.
CrewPts   == RegisteredPts \ {"prompt", "in_set"}
CliPts    == NoSemYet \cup {"prompt", "in_set"} \cup EndedPts
ActingPts == {"tick", "in_tick", "log", "in_log", "copies", "spawn2"}
DoublePts == {"in_double", "pause", "in_halve"}
MainPts   == ActingPts \cup {"spawn", "loop", "standby", "in_standby", "cleanup"}

\* Which process may be where, and where origin is known.
Kinds ==
  /\ \A p \in Procs : pc[p] \in {"prompt", "in_set"} => p \in Clis
  /\ \A p \in Clis  : pc[p] \in CliPts
  /\ \A p \in Procs : pc[p] \in MainPts => p \in Mains
  /\ \A p \in Procs : pc[p] \in {"idle", "exists?"} => ~origin[p]
  /\ \A p \in Procs : pc[p] \in ActingPts => origin[p]
  /\ \A p \in Procs : pc[p] = "in_add" => p \in Copy1s
  /\ \A p \in Procs : pc[p] \in DoublePts => p \in Copy2s

\* One process moves.
Step1(p, to) == pc' = [pc EXCEPT ![p] = to]

KindsAt(p, to) ==
  /\ to \in {"prompt", "in_set"} => p \in Clis
  /\ p \in Clis => to \in CliPts
  /\ to \in MainPts => p \in Mains
  /\ to \in {"idle", "exists?"} => ~origin'[p]
  /\ to \in ActingPts => origin'[p]
  /\ to = "in_add" => p \in Copy1s
  /\ to \in DoublePts => p \in Copy2s

LEMMA KindsMove ==
  ASSUME IInv, Kinds, NEW p \in Procs, NEW to, Step1(p, to), KindsAt(p, to),
         \A q \in Procs \ {p} : origin'[q] = origin[q]
  PROVE  Kinds'
<1>1. pc \in [Procs -> Points]
  BY DEF IInv, TypeOK
<1>2. pc'[p] = to /\ \A q \in Procs : q # p => pc'[q] = pc[q]
  BY <1>1 DEF Step1
<1>3. Clis \subseteq Procs
  BY CounterLoggerAssumption
<1> QED
  BY <1>2, <1>3 DEF Kinds, KindsAt

\* A main starts a child.
LEMMA KindsChild ==
  ASSUME IInv, Kinds, NEW m \in Procs, NEW child \in Procs, NEW from, NEW to,
         StartChild(m, child, from, to), KindsAt(m, to), UNCHANGED origin
  PROVE  Kinds'
<1>1. pc \in [Procs -> Points] /\ pc[child] = "idle"
  BY DEF IInv, TypeOK, StartChild
<1>2. \A q \in Procs : \/ pc'[q] = pc[q]
                       \/ q = m /\ pc'[q] = to
                       \/ q = child /\ pc'[q] = "exists?"
  BY <1>1 DEF StartChild
<1>3. "exists?" \in CliPts /\ "exists?" \notin MainPts \cup DoublePts \cup {"prompt", "in_set", "in_add"}
  BY DEF CliPts, NoSemYet, MainPts, ActingPts, DoublePts
<1>4. \A q \in Procs : pc'[q] \in {"prompt", "in_set"} => q \in Clis
  BY <1>2, <1>3 DEF Kinds, KindsAt
<1>5. \A q \in Clis : pc'[q] \in CliPts
  BY <1>2, <1>3, CounterLoggerAssumption DEF Kinds, KindsAt
<1>6. \A q \in Procs : pc'[q] \in MainPts => q \in Mains
  BY <1>2, <1>3 DEF Kinds, KindsAt
<1>7. \A q \in Procs : pc'[q] \in {"idle", "exists?"} => ~origin'[q]
  BY <1>1, <1>2 DEF Kinds, KindsAt
<1>8. \A q \in Procs : pc'[q] \in ActingPts => origin'[q]
  BY <1>2, <1>3 DEF Kinds, KindsAt, MainPts
<1>9. \A q \in Procs : /\ pc'[q] = "in_add" => q \in Copy1s
                       /\ pc'[q] \in DoublePts => q \in Copy2s
  BY <1>2, <1>3 DEF Kinds, KindsAt
<1> QED
  BY <1>4, <1>5, <1>6, <1>7, <1>8, <1>9 DEF Kinds

LEMMA KindsOpen ==
  ASSUME IInv, Kinds, NEW p \in Procs, Open(p)
  PROVE  Kinds'
<1>0. p \in Clis => p \notin Mains /\ pc[p] \in CliPts
  BY CounterLoggerAssumption DEF Kinds
<1> USE <1>0, KindsMove, InvTypes
        DEF OthersTyped, KindsAt, Step1, KeepLocals, Goto, CliPts, MainPts, ActingPts, DoublePts, NoSemYet, EndedPts
<1>1. CASE Exists(p)
  BY <1>1 DEF Exists
<1>2. CASE ExistsNot(p)
  BY <1>2 DEF ExistsNot
<1>3. CASE Unprobe(p)
  BY <1>3 DEF Unprobe
<1>4. CASE ExistsAgain(p)
  BY <1>4 DEF ExistsAgain
<1>5. CASE ExistsNotAgain(p)
  BY <1>5 DEF ExistsNotAgain
<1>6. CASE UnprobeAgain(p)
  BY <1>6 DEF UnprobeAgain
<1>7. CASE OpenShm(p)
  BY <1>7 DEF OpenShm
<1>8. CASE OpenShmDenied(p)
  BY <1>8 DEF OpenShmDenied
<1>9. CASE Truncate(p)
  BY <1>9 DEF Truncate
<1>10. CASE OpenSem(p)
  BY <1>10 DEF OpenSem
<1>11. CASE InitWords(p)
  BY <1>11 DEF InitWords
<1>12. CASE EnterRegister(p)
  BY <1>12 DEF EnterRegister, Enter
<1>13. CASE LeaveRegister(p)
  BY <1>13 DEF LeaveRegister, Leave
<1> QED
  BY <1>1, <1>2, <1>3, <1>4, <1>5, <1>6, <1>7, <1>8, <1>9, <1>10, <1>11, <1>12, <1>13 DEF Open

LEMMA KindsMain ==
  ASSUME IInv, Kinds, NEW p \in Procs, RunMain(p)
  PROVE  Kinds'
<1>0. /\ p \in Clis => p \notin Mains /\ pc[p] \in CliPts
      /\ pc[p] \in MainPts => p \in Mains
      /\ pc[p] \in ActingPts => origin[p]
      /\ Clis \subseteq Procs /\ Copy1s \subseteq Procs /\ Copy2s \subseteq Procs
  BY CounterLoggerAssumption DEF Kinds
<1> USE <1>0, KindsMove, InvTypes
        DEF OthersTyped, KindsAt, Step1, KeepLocals, Goto, CliPts, MainPts, ActingPts, DoublePts, NoSemYet, EndedPts
<1>1. CASE SpawnCli(p)
  <2>1. pc[p] = "spawn" /\ UNCHANGED origin
    BY <1>1 DEF SpawnCli
  <2>2. ASSUME NEW c \in Clis, StartChild(p, c, "spawn", "loop")
        PROVE  Kinds'
    BY <2>1, <2>2, KindsChild
  <2> QED
    BY <1>1, <2>1, <2>2 DEF SpawnCli
<1>2. ASSUME NEW at \in {"spawn", "tick", "log", "copies", "spawn2"}, StartFails(p, at)
      PROVE  Kinds'
  BY <1>2 DEF StartFails
<1>3. CASE Loop(p)
  BY <1>3 DEF Loop
<1>4. CASE EnterTick(p)
  BY <1>4 DEF EnterTick, Enter
<1>5. CASE LeaveTick(p)
  BY <1>5 DEF LeaveTick, Leave
<1>6. CASE EnterLog(p)
  BY <1>6 DEF EnterLog, Enter
<1>7. CASE LeaveLog(p)
  BY <1>7 DEF LeaveLog, Leave
<1>8. CASE LogFails(p)
  BY <1>8 DEF LogFails
<1>9. CASE CopiesStillRunning(p) \/ EndIteration(p)
  BY <1>9 DEF CopiesStillRunning, EndIteration
<1>10. CASE SpawnCopy1(p)
  <2>1. PICK c \in Copy1s : StartChild(p, c, pc[p], "spawn2")
    BY <1>10 DEF SpawnCopy1
  <2>2. pc[p] \in ActingPts /\ UNCHANGED origin
    BY <1>10 DEF SpawnCopy1
  <2> QED
    BY <2>1, <2>2, KindsChild
<1>11. CASE SpawnCopy2(p)
  <2>1. PICK c \in Copy2s : StartChild(p, c, "spawn2", "loop")
    BY <1>11 DEF SpawnCopy2
  <2>2. pc[p] \in ActingPts /\ UNCHANGED origin
    BY <1>11 DEF SpawnCopy2
  <2> QED
    BY <2>1, <2>2, KindsChild
<1>12. CASE EnterStandby(p)
  BY <1>12 DEF EnterStandby, Enter
<1>13. CASE LeaveStandby(p)
  BY <1>13 DEF LeaveStandby, Leave
<1> QED
  BY <1>1, <1>2, <1>3, <1>4, <1>5, <1>6, <1>7, <1>8, <1>9, <1>10, <1>11, <1>12, <1>13 DEF RunMain

LEMMA KindsRest ==
  ASSUME IInv, Kinds, NEW p \in Procs,
         RunCopy(p) \/ RunCli(p) \/ Exit(p)
           \/ Start(p) \/ SigInt(p) \/ CliInterrupted(p) \/ Crash(p)
  PROVE  Kinds'
<1>0. /\ p \in Clis => p \notin Mains \cup Copy1s \cup Copy2s /\ pc[p] \in CliPts
      /\ pc[p] \in {"prompt", "in_set"} => p \in Clis
      /\ pc[p] = "idle" => ~origin[p]
      /\ pc[p] \in DoublePts => p \in Copy2s
  BY CounterLoggerAssumption DEF Kinds
<1> USE <1>0, KindsMove, InvTypes
        DEF OthersTyped, KindsAt, Step1, KeepLocals, Goto, CliPts, MainPts, ActingPts, DoublePts, NoSemYet, EndedPts
<1>1. CASE EnterAdd(p) \/ EnterDouble(p) \/ EnterHalve(p)
  BY <1>1 DEF EnterAdd, EnterDouble, EnterHalve, Enter
<1>2. CASE LeaveAdd(p) \/ LeaveDouble(p) \/ LeaveHalve(p)
  BY <1>2 DEF LeaveAdd, LeaveDouble, LeaveHalve, Leave
<1>3. CASE EnterSet(p)
  BY <1>3 DEF EnterSet, Enter
<1>4. CASE LeaveSet(p)
  BY <1>4 DEF LeaveSet, Leave
<1>5. CASE EndOfInput(p)
  BY <1>5 DEF EndOfInput
<1>6. CASE KillCli(p)
  BY <1>6 DEF KillCli
<1>7. CASE EnterDrop(p)
  BY <1>7 DEF EnterDrop, Enter
<1>8. CASE LeaveDrop(p)
  BY <1>8 DEF LeaveDrop, Leave
<1>9. CASE UnlinkSem(p) \/ UnlinkShm(p)
  BY <1>9 DEF UnlinkSem, UnlinkShm
<1>10. CASE Start(p)
  BY <1>10 DEF Start
<1>11. CASE SigInt(p)
  BY <1>11 DEF SigInt, Kinds
<1>12. CASE CliInterrupted(p) \/ Crash(p)
  BY <1>12 DEF CliInterrupted, Crash
<1> QED
  BY <1>1, <1>2, <1>3, <1>4, <1>5, <1>6, <1>7, <1>8, <1>9, <1>10, <1>11, <1>12
     DEF RunCopy, RunCli, Exit

LEMMA KindsInit == Init => Kinds
BY CounterLoggerAssumption DEF Init, Kinds, CliPts, NoSemYet, MainPts, ActingPts, DoublePts

LEMMA KindsStep ==
  ASSUME IInv, Kinds, [Next]_vars
  PROVE  Kinds'
<1>1. ASSUME NEW p \in Procs, Start(p) \/ Step(p) \/ SigInt(p) \/ Crash(p)
      PROVE  Kinds'
  BY <1>1, KindsOpen, KindsMain, KindsRest DEF Step
<1>2. CASE UNCHANGED vars
  BY <1>2 DEF vars, procVars, Kinds
<1> QED
  BY <1>1, <1>2 DEF Next, Finished


-----------------------------------------------------------------------------
(* The crew and the names.                                                 *)

Unlinking(p) == pc[p] \in {"unlink_sem", "unlink_shm"}
Busy(p)      == Opening(p) \/ Unlinking(p)

\* Past shm_open, resp. past sem_open, and not registered yet.
OwnShmPts == {"truncate", "semopen", "init", "register", "in_register"}
OwnSemPts == {"init", "register", "in_register"}

\* Opening while there is no crew: the origin to be, alone, with new objects.
Founding(p) ==
  /\ p \in Mains /\ pc[p] # "open"
  /\ pc[p] \notin {"exists?", "unprobe"} => origin[p]
  /\ shmName = IF pc[p] \in {"unprobe", "unprobe2"} THEN Probe
               ELSE IF pc[p] \in OwnShmPts THEN p ELSE None
  /\ semName = IF pc[p] \in OwnSemPts THEN p ELSE None
  /\ pc[p] \in OwnShmPts => shmOf[p] = p /\ \A q \in Procs : q # p => shmOf[q] # p
  /\ pc[p] \in OwnSemPts => semOf[p] = p
  /\ pc[p] \in {"register", "in_register"} => shm[p].ctr = 0

\* Opening while there is a crew: every probe finds the crew's objects.
Joining(p) ==
  /\ pc[p] \in {"exists?", "exists2?", "open", "semopen", "register", "in_register"}
  /\ ~origin[p]
  /\ pc[p] \in OwnShmPts => shmOf[p] = shmName
  /\ pc[p] \in OwnSemPts => semOf[p] = semName

NoCrew == Crew = {} =>
  /\ \A p, q \in Procs : Busy(p) /\ Busy(q) => p = q
  /\ \A p \in Procs : Opening(p) => Founding(p)
  /\ \A p \in Procs : pc[p] = "unlink_shm" => semName = None
  /\ (\A p \in Procs : ~Busy(p)) => shmName = None /\ semName = None

Settled == Crew # {} =>
  \A p \in Procs : ~Unlinking(p) /\ (Opening(p) => Joining(p))

\* Whoever has mapped a segment, but for its creator, finds pages there.
Sized == \A p \in Procs : pc[p] \in WithShm \ {"truncate"} => shm[shmOf[p]].sized

\* The segment a process would create does not exist before shm_open.
NoShmYet  == NoSemYet \ {"truncate", "semopen"}
UnbornShm ==
  \A p \in Procs : pc[p] \in NoShmYet => shmName # p /\ \A q \in Procs : shmOf[q] # p

\* One segment, one semaphore: also for the CLIs that outlive a crew.
Coupled ==
  \A p, q \in Procs :
    pc[p] \in WithSem /\ pc[q] \in WithSem /\ shmOf[p] = shmOf[q] => semOf[p] = semOf[q]

Counted ==
  /\ IsFiniteSet(Crew)
  /\ Crew # {} \/ (\E p \in Procs : pc[p] \in {"register", "in_register"})
       => shm[shmName].ref = Cardinality(Crew)

\* Nobody is opening while the last of the crew leaves: see MayStart and MayDrop.
LastOut ==
  \A p, q \in Procs : pc[p] = "in_drop" /\ Opening(q) => \E r \in Crew : r # p

OneActing == \A p, q \in Crew : origin[p] /\ origin[q] => p = q

CrewInv ==
  /\ NoCrew /\ Settled /\ NamesInUse /\ Sized /\ UnbornShm
  /\ Coupled /\ Counted /\ LastOut /\ OneActing /\ ReadIsFresh

\* What every step may assume, and must establish but for CrewInv'.
Known == Orderly /\ IInv /\ Kinds /\ CrewInv /\ IInv' /\ Kinds'

-----------------------------------------------------------------------------
\* Registered instances are exactly those at the points of one.
CrewAtPts ==
  /\ \A p \in Procs : p \in Crew <=> pc[p] \in CrewPts
  /\ Crew \subseteq Procs

LEMMA CrewIs == Kinds => CrewAtPts
<1> SUFFICES ASSUME Kinds PROVE CrewAtPts
  OBVIOUS
<1>1. \A p \in Clis : pc[p] \notin CrewPts
  BY DEF Kinds, CliPts, CrewPts, RegisteredPts, RunningPts, NoSemYet, EndedPts
<1>2. \A p \in Procs : pc[p] \in {"prompt", "in_set"} => p \in Clis
  BY DEF Kinds
<1> QED
  BY <1>1, <1>2 DEF Crew, Registered, CrewPts, CrewAtPts

LEMMA CrewIsNext == Kinds' => CrewAtPts'
BY CrewIs, PTL

\* How the points of a process may change while the crew stays what it is.
Calmly(q) ==
  \/ pc'[q] = pc[q]
  \/ pc[q] \in CrewPts /\ pc'[q] \in CrewPts
  \/ pc[q] = "register" /\ pc'[q] = "in_register"
  \/ pc[q] \in {"prompt", "in_set"} /\ pc'[q] \in {"prompt", "in_set"}
  \/ q \in Clis /\ pc'[q] \in EndedPts
  \/ /\ pc[q] = "idle" /\ pc'[q] = "exists?"
     /\ Crew # {} /\ \A m \in Procs : pc[m] = "in_drop" => Crew \ {m} # {}

LEMMA CrewSame ==
  ASSUME Known, \A q \in Procs : Calmly(q)
  PROVE  Crew' = Crew
<1>1. /\ \A p \in Procs : p \in Crew <=> pc[p] \in CrewPts
      /\ \A p \in Procs : p \in Crew' <=> pc'[p] \in CrewPts
      /\ Crew \subseteq Procs /\ Crew' \subseteq Procs
  BY CrewIs, CrewIsNext DEF Known, CrewAtPts
<1>2. \A q \in Clis : pc[q] \notin CrewPts
  BY DEF Known, Kinds, CliPts, CrewPts, RegisteredPts, RunningPts, NoSemYet, EndedPts
<1>3. \A q \in Procs : q \in Crew' <=> q \in Crew
  BY <1>1, <1>2 DEF Calmly, CrewPts, RegisteredPts, RunningPts, EndedPts
<1> QED
  BY <1>1, <1>3

LEMMA SteadyStep ==
  ASSUME Known, \A q \in Procs : Calmly(q),
         UNCHANGED <<shmName, semName, shmOf, semOf>>,
         \A o \in Procs : shm'[o].sized = shm[o].sized /\ shm'[o].ref = shm[o].ref,
         \A q \in Procs : Founding(q) /\ pc[q] \in {"register", "in_register"}
           => shm'[q] = shm[q],
         \A q \in Procs : origin'[q] = origin[q] \/ pc[q] = "in_standby",
         \A q, r \in Procs : pc'[q] = "in_drop" /\ pc[q] # "in_drop" /\ Opening(r)' =>
           Crew \ {q} # {},
         OneActing', ReadIsFresh'
  PROVE  CrewInv'
<1> USE DEF Known
<1>1. /\ \A p \in Procs : p \in Crew <=> pc[p] \in CrewPts
      /\ \A p \in Procs : p \in Crew' <=> pc'[p] \in CrewPts
      /\ Crew \subseteq Procs /\ Crew' \subseteq Procs
  BY CrewIs, CrewIsNext DEF CrewAtPts
<1>2. Crew' = Crew
  BY CrewSame
<1>3. \A q \in Procs : Opening(q)' =>
        \/ Opening(q) /\ pc'[q] = pc[q]
        \/ pc[q] = "register" /\ pc'[q] = "in_register"
        \/ /\ pc'[q] = "exists?" /\ pc[q] = "idle" /\ Crew # {}
           /\ \A m \in Procs : pc[m] = "in_drop" => Crew \ {m} # {}
  BY DEF Calmly, Opening, OpeningPts, CrewPts, RegisteredPts, RunningPts, EndedPts
<1>4. \A q \in Procs : Unlinking(q)' => Unlinking(q) /\ pc'[q] = pc[q]
  BY DEF Calmly, Unlinking, CrewPts, RegisteredPts, RunningPts, EndedPts
<1>5. \A q \in Procs : Busy(q) => Busy(q)' \/ q \in Clis
  BY DEF Calmly, Busy, Unlinking, Opening, OpeningPts, CrewPts, RegisteredPts, RunningPts, EndedPts
<1>6. /\ \A q \in Procs : pc'[q] \in WithSem => pc[q] \in WithSem
      /\ \A q \in Procs : pc'[q] \in WithShm \ {"truncate"} => pc[q] \in WithShm \ {"truncate"}
      /\ \A q \in Procs : pc'[q] \in NoShmYet => pc[q] \in NoShmYet
  BY DEF Calmly, WithShm, WithSem, NoShmYet, NoSemYet, CrewPts, RegisteredPts, RunningPts, EndedPts
<1>7. \A q \in Procs : pc'[q] = "exists?" => ~origin'[q]
  BY DEF Kinds
<1>8. NoCrew'
  <2> SUFFICES ASSUME Crew = {} PROVE NoCrew'
    BY <1>2 DEF NoCrew
  <2>1. \A q \in Procs : Opening(q)' => /\ Opening(q) /\ Founding(q) /\ origin'[q] = origin[q]
                                       /\ \/ pc'[q] = pc[q]
                                          \/ pc[q] = "register" /\ pc'[q] = "in_register"
    BY <1>3 DEF CrewInv, NoCrew, Opening, OpeningPts
  <2>2. \A q \in Procs : Opening(q)' => Founding(q)'
    BY <2>1 DEF Founding, OwnShmPts, OwnSemPts
  <2>3. \A q \in Procs : Busy(q)' => Busy(q)
    BY <2>1, <1>4 DEF Busy
  <2>4. \A q \in Procs : Busy(q) => Busy(q)'
    <3>1. \A q \in Clis : q \notin Mains /\ q \in Procs /\ ~Unlinking(q)
      BY CounterLoggerAssumption DEF Kinds, CliPts, NoSemYet, EndedPts, Unlinking
    <3> QED
      BY <1>5, <3>1 DEF CrewInv, NoCrew, Busy, Founding
  <2>5. \A q \in Procs : pc'[q] = "unlink_shm" => pc[q] = "unlink_shm"
    BY <1>4 DEF Unlinking
  <2>6. \A p, q \in Procs : Busy(p)' /\ Busy(q)' => p = q
    BY <2>3 DEF CrewInv, NoCrew
  <2> QED
    BY <2>2, <2>4, <2>5, <2>6 DEF CrewInv, NoCrew
<1>9. Settled'
  <2> SUFFICES ASSUME Crew # {}, NEW q \in Procs
               PROVE  ~Unlinking(q)' /\ (Opening(q)' => Joining(q)')
    BY <1>2 DEF Settled
  <2>1. ~Unlinking(q)'
    BY <1>4 DEF CrewInv, Settled
  <2>2. CASE Opening(q) /\ pc'[q] = pc[q]
    BY <2>1, <2>2 DEF CrewInv, Settled, Joining, Opening, OpeningPts
  <2>3. CASE pc[q] = "register" /\ pc'[q] = "in_register"
    BY <2>1, <2>3 DEF CrewInv, Settled, Joining, Opening, OpeningPts, OwnShmPts, OwnSemPts
  <2>4. CASE pc'[q] = "exists?"
    BY <2>1, <2>4, <1>7 DEF Joining, OwnShmPts, OwnSemPts
  <2> QED
    BY <1>3, <2>1, <2>2, <2>3, <2>4
<1>10. NamesInUse'
  BY <1>2 DEF CrewInv, NamesInUse, Crew
<1>11. Sized'
  BY <1>6 DEF CrewInv, Sized, IInv, Handles
<1>12. UnbornShm'
  BY <1>6 DEF CrewInv, UnbornShm
<1>13. Coupled'
  BY <1>6 DEF CrewInv, Coupled
<1>14. Counted'
  <2>1. Crew # {} \/ (\E q \in Procs : pc[q] \in {"register", "in_register"}) => shmName \in Procs
    <3>1. \A q \in Crew : shmName = shmOf[q] /\ pc[q] \in WithShm
      BY <1>1 DEF CrewInv, NamesInUse, Crew, CrewPts, RegisteredPts, RunningPts, WithShm, WithSem
    <3>2. ASSUME Crew = {}, NEW q \in Procs, pc[q] \in {"register", "in_register"}
          PROVE  shmName \in Procs
      BY <3>2 DEF CrewInv, NoCrew, Founding, Opening, OpeningPts, OwnShmPts
    <3> QED
      BY <1>1, <3>1, <3>2 DEF IInv, Handles
  <2>2. \A q \in Procs : pc'[q] \in {"register", "in_register"} =>
                         pc[q] \in {"register", "in_register"}
    BY DEF Calmly, CrewPts, RegisteredPts, RunningPts, EndedPts
  <2> QED
    BY <1>2, <2>1, <2>2 DEF CrewInv, Counted
<1>15. LastOut'
  <2> SUFFICES ASSUME NEW p \in Procs, NEW q \in Procs, pc'[p] = "in_drop", Opening(q)'
               PROVE  \E r \in Crew : r # p
    BY <1>2 DEF LastOut
  <2>1. CASE pc[p] # "in_drop"
    BY <2>1, <1>3 DEF Opening, OpeningPts
  <2>2. CASE pc[p] = "in_drop"
    BY <2>2, <1>3 DEF CrewInv, LastOut, Opening, OpeningPts
  <2> QED
    BY <2>1, <2>2
<1> QED
  BY <1>8, <1>9, <1>10, <1>11, <1>12, <1>13, <1>14, <1>15 DEF CrewInv

-----------------------------------------------------------------------------
(* Steps of the crew and of the CLIs.                                      *)

LEMMA EnterCrew ==
  ASSUME Known, NEW p \in Procs, NEW from \in Points \ Sections, NEW section \in Sections, NEW word,
         Enter(p, from, section, word),
         word = IF section \in RefSections THEN "ref" ELSE "ctr",
         \/ from \in CrewPts /\ section \in CrewPts
         \/ from = "register" /\ section = "in_register"
         \/ from = "prompt" /\ section = "in_set",
         section = "in_drop" => \A r \in Procs : Opening(r) => Crew # {p}
  PROVE  CrewInv'
<1> USE DEF Known
<1>1. pc[p] = from /\ pc \in [Procs -> Points] /\ from \in WithShm \ {"truncate"}
  BY DEF Enter, IInv, TypeOK, CrewPts, RegisteredPts, RunningPts, WithShm, WithSem
<1>2. shm[shmOf[p]].sized
  BY <1>1 DEF CrewInv, Sized
<1>3. /\ pc' = [pc EXCEPT ![p] = section]
      /\ reg' = [reg EXCEPT ![p] = shm[shmOf[p]][word]]
      /\ UNCHANGED <<shmName, semName, shm, working, origin, shmOf, semOf, copy1, copy2>>
  BY <1>2 DEF Enter, Goto
<1>4. pc'[p] = section /\ \A q \in Procs : q # p => pc'[q] = pc[q]
  BY <1>1, <1>3
<1>5. \A q \in Procs : Calmly(q)
  BY <1>1, <1>4 DEF Calmly
<1>6. Crew' = Crew
  BY <1>5, CrewSame
<1>7. OneActing'
  BY <1>3, <1>6 DEF CrewInv, OneActing
<1>8. ReadIsFresh'
  <2>1. reg'[p] = shm[shmOf[p]][word] /\ \A q \in Procs : q # p => reg'[q] = reg[q]
    BY <1>3 DEF IInv, TypeOK
  <2> SUFFICES ASSUME NEW q \in Procs, InSection(q)'
               PROVE  (reg[q] = shm[shmOf[q]][Word(q)])'
    BY DEF ReadIsFresh
  <2>2. CASE q = p
    BY <2>1, <2>2, <1>3, <1>4 DEF Word
  <2>3. CASE q # p
    BY <2>1, <2>3, <1>3, <1>4 DEF CrewInv, ReadIsFresh, InSection, Word
  <2> QED
    BY <2>2, <2>3
<1>9. ASSUME NEW q \in Procs, NEW r \in Procs, pc'[q] = "in_drop", pc[q] # "in_drop", Opening(r)'
      PROVE  Crew \ {q} # {}
  <2>1. q = p /\ section = "in_drop" /\ r # p /\ Opening(r)
    BY <1>1, <1>4, <1>9 DEF Opening, OpeningPts
  <2>2. p \in Crew
    BY <1>1, <2>1, CrewIs DEF CrewAtPts, CrewPts, RegisteredPts, RunningPts
  <2> QED
    BY <2>1, <2>2
<1> QED
  BY <1>3, <1>5, <1>7, <1>8, <1>9, SteadyStep

LEMMA LeaveCrew ==
  ASSUME Known, NEW p \in Procs, NEW section \in CtrSections \cup {"in_standby"}, NEW to, to \notin Sections,
         Leave(p, section, to),
         \/ section \in CrewPts /\ to \in CrewPts
         \/ section = "in_set" /\ to = "prompt",
         UNCHANGED shm \/ \E v \in Int : Store(p, "ctr", v),
         \/ UNCHANGED origin
         \/ /\ section = "in_standby" /\ OneActing'
            /\ \A q \in Procs : q # p => origin'[q] = origin[q]
  PROVE  CrewInv'
<1> USE DEF Known
<1>1. /\ pc[p] = section /\ pc \in [Procs -> Points] /\ section \in Sections
      /\ pc' = [pc EXCEPT ![p] = to] /\ reg' = [reg EXCEPT ![p] = 0]
      /\ UNCHANGED <<shmName, semName, working, shmOf, semOf, copy1, copy2>>
  BY DEF Leave, Goto, IInv, TypeOK, Sections, RefSections
<1>2. pc'[p] = to /\ \A q \in Procs : q # p => pc'[q] = pc[q] /\ reg'[q] = reg[q]
  BY <1>1 DEF IInv, TypeOK
<1>3. \A q \in Procs : Calmly(q)
  BY <1>1, <1>2 DEF Calmly
<1>4. shmOf[p] \in Procs /\ shm \in [Procs -> Segment]
  BY <1>1 DEF IInv, TypeOK, MemTypeOK, Handles, WithShm, WithSem, Sections, RefSections, CtrSections
<1>5. /\ \A o \in Procs : shm'[o].sized = shm[o].sized /\ shm'[o].ref = shm[o].ref
      /\ \A o \in Procs : o # shmOf[p] => shm'[o] = shm[o]
  <2>1. ASSUME NEW v \in Int, Store(p, "ctr", v)
        PROVE  shm' = [shm EXCEPT ![shmOf[p]] = [shm[shmOf[p]] EXCEPT !.ctr = v]]
    BY <2>1 DEF Store
  <2>2. \A seg \in Segment, v \in Int :
          [seg EXCEPT !.ctr = v].sized = seg.sized /\ [seg EXCEPT !.ctr = v].ref = seg.ref
    BY DEF Segment
  <2>3. CASE \E v \in Int : Store(p, "ctr", v)
    <3>1. PICK v \in Int : shm' = [shm EXCEPT ![shmOf[p]] = [shm[shmOf[p]] EXCEPT !.ctr = v]]
      BY <2>1, <2>3
    <3>2. /\ shm'[shmOf[p]] = [shm[shmOf[p]] EXCEPT !.ctr = v] /\ shm[shmOf[p]] \in Segment
          /\ \A o \in Procs : o # shmOf[p] => shm'[o] = shm[o]
      BY <1>4, <3>1
    <3> HIDE <3>1
    <3>3. shm'[shmOf[p]].sized = shm[shmOf[p]].sized /\ shm'[shmOf[p]].ref = shm[shmOf[p]].ref
      BY <2>2, <3>2
    <3> QED
      BY <3>2, <3>3
  <2> QED
    BY <2>3
<1>6. OneActing'
  <2>1. Crew' = Crew
    BY <1>3, CrewSame
  <2> QED
    BY <2>1 DEF CrewInv, OneActing
<1>7. ReadIsFresh'
  <2> SUFFICES ASSUME NEW q \in Procs, InSection(q)'
               PROVE  (reg[q] = shm[shmOf[q]][Word(q)])'
    BY DEF ReadIsFresh
  <2>1. q # p /\ InSection(q)
    BY <1>2 DEF InSection
  <2>2. semOf[q] # semOf[p]
    BY <1>1, <2>1 DEF IInv, MutualExclusion, InSection
  <2>3. \A r \in Procs : InSection(r) => pc[r] \in WithSem
    BY DEF InSection, WithSem, Sections, RefSections, CtrSections
  <2>4. shmOf[q] # shmOf[p] /\ shmOf[q] \in Procs
    BY <1>1, <2>1, <2>2, <2>3 DEF CrewInv, Coupled, IInv, Handles, WithShm, InSection
  <2> QED
    BY <1>1, <1>2, <1>5, <2>1, <2>4 DEF CrewInv, ReadIsFresh, Word
<1>8. \A q \in Procs : pc'[q] = "in_drop" => pc[q] = "in_drop"
  BY <1>2 DEF Sections, RefSections
<1>9. \A q \in Procs : Founding(q) /\ pc[q] \in {"register", "in_register"} => shm'[q] = shm[q]
  <2>1. pc[p] \notin {"register", "in_register"}
    BY <1>1 DEF CtrSections
  <2> QED
    BY <1>5, <2>1 DEF Founding, OwnShmPts
<1> QED
  BY <1>1, <1>2, <1>3, <1>5, <1>6, <1>7, <1>8, <1>9, SteadyStep

\* A registered instance, or a CLI that ends, moves without touching the memory.
LEMMA MoveCrew ==
  ASSUME Known, NEW p \in Procs, NEW to, to \notin Sections, Step1(p, to),
         \/ pc[p] \in CrewPts /\ to \in CrewPts
         \/ p \in Clis /\ to \in EndedPts,
         UNCHANGED <<memVars, origin, shmOf, semOf>>,
         \A q \in Procs : q # p => reg'[q] = reg[q]
  PROVE  CrewInv'
<1> USE DEF Known
<1>1. pc'[p] = to /\ \A q \in Procs : q # p => pc'[q] = pc[q]
  BY DEF IInv, TypeOK, Step1
<1>2. \A q \in Procs : Calmly(q)
  BY <1>1 DEF Calmly
<1>3. OneActing'
  <2>1. Crew' = Crew
    BY <1>2, CrewSame
  <2> QED
    BY <2>1 DEF CrewInv, OneActing
<1>4. ReadIsFresh'
  BY <1>1 DEF CrewInv, ReadIsFresh, InSection, Word, memVars
<1>5. \A q \in Procs : pc'[q] = "in_drop" => pc[q] = "in_drop"
  BY <1>1 DEF Sections, RefSections
<1> QED
  BY <1>2, <1>3, <1>4, <1>5, SteadyStep DEF memVars

LEMMA ChildCrew ==
  ASSUME Known, NEW m \in Procs, NEW child \in Procs, NEW from \in CrewPts, NEW to \in CrewPts \ Sections,
         StartChild(m, child, from, to), from # "in_drop",
         UNCHANGED <<memVars, origin, shmOf, semOf, reg>>
  PROVE  CrewInv'
<1> USE DEF Known
<1>1. pc \in [Procs -> Points] /\ pc[m] = from /\ pc[child] = "idle" /\ m # child
  BY DEF StartChild, IInv, TypeOK, CrewPts, RegisteredPts, RunningPts
<1>2. /\ pc'[m] = to /\ pc'[child] = "exists?"
      /\ \A q \in Procs : q # m /\ q # child => pc'[q] = pc[q]
  BY <1>1 DEF StartChild
<1>3. m \in Crew
  BY <1>1, CrewIs DEF CrewAtPts
<1>4. \A q \in Procs : Calmly(q)
  BY <1>1, <1>2, <1>3 DEF Calmly
<1>5. OneActing'
  <2>1. Crew' = Crew
    BY <1>4, CrewSame
  <2> QED
    BY <2>1 DEF CrewInv, OneActing
<1>6. ReadIsFresh'
  <2>1. "exists?" \notin Sections
    BY DEF Sections, RefSections, CtrSections
  <2> QED
    BY <1>2, <2>1 DEF CrewInv, ReadIsFresh, InSection, Word, memVars
<1>7. \A q \in Procs : pc'[q] = "in_drop" => pc[q] = "in_drop"
  BY <1>2 DEF Sections, RefSections
<1> QED
  BY <1>4, <1>5, <1>6, <1>7, SteadyStep DEF memVars

-----------------------------------------------------------------------------
(* Opening and unlinking.                                                  *)

\* The points of those who are not registered and not in a critical section.
OutsidePts == (OpeningPts \ {"in_register"}) \cup {"prompt", "unlink_sem", "unlink_shm"} \cup EndedPts

\* What a lone process does while there is no crew.
LEMMA LoneStep ==
  ASSUME Known, Crew = {}, NEW p \in Procs, NEW to \in OutsidePts \ {"prompt"}, Step1(p, to),
         \A q \in Procs : Busy(q) => q = p,
         Opening(p)' => Founding(p)',
         to = "unlink_shm" => semName' = None,
         to \in EndedPts => shmName' = None /\ semName' = None,
         to = "register" => shm'[shmName'].ref = 0,
         \A q \in Procs : q # p => origin'[q] = origin[q] /\ reg'[q] = reg[q] /\ shmOf'[q] = shmOf[q],
         \A q \in Procs : q # p /\ InSection(q) => shm'[shmOf[q]] = shm[shmOf[q]],
         Sized', UnbornShm', Coupled'
  PROVE  CrewInv'
<1> USE DEF Known
<1>1. pc'[p] = to /\ \A q \in Procs : q # p => pc'[q] = pc[q]
  BY DEF IInv, TypeOK, Step1
<1>2. Crew' = {}
  <2>1. to \notin CrewPts
    BY DEF OutsidePts, CrewPts, RegisteredPts, RunningPts, OpeningPts, EndedPts
  <2> QED
    BY <1>1, <2>1, CrewIs, CrewIsNext DEF CrewAtPts
<1>3. \A q \in Procs : q # p => ~Busy(q)'
  BY <1>1 DEF Busy, Opening, Unlinking
<1>4. NoCrew'
  <2>1. \A q \in Procs : Opening(q)' => Founding(q)'
    BY <1>3 DEF Busy
  <2>2. \A q \in Procs : pc'[q] = "unlink_shm" => semName' = None
    BY <1>1, <1>3 DEF Busy, Unlinking
  <2>3. ~Busy(p)' => to \in EndedPts
    BY <1>1 DEF Busy, Opening, Unlinking, OutsidePts
  <2> QED
    BY <1>3, <2>1, <2>2, <2>3 DEF NoCrew
<1>5. Settled' /\ OneActing'
  BY <1>2 DEF Settled, OneActing
<1>6. NamesInUse'
  BY <1>2 DEF NamesInUse, Crew
<1>7. Counted'
  <2>1. \A q \in Procs : pc'[q] \in {"register", "in_register"} => to = "register"
    BY <1>1, <1>3 DEF Busy, Opening, OpeningPts, OutsidePts, EndedPts
  <2> QED
    BY <1>2, <2>1, FS_EmptySet DEF Counted
<1>8. LastOut'
  <2>1. \A q \in Procs : pc'[q] # "in_drop"
    BY <1>2, CrewIsNext DEF CrewAtPts, CrewPts, RegisteredPts
  <2> QED
    BY <2>1 DEF LastOut
<1>9. ReadIsFresh'
  <2>1. to \notin Sections
    BY DEF OutsidePts, Sections, RefSections, CtrSections, OpeningPts, EndedPts
  <2> QED
    BY <1>1, <2>1 DEF CrewInv, ReadIsFresh, InSection, Word
<1> QED
  BY <1>4, <1>5, <1>6, <1>7, <1>8, <1>9 DEF CrewInv

\* What somebody who opens does while there is a crew.
LEMMA JoinStep ==
  ASSUME Known, Crew # {}, NEW p \in Procs, NEW to \in OutsidePts, ~Unlinking(p)', Step1(p, to),
         Opening(p), UNCHANGED <<memVars, origin, reg>>,
         Opening(p)' => Joining(p)',
         to \in NoShmYet => pc[p] \in NoShmYet,
         to = "prompt" => shmOf'[p] = shmName /\ semOf'[p] = semName,
         shmOf'[p] \in {shmOf[p], shmName},
         \A q \in Procs : q # p => shmOf'[q] = shmOf[q] /\ semOf'[q] = semOf[q]
  PROVE  CrewInv'
<1> USE DEF Known, memVars
<1>1. pc'[p] = to /\ \A q \in Procs : q # p => pc'[q] = pc[q]
  BY DEF IInv, TypeOK, Step1
<1>2. Crew' = Crew /\ p \notin Crew
  <2>1. to \notin CrewPts /\ pc[p] \notin CrewPts
    BY DEF OutsidePts, CrewPts, RegisteredPts, RunningPts, Opening, OpeningPts, EndedPts
  <2> QED
    BY <1>1, <2>1, CrewIs, CrewIsNext DEF CrewAtPts
<1>3. PICK r \in Crew : r \in Procs
  BY DEF Crew
<1>4. /\ shmOf[r] = shmName /\ semOf[r] = semName /\ r # p
      /\ pc[r] \in WithSem /\ shm[shmName].sized
  <2>1. shmOf[r] = shmName /\ semOf[r] = semName /\ pc[r] \in CrewPts
    BY <1>3, CrewIs DEF CrewInv, NamesInUse, Crew, CrewAtPts
  <2>2. pc[r] \in WithSem
    BY <2>1 DEF WithSem, CrewPts, RegisteredPts, RunningPts
  <2> QED
    BY <1>2, <1>3, <2>1, <2>2 DEF CrewInv, Sized, WithShm, WithSem
<1>5. NoCrew' /\ Counted' /\ OneActing'
  <2>1. Counted'
    BY <1>2 DEF CrewInv, Counted
  <2> QED
    BY <1>2, <2>1 DEF CrewInv, NoCrew, OneActing
<1>6. Settled'
  BY <1>1 DEF CrewInv, Settled, Opening, Unlinking, Joining
<1>7. NamesInUse'
  BY <1>1, <1>2 DEF CrewInv, NamesInUse, Crew
<1>8. pc'[p] \in WithShm => shmOf'[p] = shmName
  BY <1>1 DEF Joining, Opening, OpeningPts, OutsidePts, WithShm, WithSem, EndedPts, OwnShmPts
<1>9. pc'[p] \in WithSem => semOf'[p] = semName
  BY <1>1 DEF Joining, Opening, OpeningPts, OutsidePts, WithSem, EndedPts, OwnSemPts
<1>10. Sized'
  BY <1>1, <1>4, <1>8 DEF CrewInv, Sized
<1>11. UnbornShm'
  BY <1>1 DEF CrewInv, UnbornShm
<1>12. Coupled'
  <2>1. \A q \in Procs : pc[q] \in WithSem /\ shmOf[q] = shmName => semOf[q] = semName
    BY <1>3, <1>4 DEF CrewInv, Coupled
  <2>2. \A q \in Procs : pc'[q] \in WithSem /\ shmOf'[q] = shmName => semOf'[q] = semName
    BY <1>1, <1>9, <2>1
  <2>3. pc'[p] \in WithSem => shmOf'[p] = shmName
    BY <1>8 DEF WithShm
  <2> QED
    BY <1>1, <2>2, <2>3 DEF CrewInv, Coupled
<1>13. LastOut'
  BY <1>1, <1>2 DEF CrewInv, LastOut, OutsidePts, OpeningPts, Opening, EndedPts
<1>14. ReadIsFresh'
  <2>1. to \notin Sections
    BY DEF OutsidePts, Sections, RefSections, CtrSections, OpeningPts, EndedPts
  <2> QED
    BY <1>1, <2>1 DEF CrewInv, ReadIsFresh, InSection, Word
<1> QED
  BY <1>5, <1>6, <1>7, <1>10, <1>11, <1>12, <1>13, <1>14 DEF CrewInv

\* Opening while there is a crew finds the crew's objects, and joins it.
LEMMA OpenWithCrew ==
  ASSUME Known, Crew # {}, NEW p \in Procs, Open(p), pc[p] \notin {"register", "in_register"}
  PROVE  CrewInv'
<1> USE DEF Known
<1>1. PICK r \in Crew : r \in Procs
  BY DEF Crew
<1>2. shmName \in Procs /\ semName \in Procs
  <2>1. shmOf[r] = shmName /\ semOf[r] = semName /\ pc[r] \in CrewPts
    BY <1>1, CrewIs DEF CrewInv, NamesInUse, Crew, CrewAtPts
  <2>2. pc[r] \in WithSem
    BY <2>1 DEF WithSem, CrewPts, RegisteredPts, RunningPts
  <2> QED
    BY <1>1, <2>1, <2>2 DEF IInv, Handles, WithShm
<1>3. shmName # None /\ shmName # Probe /\ semName # None
  BY <1>2, CrossMemAssumption
<1>4. Opening(p) => Joining(p)
  BY DEF CrewInv, Settled
<1>5. /\ pc \in [Procs -> Points] /\ shmOf \in [Procs -> Procs \cup {None}]
      /\ semOf \in [Procs -> Procs \cup {None}]
  BY DEF IInv, TypeOK
<1> USE DEF Goto, Step1, KeepLocals, Opening, Unlinking, Joining, OpeningPts, OutsidePts, EndedPts,
            OwnShmPts, OwnSemPts, NoShmYet, NoSemYet
<1>6. CASE Exists(p)
  BY <1>6, <1>4, <1>5, JoinStep DEF Exists, ProbeFound, memVars
<1>7. CASE ExistsAgain(p)
  BY <1>7, <1>4, <1>5, JoinStep DEF ExistsAgain, ProbeFound, memVars
<1>8. CASE OpenShm(p)
  <2>1. /\ Goto(p, "open", "semopen") /\ UNCHANGED memVars
        /\ shmOf' = [shmOf EXCEPT ![p] = shmName]
        /\ UNCHANGED <<working, origin, semOf, reg, copy1, copy2>>
    BY <1>8, <1>3, <1>4 DEF OpenShm, ShmOpen
  <2>2. shmOf'[p] = shmName /\ \A q \in Procs : q # p => shmOf'[q] = shmOf[q]
    BY <1>5, <2>1
  <2> QED
    BY <2>1, <2>2, <1>4, <1>5, JoinStep DEF memVars
<1>9. CASE OpenSem(p)
  <2>1. /\ UNCHANGED memVars /\ semOf' = [semOf EXCEPT ![p] = semName]
        /\ UNCHANGED <<working, origin, shmOf, reg, copy1, copy2>>
    BY <1>9, <1>3 DEF OpenSem, SemOpen
  <2>2. semOf'[p] = semName /\ \A q \in Procs : q # p => semOf'[q] = semOf[q]
    BY <1>5, <2>1
  <2>3. pc[p] = "semopen" /\ shmOf[p] = shmName /\ ~origin[p]
    BY <1>9, <1>4 DEF OpenSem
  <2>4. PICK to \in {"prompt", "register"} : Goto(p, "semopen", to)
    BY <1>9, <2>3 DEF OpenSem
  <2> QED
    BY <2>1, <2>2, <2>3, <2>4, <1>4, <1>5, JoinStep DEF memVars
<1> QED
  BY <1>3, <1>4, <1>6, <1>7, <1>8, <1>9
     DEF Open, ExistsNot, ProbeCreate, Unprobe, ExistsNotAgain, UnprobeAgain, OpenShmDenied,
         ShmOpenDenied, Truncate, InitWords, EnterRegister, Enter, LeaveRegister, Leave

LEMMA StartCrew ==
  ASSUME Known, NEW m \in Procs, MayStart, Start(m)
  PROVE  CrewInv'
<1> USE DEF Known
<1>1. /\ \A q \in Procs : Opening(q) \/ Leaving(q) => Crew \ {q} # {}
      /\ pc[m] = "idle" /\ m \in Mains /\ pc' = [pc EXCEPT ![m] = "exists?"]
      /\ UNCHANGED <<memVars, origin, shmOf, semOf, reg>> /\ pc \in [Procs -> Points]
  BY DEF MayStart, Start, Orderly, Goto, KeepLocals, IInv, TypeOK
<1>2. pc'[m] = "exists?" /\ \A q \in Procs : q # m => pc'[q] = pc[q]
  BY <1>1
<1>3. "exists?" \notin Sections
  BY DEF Sections, RefSections, CtrSections
<1>4. CASE Crew = {}
  <2>1. \A q \in Procs : ~Busy(q)
    BY <1>1, <1>4 DEF Busy, Leaving, Unlinking
  <2>2. shmName = None /\ semName = None
    BY <1>4, <2>1 DEF CrewInv, NoCrew
  <2>3. Founding(m)'
    BY <1>1, <1>2, <2>2 DEF Founding, OwnShmPts, OwnSemPts, memVars
  <2>4. Sized' /\ UnbornShm' /\ Coupled'
    BY <1>1, <1>2 DEF CrewInv, Sized, UnbornShm, Coupled, WithShm, WithSem, NoShmYet, NoSemYet, memVars
  <2>5. "exists?" \in OutsidePts \ {"prompt"}
    BY DEF OutsidePts, OpeningPts
  <2> QED
    BY <1>1, <1>4, <2>1, <2>3, <2>4, <2>5, LoneStep DEF Step1, EndedPts, memVars
<1>5. CASE Crew # {}
  <2>1. \A q \in Procs : pc[q] = "in_drop" => Crew \ {q} # {}
    BY <1>1 DEF Leaving
  <2>2. \A q \in Procs : pc'[q] = "in_drop" => pc[q] = "in_drop"
    BY <1>2
  <2>3. \A q \in Procs : Calmly(q)
    BY <1>1, <1>2, <1>5, <2>1 DEF Calmly
  <2>4. OneActing'
    <3>1. Crew' = Crew
      BY <2>3, CrewSame
    <3> QED
      BY <1>1, <3>1 DEF CrewInv, OneActing
  <2>5. ReadIsFresh'
    BY <1>1, <1>2, <1>3 DEF CrewInv, ReadIsFresh, InSection, Word, memVars
  <2> QED
    BY <1>1, <1>2, <2>2, <2>3, <2>4, <2>5, SteadyStep DEF memVars
<1> QED
  BY <1>4, <1>5

\* Opening while there is no crew: every probe finds the name free, and the
\* objects that are made are new.
LEMMA OpenAlone ==
  ASSUME Known, Crew = {}, NEW p \in Procs, Open(p), pc[p] \notin {"register", "in_register"}
  PROVE  CrewInv'
<1> USE DEF Known
<1>1. Opening(p)
  BY DEF Open, Exists, ExistsNot, Unprobe, ExistsAgain, ExistsNotAgain, UnprobeAgain, OpenShm,
         OpenShmDenied, Truncate, OpenSem, InitWords, EnterRegister, Enter, LeaveRegister, Leave,
         Goto, Opening, OpeningPts
<1>2. Founding(p) /\ \A q \in Procs : Busy(q) => q = p
  BY <1>1 DEF CrewInv, NoCrew, Busy
<1>3. /\ pc \in [Procs -> Points] /\ shmOf \in [Procs -> Procs \cup {None}]
      /\ semOf \in [Procs -> Procs \cup {None}] /\ origin \in [Procs -> BOOLEAN]
      /\ shm \in [Procs -> Segment]
  BY DEF IInv, TypeOK, MemTypeOK
<1>4. None \notin Procs /\ Probe \notin Procs /\ None # Probe /\ Mains \cap Clis = {}
  BY CrossMemAssumption, CounterLoggerAssumption
<1> USE <1>3 DEF Step1, Goto, KeepLocals, Opening, OpeningPts, EndedPts, OwnShmPts, OwnSemPts
\* The probes move the name between free and placeholder.
<1>5. ASSUME NEW to \in {"unprobe", "exists2?", "unprobe2", "create"}, Goto(p, pc[p], to), Founding(p)',
             pc[p] \in NoShmYet, shmName' \in {None, Probe}, UNCHANGED <<semName, shm, sem>>,
             \A q \in Procs : q # p => origin'[q] = origin[q],
             UNCHANGED <<shmOf, semOf, reg>>
      PROVE  CrewInv'
  <2>1. pc'[p] = to /\ \A q \in Procs : q # p => pc'[q] = pc[q]
    BY <1>5
  <2>2. Sized' /\ Coupled'
    BY <1>5, <2>1 DEF CrewInv, Sized, Coupled, WithShm, WithSem
  <2>3. UnbornShm'
    BY <1>4, <1>5, <2>1 DEF CrewInv, UnbornShm
  <2> QED
    BY <1>2, <1>5, <2>2, <2>3, LoneStep DEF OutsidePts
<1>6. CASE ExistsNot(p)
  <2>1. pc' = [pc EXCEPT ![p] = "unprobe"] /\ shmName' = Probe
    BY <1>6 DEF ExistsNot, ProbeCreate
  <2>2. Founding(p)'
    BY <1>2, <1>6, <2>1 DEF Founding, ExistsNot, ProbeCreate
  <2> QED
    BY <1>5, <1>6, <2>2 DEF ExistsNot, ProbeCreate, NoShmYet, NoSemYet
<1>7. CASE Unprobe(p)
  <2>1. pc' = [pc EXCEPT ![p] = "exists2?"] /\ shmName' = None /\ origin' = [origin EXCEPT ![p] = TRUE]
    BY <1>2, <1>7 DEF Unprobe, ShmUnlink, Founding
  <2>2. Founding(p)'
    BY <1>2, <1>7, <2>1 DEF Founding, Unprobe, ShmUnlink
  <2> QED
    BY <1>5, <1>7, <2>1, <2>2 DEF Unprobe, ShmUnlink, NoShmYet, NoSemYet
<1>8. CASE ExistsNotAgain(p)
  <2>1. Founding(p)'
    BY <1>2, <1>8 DEF Founding, ExistsNotAgain, ProbeCreate
  <2> QED
    BY <1>5, <1>8, <2>1 DEF ExistsNotAgain, ProbeCreate, NoShmYet, NoSemYet
<1>9. CASE UnprobeAgain(p)
  <2>1. Founding(p)'
    BY <1>2, <1>9 DEF Founding, UnprobeAgain, ShmUnlink
  <2> QED
    BY <1>5, <1>9, <2>1 DEF UnprobeAgain, ShmUnlink, NoShmYet, NoSemYet
<1>10. CASE OpenShm(p)
  <2>1. pc[p] = "create" /\ shmName = None
    BY <1>2, <1>10 DEF OpenShm, Founding
  <2>2. /\ Goto(p, "create", "truncate") /\ shmName' = p /\ shmOf' = [shmOf EXCEPT ![p] = p]
        /\ UNCHANGED <<semName, shm, sem, working, origin, semOf, reg, copy1, copy2>>
    BY <1>4, <1>10, <2>1 DEF OpenShm, ShmOpen
  <2>3. /\ pc'[p] = "truncate" /\ shmOf'[p] = p
        /\ \A q \in Procs : q # p => pc'[q] = pc[q] /\ shmOf'[q] = shmOf[q]
    BY <2>2
  <2>4. \A q \in Procs : shmOf[q] # p
    BY <2>1 DEF CrewInv, UnbornShm, NoShmYet, NoSemYet
  <2>5. Founding(p)'
    BY <1>2, <2>1, <2>2, <2>3, <2>4 DEF Founding
  <2>6. Sized' /\ Coupled'
    BY <2>2, <2>3 DEF CrewInv, Sized, Coupled, WithShm, WithSem
  <2>7. UnbornShm'
    BY <2>2, <2>3 DEF CrewInv, UnbornShm, NoShmYet, NoSemYet
  <2> QED
    BY <1>2, <2>2, <2>3, <2>5, <2>6, <2>7, LoneStep DEF OutsidePts
<1>11. CASE Truncate(p)
  <2>1. /\ Goto(p, "truncate", "semopen") /\ shm' = [shm EXCEPT ![shmOf[p]].sized = TRUE]
        /\ UNCHANGED <<shmName, semName, sem, working, origin, shmOf, semOf, reg, copy1, copy2>>
    BY <1>11 DEF Truncate, ShmTruncate
  <2>2. shmOf[p] = p /\ \A q \in Procs : q # p => shmOf[q] # p
    BY <1>2, <2>1 DEF Founding
  <2>3. /\ pc'[p] = "semopen" /\ \A q \in Procs : q # p => pc'[q] = pc[q]
        /\ shm'[p].sized /\ \A o \in Procs : o # p => shm'[o] = shm[o]
    <3>1. \A seg \in Segment : [seg EXCEPT !.sized = TRUE].sized
      BY DEF Segment
    <3> QED
      BY <2>1, <2>2, <3>1
  <2>4. Founding(p)'
    BY <1>2, <2>1, <2>2, <2>3 DEF Founding
  <2>5. \A q \in Procs : q # p /\ pc[q] \in WithShm => shmOf[q] \in Procs /\ shmOf[q] # p
    BY <2>2 DEF IInv, Handles
  <2>6. Sized'
    BY <2>1, <2>2, <2>3, <2>5 DEF CrewInv, Sized
  <2>7. Coupled' /\ UnbornShm'
    BY <2>1, <2>3 DEF CrewInv, Coupled, UnbornShm, WithSem, NoShmYet, NoSemYet
  <2>8. \A q \in Procs : InSection(q) => pc[q] \in WithShm
    BY DEF InSection, WithShm, WithSem, Sections, RefSections, CtrSections
  <2>9. \A q \in Procs : q # p /\ InSection(q) => shm'[shmOf[q]] = shm[shmOf[q]]
    BY <2>3, <2>5, <2>8
  <2> QED
    BY <1>2, <2>1, <2>4, <2>6, <2>7, <2>9, LoneStep DEF OutsidePts
<1>12. CASE OpenSem(p)
  <2>1. semName = None /\ origin[p] /\ p \notin Clis /\ pc[p] = "semopen"
    BY <1>2, <1>4, <1>12 DEF OpenSem, Founding
  <2>2. /\ Goto(p, "semopen", "init") /\ semName' = p /\ semOf' = [semOf EXCEPT ![p] = p]
        /\ UNCHANGED <<shmName, shm, working, origin, shmOf, reg, copy1, copy2>>
    BY <1>4, <1>12, <2>1 DEF OpenSem, SemOpen
  <2>3. /\ pc'[p] = "init" /\ semOf'[p] = p
        /\ \A q \in Procs : q # p => pc'[q] = pc[q] /\ semOf'[q] = semOf[q]
    BY <2>2
  <2>4. Founding(p)'
    BY <1>2, <2>1, <2>2, <2>3 DEF Founding
  <2>5. shmOf[p] = p /\ \A q \in Procs : q # p => shmOf[q] # p
    BY <1>2, <2>1 DEF Founding
  <2>6. Sized'
    BY <2>1, <2>2, <2>3 DEF CrewInv, Sized, WithShm
  <2>7. Coupled'
    BY <2>2, <2>3, <2>5 DEF CrewInv, Coupled
  <2>8. UnbornShm'
    BY <2>2, <2>3 DEF CrewInv, UnbornShm, NoShmYet, NoSemYet
  <2> QED
    BY <1>2, <2>2, <2>3, <2>4, <2>6, <2>7, <2>8, LoneStep DEF OutsidePts
<1>13. CASE InitWords(p)
  <2>1. pc[p] = "init" /\ shmOf[p] = p /\ shmName = p /\ \A q \in Procs : q # p => shmOf[q] # p
    BY <1>2, <1>13 DEF InitWords, Founding
  <2>2. shm[p].sized
    BY <2>1 DEF CrewInv, Sized, WithShm, WithSem
  <2>3. /\ Goto(p, "init", "register")
        /\ shm' = [shm EXCEPT ![p] = [sized |-> TRUE, ref |-> 0, ctr |-> 0]]
        /\ UNCHANGED <<shmName, semName, sem, working, origin, shmOf, semOf, reg, copy1, copy2>>
    BY <1>13, <2>1, <2>2 DEF InitWords
  <2>4. /\ pc'[p] = "register" /\ \A q \in Procs : q # p => pc'[q] = pc[q]
        /\ shm'[p] = [sized |-> TRUE, ref |-> 0, ctr |-> 0]
        /\ \A o \in Procs : o # p => shm'[o] = shm[o]
    BY <2>3
  <2>5. Founding(p)'
    BY <1>2, <2>1, <2>3, <2>4 DEF Founding
  <2>6. \A q \in Procs : q # p /\ pc[q] \in WithShm => shmOf[q] \in Procs /\ shmOf[q] # p
    BY <2>1 DEF IInv, Handles
  <2>7. Sized'
    BY <2>1, <2>3, <2>4, <2>6 DEF CrewInv, Sized
  <2>8. Coupled' /\ UnbornShm'
    BY <2>1, <2>3, <2>4 DEF CrewInv, Coupled, UnbornShm, WithSem, NoShmYet, NoSemYet
  <2>9. \A q \in Procs : InSection(q) => pc[q] \in WithShm
    BY DEF InSection, WithShm, WithSem, Sections, RefSections, CtrSections
  <2>10. \A q \in Procs : q # p /\ InSection(q) => shm'[shmOf[q]] = shm[shmOf[q]]
    BY <2>4, <2>6, <2>9
  <2>11. shm'[shmName'].ref = 0
    BY <2>1, <2>3, <2>4
  <2> QED
    BY <1>2, <2>3, <2>5, <2>7, <2>8, <2>10, <2>11, LoneStep DEF OutsidePts
<1>14. ~Exists(p) /\ ~ExistsAgain(p) /\ ~OpenShmDenied(p)
  BY <1>2, <1>4 DEF Exists, ExistsAgain, OpenShmDenied, ProbeFound, ShmOpenDenied, Founding
<1> QED
  BY <1>6, <1>7, <1>8, <1>9, <1>10, <1>11, <1>12, <1>13, <1>14
     DEF Open, EnterRegister, Enter, LeaveRegister, Leave

LEMMA UnlinkCrew ==
  ASSUME Known, NEW p \in Procs, UnlinkSem(p) \/ UnlinkShm(p)
  PROVE  CrewInv'
<1> USE DEF Known
<1>1. PICK to \in {"unlink_shm", "done"} :
        /\ pc' = [pc EXCEPT ![p] = to] /\ Unlinking(p) /\ UNCHANGED <<origin, shmOf, semOf, reg, shm>>
        /\ to = "unlink_shm" => shmName' = shmName /\ semName' = None
        /\ to = "done" => pc[p] = "unlink_shm" /\ shmName' = None /\ semName' = semName
  BY DEF UnlinkSem, UnlinkShm, SemUnlink, ShmUnlink, Goto, KeepLocals, Unlinking
<1>2. Crew = {} /\ \A q \in Procs : Busy(q) => q = p
  BY <1>1 DEF CrewInv, Settled, NoCrew, Busy
<1>3. pc'[p] = to /\ \A q \in Procs : q # p => pc'[q] = pc[q]
  BY <1>1 DEF IInv, TypeOK
<1>4. to = "done" => shmName' = None /\ semName' = None
  BY <1>1, <1>2 DEF CrewInv, NoCrew
<1>5. ~Opening(p)'
  BY <1>3 DEF Opening, OpeningPts
<1>6. Sized' /\ Coupled'
  BY <1>1, <1>3 DEF CrewInv, Sized, Coupled, WithShm, WithSem
<1>7. UnbornShm'
  BY <1>1, <1>3, CrossMemAssumption DEF CrewInv, UnbornShm, NoShmYet, NoSemYet
<1> QED
  BY <1>1, <1>2, <1>3, <1>4, <1>5, <1>6, <1>7, LoneStep DEF Step1, OutsidePts, EndedPts

-----------------------------------------------------------------------------
(* Registering and leaving: the count follows the crew.                    *)

\* Nobody but p is inside a section of the semaphore the names are bound to.
LEMMA OthersElsewhere ==
  ASSUME Known, NEW p \in Procs, InSection(p), semOf[p] = semName
  PROVE  /\ \A q \in Procs : q # p /\ InSection(q) => semOf[q] # semName /\ shmOf[q] # shmOf[p]
                                                    /\ q \notin Crew /\ shmOf[q] \in Procs
         /\ shmOf[p] \in Procs
<1> USE DEF Known
<1>1. \A q \in Procs : InSection(q) => pc[q] \in WithSem /\ shmOf[q] \in Procs
  BY DEF IInv, Handles, InSection, WithShm, WithSem, Sections, RefSections, CtrSections
<1>2. \A q \in Procs : q # p /\ InSection(q) => semOf[q] # semName
  BY DEF IInv, MutualExclusion
<1>3. \A q \in Procs : q # p /\ InSection(q) => shmOf[q] # shmOf[p]
  BY <1>1, <1>2 DEF CrewInv, Coupled
<1>4. \A q \in Procs : q # p /\ InSection(q) => q \notin Crew
  BY <1>2 DEF CrewInv, NamesInUse, Crew
<1> QED
  BY <1>1, <1>2, <1>3, <1>4

\* Storing a reference count touches nothing else.
LEMMA StoreRef ==
  ASSUME IInv, NEW p \in Procs, shmOf[p] \in Procs, NEW v \in Int, Store(p, "ref", v)
  PROVE  /\ shm'[shmOf[p]].ref = v
         /\ shm'[shmOf[p]].sized = shm[shmOf[p]].sized
         /\ shm'[shmOf[p]].ctr = shm[shmOf[p]].ctr
         /\ \A o \in Procs : o # shmOf[p] => shm'[o] = shm[o]
<1>1. shm' = [shm EXCEPT ![shmOf[p]] = [shm[shmOf[p]] EXCEPT !.ref = v]]
  BY DEF Store
<1>2. shm \in [Procs -> Segment]
  BY DEF IInv, TypeOK, MemTypeOK
<1>3. /\ shm'[shmOf[p]] = [shm[shmOf[p]] EXCEPT !.ref = v] /\ shm[shmOf[p]] \in Segment
      /\ \A o \in Procs : o # shmOf[p] => shm'[o] = shm[o]
  BY <1>1, <1>2
<1> HIDE <1>1
<1>4. \A seg \in Segment : /\ [seg EXCEPT !.ref = v].ref = v /\ [seg EXCEPT !.ref = v].sized = seg.sized
                             /\ [seg EXCEPT !.ref = v].ctr = seg.ctr
  BY DEF Segment
<1> QED
  BY <1>3, <1>4

LEMMA RegisterCrew ==
  ASSUME Known, NEW p \in Procs, LeaveRegister(p)
  PROVE  CrewInv'
<1> USE DEF Known
<1>1. PICK to \in {"spawn", "work"} :
        /\ pc[p] = "in_register" /\ pc' = [pc EXCEPT ![p] = to] /\ reg' = [reg EXCEPT ![p] = 0]
        /\ Store(p, "ref", reg[p] + 1)
        /\ UNCHANGED <<shmName, semName, origin, shmOf, semOf>>
  BY DEF LeaveRegister, Leave, Goto
<1>2. /\ pc'[p] = to /\ \A q \in Procs : q # p => pc'[q] = pc[q] /\ reg'[q] = reg[q]
      /\ reg[p] \in Int
  BY <1>1 DEF IInv, TypeOK
<1>3. InSection(p) /\ Opening(p) /\ Busy(p)
  BY <1>1 DEF InSection, Sections, RefSections, Opening, OpeningPts, Busy
<1>4. shmOf[p] = shmName /\ semOf[p] = semName
  BY <1>1, <1>3 DEF CrewInv, NoCrew, Settled, Founding, Joining, OwnShmPts, OwnSemPts
<1>5. Crew' = Crew \cup {p} /\ p \notin Crew
  <2>1. to \in CrewPts /\ pc[p] \notin CrewPts
    BY <1>1 DEF CrewPts, RegisteredPts, RunningPts
  <2> QED
    BY <1>2, <2>1, CrewIs, CrewIsNext DEF CrewAtPts
<1>6. reg[p] = Cardinality(Crew) /\ IsFiniteSet(Crew)
  BY <1>1, <1>3, <1>4 DEF CrewInv, Counted, ReadIsFresh, Word, RefSections
<1>7. /\ shm'[shmName].ref = reg[p] + 1 /\ shm'[shmName].sized = shm[shmName].sized
      /\ \A o \in Procs : o # shmName => shm'[o] = shm[o]
  BY <1>1, <1>2, <1>3, <1>4, OthersElsewhere, StoreRef
<1>8. Counted'
  BY <1>1, <1>5, <1>6, <1>7, FS_AddElement DEF Counted
<1>9. \A q \in Procs : Opening(q)' \/ Unlinking(q)' => q # p /\ pc'[q] = pc[q] /\ Crew # {}
  BY <1>2, <1>3 DEF Opening, OpeningPts, Unlinking, CrewInv, NoCrew, Busy
<1>10. Settled' /\ NoCrew'
  <2>1. \A q \in Procs : Opening(q)' => Opening(q)
    BY <1>9 DEF Opening
  <2>2. \A q \in Procs : Unlinking(q)' => Unlinking(q)
    BY <1>9 DEF Unlinking
  <2>3. \A q \in Procs : Opening(q)' => Joining(q)'
    BY <1>1, <1>9, <2>1 DEF CrewInv, Settled, Joining
  <2> QED
    BY <1>5, <1>9, <2>2, <2>3 DEF CrewInv, Settled, NoCrew
<1>11. NamesInUse'
  <2>1. \A q \in Procs : Registered(q)' => q = p \/ Registered(q)
    BY <1>2 DEF Registered
  <2> QED
    BY <1>1, <1>4, <2>1 DEF CrewInv, NamesInUse
<1>12. UnbornShm' /\ Coupled'
  BY <1>1, <1>2 DEF CrewInv, UnbornShm, Coupled, NoShmYet, NoSemYet, WithSem
<1>13. Sized'
  <2>1. \A q \in Procs : pc'[q] \in WithShm \ {"truncate"} =>
                          pc[q] \in WithShm \ {"truncate"} /\ shmOf[q] \in Procs
    BY <1>1, <1>2 DEF IInv, Handles, WithShm, WithSem
  <2> QED
    BY <1>1, <1>7, <2>1 DEF CrewInv, Sized
<1>14. LastOut'
  BY <1>2, <1>5 DEF LastOut
<1>15. OneActing'
  <2>1. Crew # {} => ~origin[p]
    BY <1>3 DEF CrewInv, Settled, Joining
  <2> QED
    BY <1>1, <1>5, <2>1 DEF CrewInv, OneActing
<1>16. ReadIsFresh'
  <2> SUFFICES ASSUME NEW q \in Procs, InSection(q)'
               PROVE  (reg[q] = shm[shmOf[q]][Word(q)])'
    BY DEF ReadIsFresh
  <2>1. q # p /\ InSection(q)
    BY <1>2 DEF InSection, Sections, RefSections, CtrSections
  <2>2. shm'[shmOf[q]] = shm[shmOf[q]]
    BY <1>3, <1>4, <1>7, <2>1, OthersElsewhere
  <2> QED
    BY <1>1, <1>2, <2>1, <2>2 DEF CrewInv, ReadIsFresh, Word
<1> QED
  BY <1>8, <1>10, <1>11, <1>12, <1>13, <1>14, <1>15, <1>16 DEF CrewInv

LEMMA DropCrew ==
  ASSUME Known, NEW p \in Procs, LeaveDrop(p)
  PROVE  CrewInv'
<1> USE DEF Known
<1> DEFINE to == IF reg[p] = 1 THEN "unlink_sem" ELSE "done"
<1>1. /\ pc[p] = "in_drop" /\ pc' = [pc EXCEPT ![p] = to] /\ reg' = [reg EXCEPT ![p] = 0]
      /\ Store(p, "ref", reg[p] - 1)
      /\ UNCHANGED <<shmName, semName, origin, shmOf, semOf>>
  BY DEF LeaveDrop, Leave, Goto
<1>2. /\ pc'[p] = to /\ \A q \in Procs : q # p => pc'[q] = pc[q] /\ reg'[q] = reg[q]
      /\ reg[p] \in Int /\ to \in {"unlink_sem", "done"}
  BY <1>1 DEF IInv, TypeOK
<1> HIDE DEF to
<1>3. p \in Crew /\ InSection(p)
  BY <1>1, CrewIs DEF CrewAtPts, CrewPts, RegisteredPts, InSection, Sections, RefSections
<1>4. shmOf[p] = shmName /\ semOf[p] = semName
  BY <1>3 DEF CrewInv, NamesInUse, Crew
<1>5. Crew' = Crew \ {p}
  <2>1. to \notin CrewPts
    BY <1>2 DEF CrewPts, RegisteredPts, RunningPts
  <2> QED
    BY <1>2, <2>1, CrewIs, CrewIsNext DEF CrewAtPts
<1>6. reg[p] = Cardinality(Crew) /\ IsFiniteSet(Crew)
  BY <1>1, <1>3, <1>4 DEF CrewInv, Counted, ReadIsFresh, Word, RefSections
<1>7. reg[p] = 1 <=> Crew' = {}
  <2>1. reg[p] = 1 <=> \E x : Crew = {x}
    BY <1>6, FS_Singleton
  <2> QED
    BY <1>3, <1>5, <2>1
<1>8. /\ shm'[shmName].ref = reg[p] - 1 /\ shm'[shmName].sized = shm[shmName].sized
      /\ \A o \in Procs : o # shmName => shm'[o] = shm[o]
  BY <1>1, <1>2, <1>3, <1>4, OthersElsewhere, StoreRef
<1>9. ~Opening(p)' /\ \A q \in Procs : ~Unlinking(q)
  BY <1>2, <1>3 DEF Opening, OpeningPts, CrewInv, Settled
<1>10. Crew' = {} => \A q \in Procs : ~Opening(q)
  BY <1>1, <1>5 DEF CrewInv, LastOut
<1>11. \A q \in Procs : pc'[q] # "in_drop"
  <2>1. \A q \in Procs : pc[q] = "in_drop" => InSection(q) /\ q \in Crew
    BY CrewIs DEF CrewAtPts, CrewPts, RegisteredPts, InSection, Sections, RefSections
  <2> QED
    BY <1>2, <1>3, <1>4, <2>1, OthersElsewhere
<1>12. \A q \in Procs : Opening(q)' => q # p /\ Opening(q) /\ pc'[q] = pc[q]
  BY <1>2, <1>9 DEF Opening
<1>13. NoCrew'
  <2> SUFFICES ASSUME Crew' = {} PROVE NoCrew'
    BY DEF NoCrew
  <2>1. to = "unlink_sem"
    BY <1>7 DEF to
  <2>2. \A q \in Procs : ~Opening(q)'
    BY <1>10, <1>12
  <2>3. \A q \in Procs : Unlinking(q)' <=> q = p
    BY <1>2, <1>9, <2>1 DEF Unlinking
  <2>4. \A q \in Procs : pc'[q] # "unlink_shm"
    BY <1>2, <1>9, <2>1 DEF Unlinking
  <2> QED
    BY <2>2, <2>3, <2>4 DEF NoCrew, Busy
<1>14. Settled'
  <2> SUFFICES ASSUME Crew' # {}, NEW q \in Procs
               PROVE  ~Unlinking(q)' /\ (Opening(q)' => Joining(q)')
    BY DEF Settled
  <2>1. to = "done"
    BY <1>7 DEF to
  <2>2. ~Unlinking(q)'
    BY <1>2, <1>9, <2>1 DEF Unlinking
  <2>3. Opening(q)' => Joining(q)'
    BY <1>1, <1>3, <1>12 DEF CrewInv, Settled, Joining
  <2> QED
    BY <2>2, <2>3
<1>15. NamesInUse'
  <2>1. \A q \in Procs : Registered(q)' => q # p /\ Registered(q)
    BY <1>2 DEF Registered, RegisteredPts, RunningPts
  <2> QED
    BY <1>1, <2>1 DEF CrewInv, NamesInUse
<1>16. UnbornShm' /\ Coupled'
  BY <1>1, <1>2 DEF CrewInv, UnbornShm, Coupled, NoShmYet, NoSemYet, WithSem
<1>17. Sized'
  <2>1. \A q \in Procs : pc'[q] \in WithShm \ {"truncate"} =>
                          pc[q] \in WithShm \ {"truncate"} /\ shmOf[q] \in Procs
    BY <1>1, <1>2 DEF IInv, Handles, WithShm, WithSem
  <2> QED
    BY <1>1, <1>8, <2>1 DEF CrewInv, Sized
<1>18. Counted'
  <2>1. Crew' # {} \/ \A q \in Procs : pc'[q] \notin {"register", "in_register"}
    BY <1>10, <1>12 DEF Opening, OpeningPts
  <2> QED
    BY <1>1, <1>3, <1>5, <1>6, <1>8, <2>1, FS_RemoveElement DEF Counted
<1>19. LastOut' /\ OneActing'
  BY <1>1, <1>5, <1>11 DEF CrewInv, LastOut, OneActing
<1>20. ReadIsFresh'
  <2> SUFFICES ASSUME NEW q \in Procs, InSection(q)'
               PROVE  (reg[q] = shm[shmOf[q]][Word(q)])'
    BY DEF ReadIsFresh
  <2>1. q # p /\ InSection(q)
    BY <1>2 DEF InSection, Sections, RefSections, CtrSections
  <2>2. shm'[shmOf[q]] = shm[shmOf[q]]
    BY <1>3, <1>4, <1>8, <2>1, OthersElsewhere
  <2> QED
    BY <1>1, <1>2, <2>1, <2>2 DEF CrewInv, ReadIsFresh, Word
<1> QED
  BY <1>13, <1>14, <1>15, <1>16, <1>17, <1>18, <1>19, <1>20 DEF CrewInv

-----------------------------------------------------------------------------
(* Every step.                                                             *)

LEMMA MoveMain ==
  ASSUME Known, NEW p \in Procs,
         NEW from \in {"spawn", "loop", "tick", "log", "copies", "spawn2", "in_log", "cleanup"},
         NEW to \in {"loop", "cleanup", "tick", "standby", "drop"},
         Goto(p, from, to), UNCHANGED <<memVars, origin, shmOf, semOf>>,
         \A q \in Procs : q # p => reg'[q] = reg[q]
  PROVE  CrewInv'
<1>1. from \in CrewPts /\ to \in CrewPts /\ to \notin Sections
  BY DEF CrewPts, RegisteredPts, RunningPts, Sections, RefSections, CtrSections
<1>2. Step1(p, to) /\ pc[p] = from
  BY DEF Goto, Step1
<1> QED
  BY <1>1, <1>2, MoveCrew

LEMMA LeaveCtr ==
  ASSUME Known, NEW p \in Procs,
         NEW section \in CtrSections \ {"in_set"}, NEW to \in {"log", "copies", "pause", "drop"},
         Leave(p, section, to), UNCHANGED shm \/ \E v \in Int : Store(p, "ctr", v), UNCHANGED origin
  PROVE  CrewInv'
<1>1. section \in CrewPts /\ to \in CrewPts /\ to \notin Sections
  BY DEF CrewPts, RegisteredPts, RunningPts, Sections, RefSections, CtrSections
<1> QED
  BY <1>1, LeaveCrew

LEMMA MainCrew ==
  ASSUME Known, NEW p \in Procs, RunMain(p)
  PROVE  CrewInv'
<1> USE DEF Known
<1>0. /\ pc \in [Procs -> Points] /\ reg \in [Procs -> Int]
      /\ Clis \subseteq Procs /\ Copy1s \subseteq Procs /\ Copy2s \subseteq Procs
  BY CounterLoggerAssumption DEF IInv, TypeOK
<1> USE <1>0
<1>1. CASE SpawnCli(p)
  <2>1. UNCHANGED <<memVars, origin, shmOf, semOf, reg>>
    BY <1>1 DEF SpawnCli, KeepLocals
  <2>2. ASSUME NEW c \in Clis, StartChild(p, c, "spawn", "loop")
        PROVE  CrewInv'
    BY <2>1, <2>2, ChildCrew DEF CrewPts, RegisteredPts, RunningPts, Sections, RefSections, CtrSections
  <2> QED
    BY <1>1, <2>1, <2>2, MoveMain DEF SpawnCli
<1>2. ASSUME NEW at \in {"spawn", "tick", "log", "copies", "spawn2"}, StartFails(p, at)
      PROVE  CrewInv'
  BY <1>2, MoveMain DEF StartFails, KeepLocals
<1>3. CASE Loop(p)
  <2>1. PICK to \in {"cleanup", "tick", "standby"} : Goto(p, "loop", to)
    BY <1>3 DEF Loop
  <2> QED
    BY <1>3, <2>1, MoveMain DEF Loop, KeepLocals
<1>4. CASE EnterTick(p)
  BY <1>4, EnterCrew DEF EnterTick, Points, OpeningPts, RunningPts, LeavingPts, CrewPts, RegisteredPts, Sections, RefSections, CtrSections
<1>5. CASE LeaveTick(p)
  <2>1. I32(reg[p] + 1) \in Int
    BY I32Type
  <2> QED
    BY <1>5, <2>1, LeaveCtr DEF LeaveTick, CtrSections
<1>6. CASE EnterLog(p)
  BY <1>6, EnterCrew DEF EnterLog, Points, OpeningPts, RunningPts, LeavingPts, CrewPts, RegisteredPts, Sections, RefSections, CtrSections
<1>7. CASE LeaveLog(p)
  BY <1>7, LeaveCtr DEF LeaveLog, CtrSections
<1>8. CASE LogFails(p)
  BY <1>8, MoveMain DEF LogFails
<1>9. CASE CopiesStillRunning(p) \/ EndIteration(p)
  <2>1. PICK at \in {"tick", "log", "copies"} : Goto(p, at, "loop")
    BY <1>9 DEF CopiesStillRunning, EndIteration
  <2> QED
    BY <1>9, <2>1, MoveMain DEF CopiesStillRunning, EndIteration, KeepLocals
<1>10. CASE SpawnCopy1(p)
  <2>1. PICK c \in Copy1s : StartChild(p, c, pc[p], "spawn2")
    BY <1>10 DEF SpawnCopy1
  <2>2. pc[p] \in {"tick", "log", "copies"} /\ UNCHANGED <<memVars, origin, shmOf, semOf, reg>>
    BY <1>10 DEF SpawnCopy1
  <2> QED
    BY <2>1, <2>2, ChildCrew DEF CrewPts, RegisteredPts, RunningPts, Sections, RefSections, CtrSections
<1>11. CASE SpawnCopy2(p)
  <2>1. PICK c \in Copy2s : StartChild(p, c, "spawn2", "loop")
    BY <1>11 DEF SpawnCopy2
  <2>2. UNCHANGED <<memVars, origin, shmOf, semOf, reg>>
    BY <1>11 DEF SpawnCopy2
  <2> QED
    BY <2>1, <2>2, ChildCrew DEF CrewPts, RegisteredPts, RunningPts, Sections, RefSections, CtrSections
<1>12. CASE EnterStandby(p)
  BY <1>12, EnterCrew DEF EnterStandby, Points, OpeningPts, RunningPts, LeavingPts, CrewPts, RegisteredPts, Sections, RefSections, CtrSections
<1>13. CASE LeaveStandby(p)
  <2>1. /\ Leave(p, "in_standby", "loop") /\ UNCHANGED shm /\ pc[p] = "in_standby"
        /\ origin' = [origin EXCEPT ![p] = @ \/ reg[p] = 1] /\ origin \in [Procs -> BOOLEAN]
    BY <1>13 DEF LeaveStandby, Leave, Goto, IInv, TypeOK
  <2>2. p \in Crew
    BY <2>1, CrewIs DEF CrewAtPts, CrewPts, RegisteredPts, RunningPts
  <2>3. reg[p] = Cardinality(Crew) /\ IsFiniteSet(Crew)
    <3>1. shmOf[p] = shmName
      BY <2>2 DEF CrewInv, NamesInUse, Crew
    <3> QED
      BY <2>1, <2>2, <3>1 DEF CrewInv, Counted, ReadIsFresh, Word, InSection, Sections, RefSections
  <2>4. Crew' = Crew
    <3>1. pc' = [pc EXCEPT ![p] = "loop"]
      BY <2>1 DEF Leave, Goto
    <3> QED
      BY <2>1, <3>1, CrewIs, CrewIsNext DEF CrewAtPts, CrewPts, RegisteredPts, RunningPts
  <2>5. OneActing'
    <3>1. CASE reg[p] = 1
      <4>1. PICK x : Crew = {x}
        BY <2>3, <3>1, FS_Singleton
      <4> QED
        BY <2>4, <4>1 DEF OneActing
    <3>2. CASE reg[p] # 1
      BY <2>1, <2>4, <3>2 DEF CrewInv, OneActing
    <3> QED
      BY <3>1, <3>2
  <2>6. \A q \in Procs : q # p => origin'[q] = origin[q]
    BY <2>1
  <2> QED
    BY <2>1, <2>5, <2>6, LeaveCrew DEF CrewPts, RegisteredPts, RunningPts, Sections, RefSections, CtrSections
<1> QED
  BY <1>1, <1>2, <1>3, <1>4, <1>5, <1>6, <1>7, <1>8, <1>9, <1>10, <1>11, <1>12, <1>13 DEF RunMain

LEMMA CopyCrew ==
  ASSUME Known, NEW p \in Procs, RunCopy(p)
  PROVE  CrewInv'
<1> USE DEF Points, OpeningPts, RunningPts, LeavingPts, CrewPts, RegisteredPts,
            Sections, RefSections, CtrSections
<1>1. reg[p] \in Int
  BY DEF Known, IInv, TypeOK
<1>2. CASE EnterAdd(p)
  BY <1>2, EnterCrew DEF EnterAdd
<1>3. CASE EnterDouble(p)
  BY <1>3, EnterCrew DEF EnterDouble
<1>4. CASE EnterHalve(p)
  BY <1>4, EnterCrew DEF EnterHalve
<1>5. CASE LeaveAdd(p)
  BY <1>1, <1>5, I32Type, LeaveCtr DEF LeaveAdd
<1>6. CASE LeaveDouble(p)
  BY <1>1, <1>6, I32Type, LeaveCtr DEF LeaveDouble
<1>7. CASE LeaveHalve(p)
  BY <1>1, <1>7, HalfType, LeaveCtr DEF LeaveHalve
<1> QED
  BY <1>2, <1>3, <1>4, <1>5, <1>6, <1>7 DEF RunCopy

LEMMA CliCrew ==
  ASSUME Known, NEW p \in Procs, RunCli(p) \/ CliInterrupted(p)
  PROVE  CrewInv'
<1>1. CASE EnterSet(p)
  BY <1>1, EnterCrew DEF EnterSet, Points, RunningPts, Sections, RefSections, CtrSections
<1>2. CASE LeaveSet(p)
  BY <1>2, CounterLoggerAssumption, LeaveCrew DEF LeaveSet, Sections, RefSections, CtrSections
<1>3. CASE EndOfInput(p) \/ CliInterrupted(p)
  <2>1. PICK to \in EndedPts : Step1(p, to)
    BY <1>3 DEF EndOfInput, CliInterrupted, Goto, Step1, EndedPts
  <2>2. p \in Clis /\ UNCHANGED <<memVars, origin, shmOf, semOf, reg>>
    BY <1>3 DEF EndOfInput, CliInterrupted, Goto, KeepLocals, Known, Kinds
  <2>3. to \notin Sections
    BY DEF EndedPts, Sections, RefSections, CtrSections
  <2> QED
    BY <2>1, <2>2, <2>3, MoveCrew
<1> QED
  BY <1>1, <1>2, <1>3 DEF RunCli

LEMMA ExitCrew ==
  ASSUME Known, NEW p \in Procs, Exit(p)
  PROVE  CrewInv'
<1>1. CASE KillCli(p)
  BY <1>1, MoveMain DEF KillCli
<1>2. CASE MayDrop(p) /\ EnterDrop(p)
  <2>1. \A q \in Procs : Opening(q) => Crew # {p}
    BY <1>2 DEF MayDrop, Known, Orderly
  <2> QED
    BY <1>2, <2>1, EnterCrew
       DEF EnterDrop, Points, LeavingPts, CrewPts, RegisteredPts, Sections, RefSections, CtrSections
<1> QED
  BY <1>1, <1>2, DropCrew, UnlinkCrew DEF Exit

LEMMA OpenCrew ==
  ASSUME Known, NEW p \in Procs, Open(p)
  PROVE  CrewInv'
<1>1. CASE EnterRegister(p)
  BY <1>1, EnterCrew DEF EnterRegister, Points, OpeningPts, Sections, RefSections, CtrSections
<1>2. CASE pc[p] \notin {"register", "in_register"}
  BY <1>2, OpenAlone, OpenWithCrew
<1>3. CASE pc[p] \in {"register", "in_register"}
  <2>1. EnterRegister(p) \/ LeaveRegister(p)
    BY <1>3 DEF Open, Exists, ExistsNot, Unprobe, ExistsAgain, ExistsNotAgain, UnprobeAgain, OpenShm,
                OpenShmDenied, Truncate, OpenSem, InitWords, Goto
  <2> QED
    BY <1>1, <2>1, RegisterCrew
<1> QED
  BY <1>2, <1>3

\* Nothing of what the crew agrees on changes.
LEMMA StillCrew ==
  ASSUME Known, UNCHANGED <<memVars, pc, origin, shmOf, semOf, reg>>
  PROVE  CrewInv'
<1> USE DEF Known
<1>1. \A q \in Procs : Calmly(q)
  BY DEF Calmly
<1>2. OneActing'
  <2>1. Crew' = Crew
    BY <1>1, CrewSame
  <2> QED
    BY <2>1 DEF CrewInv, OneActing
<1>3. ReadIsFresh'
  BY DEF CrewInv, ReadIsFresh, InSection, Word, memVars
<1> QED
  BY <1>1, <1>2, <1>3, SteadyStep DEF memVars

LEMMA CrewInit == Init => CrewInv
<1> SUFFICES ASSUME Init PROVE CrewInv
  OBVIOUS
<1>1. \A p \in Procs : ~Registered(p) /\ ~Busy(p) /\ ~InSection(p)
  BY DEF Init, Registered, RegisteredPts, RunningPts, Busy, Opening, OpeningPts, Unlinking,
         InSection, Sections, RefSections, CtrSections
<1>2. Crew = {}
  BY <1>1 DEF Crew
<1>3. NoCrew
  BY <1>1 DEF Init, MemInit, NoCrew, Busy
<1>4. Counted
  BY <1>2, FS_EmptySet DEF Counted, Init
<1>5. UnbornShm
  BY CrossMemAssumption DEF Init, MemInit, UnbornShm
<1>6. Sized /\ Coupled
  BY DEF Init, Sized, Coupled, WithShm, WithSem
<1> QED
  BY <1>1, <1>2, <1>3, <1>4, <1>5, <1>6
     DEF CrewInv, Settled, NamesInUse, LastOut, Busy, OneActing, ReadIsFresh

LEMMA CrewStep ==
  ASSUME Known, [Next]_vars
  PROVE  CrewInv'
<1>1. ASSUME NEW p \in Procs, (MayStart /\ Start(p)) \/ Step(p) \/ SigInt(p) \/ Crash(p)
      PROVE  CrewInv'
  <2>1. ~Crash(p)
    BY DEF Known, Orderly, Crash
  <2>2. CASE SigInt(p)
    BY <2>2, StillCrew DEF SigInt
  <2> QED
    BY <1>1, <2>1, <2>2, StartCrew, OpenCrew, MainCrew, CopyCrew, CliCrew, ExitCrew DEF Step
<1>2. CASE UNCHANGED vars
  BY <1>2, StillCrew DEF vars, procVars, memVars
<1> QED
  BY <1>1, <1>2 DEF Next, Finished

\* What the crew agrees on, in every reachable state.
THEOREM Agreement == ASSUME Orderly PROVE Spec => [](IInv /\ Kinds /\ CrewInv)
<1> DEFINE All == IInv /\ Kinds /\ CrewInv
<1>1. Init => All
  BY InitInv, KindsInit, CrewInit
<1>2. All /\ [Next]_vars => All'
  <2> SUFFICES ASSUME All, [Next]_vars PROVE All'
    OBVIOUS
  <2>1. IInv' /\ Kinds'
    BY StepInv, KindsStep
  <2> QED
    BY <2>1, CrewStep DEF Known
<1> QED
  BY <1>1, <1>2, PTL DEF Spec

\* ref_ctr is the number of instances that use the segment.
THEOREM CountIsExact == ASSUME Orderly PROVE Spec => []RefCountExact
<1>1. CrewInv => RefCountExact
  <2> SUFFICES ASSUME CrewInv, NEW o \in Procs, Users(o) # {}
               PROVE  shm[o].ref = Cardinality(Users(o))
    BY DEF RefCountExact
  <2>1. Users(o) = Crew /\ o = shmName
    BY DEF CrewInv, NamesInUse, Users, Crew
  <2> QED
    BY <2>1 DEF CrewInv, Counted
<1> QED
  BY <1>1, Agreement, PTL

\* No update of either word is lost.
THEOREM NoLostUpdate == ASSUME Orderly PROVE Spec => []ReadIsFresh
<1>1. CrewInv => ReadIsFresh
  BY DEF CrewInv
<1> QED
  BY <1>1, Agreement, PTL

-----------------------------------------------------------------------------
(* Who may leave a semaphore at 0.                                          *)

\* No instance faults inside a section.
OnlyClisDie == \A p \in Procs : pc[p] = "dead" => p \in Clis

LEMMA DeathStep ==
  ASSUME Orderly, IInv, CrewInv, OnlyClisDie, [Next]_vars
  PROVE  OnlyClisDie'
<1>0. /\ pc \in [Procs -> Points] /\ Clis \cup Copy1s \cup Copy2s \subseteq Procs
      /\ \A q \in Procs : pc[q] \in WithSem => shm[shmOf[q]].sized
  BY CounterLoggerAssumption DEF IInv, TypeOK, CrewInv, Sized, WithShm, WithSem
<1>1. ASSUME NEW p \in Procs, NEW from \in WithSem, NEW section \in Sections, NEW word,
             Enter(p, from, section, word)
      PROVE  OnlyClisDie'
  BY <1>0, <1>1 DEF Enter, Goto, OnlyClisDie, Sections, RefSections, CtrSections
<1>2. ASSUME NEW p \in Procs, NEW to, to # "dead", pc' = [pc EXCEPT ![p] = to]
      PROVE  OnlyClisDie'
  BY <1>0, <1>2 DEF OnlyClisDie
<1>3. ASSUME NEW p \in Procs, NEW c \in Procs, NEW from, NEW to, to # "dead",
             StartChild(p, c, from, to)
      PROVE  OnlyClisDie'
  BY <1>0, <1>3 DEF OnlyClisDie, StartChild
<1> USE DEF Sections, RefSections, CtrSections, WithSem
<1>4. ASSUME NEW p \in Procs, Open(p) PROVE OnlyClisDie'
  <2>1. CASE EnterRegister(p)
    BY <1>1, <2>1 DEF EnterRegister
  <2>2. CASE InitWords(p)
    BY <1>0, <1>2, <2>2 DEF InitWords, Goto
  <2>3. CASE LeaveRegister(p) \/ OpenSem(p) \/ OpenShm(p) \/ OpenShmDenied(p) \/ Truncate(p)
    BY <1>2, <2>3 DEF LeaveRegister, Leave, OpenSem, OpenShm, OpenShmDenied, Truncate, Goto
  <2>4. CASE Exists(p) \/ ExistsNot(p) \/ Unprobe(p) \/ ExistsAgain(p) \/ ExistsNotAgain(p)
               \/ UnprobeAgain(p)
    BY <1>2, <2>4 DEF Exists, ExistsNot, Unprobe, ExistsAgain, ExistsNotAgain, UnprobeAgain, Goto
  <2> QED
    BY <1>4, <2>1, <2>2, <2>3, <2>4 DEF Open
<1>5. ASSUME NEW p \in Procs, RunMain(p) PROVE OnlyClisDie'
  <2>1. CASE EnterTick(p) \/ EnterLog(p) \/ EnterStandby(p)
    BY <1>1, <2>1 DEF EnterTick, EnterLog, EnterStandby
  <2>2. CASE LeaveTick(p) \/ LeaveLog(p) \/ LeaveStandby(p) \/ LogFails(p) \/ Loop(p)
    BY <1>2, <2>2 DEF LeaveTick, LeaveLog, LeaveStandby, Leave, LogFails, Loop, Goto
  <2>3. CASE SpawnCli(p) \/ SpawnCopy1(p) \/ SpawnCopy2(p)
    BY <1>0, <1>2, <1>3, <2>3 DEF SpawnCli, SpawnCopy1, SpawnCopy2, Goto
  <2>4. CASE CopiesStillRunning(p) \/ EndIteration(p)
    BY <1>2, <2>4 DEF CopiesStillRunning, EndIteration, Goto
  <2>5. ASSUME NEW at \in {"spawn", "tick", "log", "copies", "spawn2"}, StartFails(p, at)
        PROVE  OnlyClisDie'
    BY <1>2, <2>5 DEF StartFails, Goto
  <2> QED
    BY <1>5, <2>1, <2>2, <2>3, <2>4, <2>5 DEF RunMain
<1>6. ASSUME NEW p \in Procs, RunCopy(p) \/ RunCli(p) \/ Exit(p) PROVE OnlyClisDie'
  <2>1. CASE EnterAdd(p) \/ EnterDouble(p) \/ EnterHalve(p) \/ EnterSet(p) \/ EnterDrop(p)
    BY <1>1, <2>1 DEF EnterAdd, EnterDouble, EnterHalve, EnterSet, EnterDrop
  <2>2. CASE LeaveAdd(p) \/ LeaveDouble(p) \/ LeaveHalve(p) \/ LeaveSet(p) \/ LeaveDrop(p)
    BY <1>2, <2>2 DEF LeaveAdd, LeaveDouble, LeaveHalve, LeaveSet, LeaveDrop, Leave, Goto
  <2>3. CASE EndOfInput(p) \/ KillCli(p) \/ UnlinkSem(p) \/ UnlinkShm(p)
    BY <1>2, <2>3 DEF EndOfInput, KillCli, UnlinkSem, UnlinkShm, Goto
  <2> QED
    BY <1>6, <2>1, <2>2, <2>3 DEF RunCopy, RunCli, Exit
<1>7. ASSUME NEW p \in Procs, Start(p) \/ SigInt(p) \/ CliInterrupted(p) \/ Crash(p)
      PROVE  OnlyClisDie'
  BY <1>0, <1>2, <1>7 DEF Start, SigInt, CliInterrupted, Crash, Goto, Orderly, OnlyClisDie
<1>8. CASE UNCHANGED vars
  BY <1>8 DEF vars, procVars, OnlyClisDie
<1> QED
  BY <1>4, <1>5, <1>6, <1>7, <1>8 DEF Next, Finished, Step

\* In an orderly world whose log can be written, nothing but a CLI killed in the middle
\* of its store can make the others wait for ever: each semaphore at 0 has somebody
\* inside, or such a CLI (logger_cli.c has no handler for SIGINT).
TakenByTheLiving ==
  \A p \in Procs : semOf[p] # None /\ sem[semOf[p]] = 0 =>
    \E q \in Procs : /\ semOf[q] = semOf[p]
                     /\ InSection(q) \/ (q \in Clis /\ pc[q] = "dead")

THEOREM OnlyCliStrands ==
  ASSUME Orderly, "write" \notin Faults PROVE Spec => []TakenByTheLiving
<1>1. Init => OnlyClisDie
  BY DEF Init, OnlyClisDie
<1>2. OnlyClisDie /\ TakenIsHeld => TakenByTheLiving
  BY DEF OnlyClisDie, TakenIsHeld, TakenByTheLiving, Holds
<1>3. IInv /\ Kinds /\ CrewInv /\ [Next]_vars /\ OnlyClisDie => OnlyClisDie'
  BY DeathStep
<1> QED
  BY <1>1, <1>2, <1>3, Agreement, NoLostPost, PTL DEF Spec
-----------------------------------------------------------------------------
(* A main that finds itself alone.                                          *)

\* The one step by which a main comes out of its look at ref_ctr on standby.
LEMMA OutOfStandby ==
  ASSUME Orderly, IInv, NEW m \in Mains, pc[m] = "in_standby", pc'[m] # "in_standby", Next
  PROVE  LeaveStandby(m)
<1>0. /\ pc \in [Procs -> Points] /\ m \in Procs /\ m \notin Clis
      /\ Clis \cup Copy1s \cup Copy2s \subseteq Procs
  BY CounterLoggerAssumption DEF IInv, TypeOK
<1>1. \A p \in Procs : \A to : pc' = [pc EXCEPT ![p] = to] => p = m
  BY <1>0
<1>2. PICK p \in Procs : Start(p) \/ Step(p) \/ SigInt(p) \/ Crash(p)
  BY DEF Next, Finished, vars, procVars
<1>3. ASSUME NEW from, NEW section, NEW word, Enter(p, from, section, word)
      PROVE  p = m /\ from = "in_standby"
  BY <1>1, <1>3 DEF Enter, Goto
<1>4. ASSUME NEW section, NEW to, Leave(p, section, to)
      PROVE  p = m /\ section = "in_standby"
  BY <1>1, <1>4 DEF Leave, Goto
<1>5. ASSUME NEW from, NEW to, Goto(p, from, to)
      PROVE  p = m /\ from = "in_standby"
  BY <1>1, <1>5 DEF Goto
<1>6. ASSUME NEW c \in Procs, NEW from, NEW to, StartChild(p, c, from, to)
      PROVE  from = "in_standby"
  BY <1>0, <1>6 DEF StartChild
<1>7. ~Start(p) /\ ~SigInt(p) /\ ~Crash(p) /\ ~CliInterrupted(p)
  BY <1>0, <1>1, <1>5 DEF Start, SigInt, Crash, CliInterrupted, Orderly
<1>8. ~Open(p)
  BY <1>3, <1>4, <1>5 DEF Open, Exists, ExistsNot, Unprobe, ExistsAgain, ExistsNotAgain,
     UnprobeAgain, OpenShm, OpenShmDenied, Truncate, OpenSem, InitWords, EnterRegister, LeaveRegister
<1>9. ~RunCopy(p) /\ ~RunCli(p) /\ ~Exit(p)
  BY <1>3, <1>4, <1>5 DEF RunCopy, EnterAdd, LeaveAdd, EnterDouble, LeaveDouble, EnterHalve,
     LeaveHalve, RunCli, EnterSet, LeaveSet, EndOfInput, Exit, KillCli, EnterDrop, LeaveDrop,
     UnlinkSem, UnlinkShm
<1>10. RunMain(p)
  BY <1>2, <1>7, <1>8, <1>9 DEF Step
<1>11. ~SpawnCli(p) /\ ~SpawnCopy1(p) /\ ~SpawnCopy2(p)
  BY <1>0, <1>5, <1>6 DEF SpawnCli, SpawnCopy1, SpawnCopy2
<1>12. /\ \A at \in {"spawn", "tick", "log", "copies", "spawn2"} : ~StartFails(p, at)
       /\ ~Loop(p) /\ ~CopiesStillRunning(p) /\ ~EndIteration(p)
  BY <1>5 DEF StartFails, Loop, CopiesStillRunning, EndIteration
<1>13. ~EnterTick(p) /\ ~LeaveTick(p) /\ ~EnterLog(p) /\ ~LeaveLog(p) /\ ~LogFails(p) /\ ~EnterStandby(p)
  BY <1>3, <1>4, <1>5 DEF EnterTick, LeaveTick, EnterLog, LeaveLog, LogFails, EnterStandby
<1>14. LeaveStandby(p)
  BY <1>10, <1>11, <1>12, <1>13 DEF RunMain
<1> QED
  BY <1>4, <1>14 DEF LeaveStandby

\* A standby that looks at ref_ctr when nobody else is registered finds 1 there, and
\* has become the origin when its look ends.
THEOREM TheLastTakesOver == ASSUME Orderly PROVE Spec => LastTakesOver
<1> DEFINE Looks == \A m \in Mains :
      pc[m] = "in_standby" /\ Crew = {m} /\ pc'[m] # "in_standby" => origin'[m]
<1>1. IInv /\ Kinds /\ CrewInv /\ [Next]_vars => [Looks]_vars
  <2> SUFFICES ASSUME IInv, CrewInv, Next, NEW m \in Mains,
                      pc[m] = "in_standby", Crew = {m}, pc'[m] # "in_standby"
               PROVE  origin'[m]
    OBVIOUS
  <2>1. LeaveStandby(m)
    BY OutOfStandby
  <2>2. m \in Procs /\ origin \in [Procs -> BOOLEAN] /\ InSection(m) /\ Word(m) = "ref"
    BY CounterLoggerAssumption
       DEF IInv, TypeOK, InSection, Word, Sections, RefSections
  <2>3. shm[shmName].ref = 1
    BY FS_Singleton DEF CrewInv, Counted
  <2>4. shmOf[m] = shmName
    BY <2>2 DEF CrewInv, NamesInUse, Crew
  <2>5. reg[m] = 1
    BY <2>2, <2>3, <2>4 DEF CrewInv, ReadIsFresh
  <2> QED
    BY <2>1, <2>2, <2>5 DEF LeaveStandby
<1> QED
  BY <1>1, Agreement, PTL DEF Spec, LastTakesOver
=============================================================================
