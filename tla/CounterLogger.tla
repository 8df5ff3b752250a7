--------------------------- MODULE CounterLogger ----------------------------
(***************************************************************************)
(* The counter logger: src/logger/logger.c, every mode of it, and the CLI  *)
(* child src/logger/logger_cli.c, over the shared memory of CrossMem.      *)
(*                                                                         *)
(* Each process run is at a program point pc[p].  A critical section is    *)
(* two steps: Enter (sem_wait, then the load of the word it uses) and      *)
(* Leave (the store, then sem_post); a load commutes to the left up to its *)
(* wait and a store to the right up to its post, so nothing is lost by     *)
(* joining them, while the window between load and store stays open.       *)
(* Timers are abstracted: in every iteration any timer may be due.         *)
(*                                                                         *)
(* A definition whose name ends in _Bug, with the one it stands next to,   *)
(* is a plausible mistake that one of the properties must detect; no       *)
(* specification uses it.                                                  *)
(***************************************************************************)
EXTENDS CrossMem, FiniteSets

CONSTANTS
  Mains, Copy1s, Copy2s, Clis,  \* the runs of --mode=main, copy1, copy2 and of logger_cli
  Owner,      \* Owner[c]: the main whose child the CLI c is
  CliValues,  \* the numbers typed at the CLI prompt
  WordLimit,  \* a counter word holds -WordLimit .. WordLimit-1: 2^31 in the program
  MaxCtr,     \* bound: the origin stops ticking here (model only)
  Faults,     \* which of "crash", "write", "spawn" may happen
  Overlap     \* may instances come and go at any time?  See MayStart and MayDrop

ASSUME CounterLoggerAssumption ==
  /\ Procs = Mains \cup Copy1s \cup Copy2s \cup Clis
  /\ Mains \cap Copy1s = {} /\ Mains \cap Copy2s = {} /\ Copy1s \cap Copy2s = {}
  /\ Clis \cap (Mains \cup Copy1s \cup Copy2s) = {}
  /\ Owner \in [Clis -> Mains]
  /\ CliValues \subseteq Int
  /\ WordLimit \in Nat \ {0}
  /\ MaxCtr \in Int
  /\ Faults \subseteq {"crash", "write", "spawn"}
  /\ Overlap \in BOOLEAN

VARIABLES
  pc,       \* program point
  working,  \* is_working; for a CLI: FALSE once SIGINT is pending
  origin,   \* is_origin_inst
  shmOf,    \* the segment a process has mapped
  semOf,    \* the semaphore it has opened
  reg,      \* the value loaded in the current critical section
  copy1,    \* copy1_proc of each main; None while uninitialised
  copy2     \* copy2_proc

procVars == <<pc, working, origin, shmOf, semOf, reg, copy1, copy2>>
vars == <<memVars, procVars>>

\* Program points, in program order: opening, running, leaving.
OpeningPts == {"exists?", "unprobe", "exists2?", "unprobe2", "open", "create",
               "truncate", "semopen", "init", "register", "in_register"}
RunningPts == {"spawn", "loop", "standby", "in_standby", "tick", "in_tick",
               "log", "in_log", "copies", "spawn2", "work", "in_add", "in_double",
               "pause", "in_halve", "prompt", "in_set"}
LeavingPts == {"cleanup", "drop", "in_drop", "unlink_sem", "unlink_shm"}
EndedPts   == {"done", "dead"}
Points     == {"idle"} \cup OpeningPts \cup RunningPts \cup LeavingPts \cup EndedPts

\* The points inside a critical section: semaphore held, word loaded, not yet stored.
RefSections == {"in_register", "in_standby", "in_drop"}
CtrSections == {"in_tick", "in_log", "in_add", "in_double", "in_halve", "in_set"}
Sections    == RefSections \cup CtrSections

\* Not yet started, or ended; between the increment of ref_ctr and its decrement.
IdlePts       == {"idle"} \cup EndedPts
RegisteredPts == RunningPts \cup {"cleanup", "drop", "in_drop"}

Alive(p)   == pc[p] \notin IdlePts
Opening(p) == pc[p] \in OpeningPts
Leaving(p) == pc[p] \in {"in_drop", "unlink_sem", "unlink_shm"}

\* The instances that ref_ctr counts; a CLI never registers.
Registered(p) == p \notin Clis /\ pc[p] \in RegisteredPts
Crew == {p \in Procs : Registered(p)}

TypeOK ==
  /\ MemTypeOK
  /\ pc \in [Procs -> Points]
  /\ working \in [Procs -> BOOLEAN]
  /\ origin \in [Procs -> BOOLEAN]
  /\ shmOf \in [Procs -> Procs \cup {None}]
  /\ semOf \in [Procs -> Procs \cup {None}]
  /\ reg \in [Procs -> Int]
  /\ copy1 \in [Mains -> Copy1s \cup {None}]
  /\ copy2 \in [Mains -> Copy2s \cup {None}]

Init ==
  /\ MemInit
  /\ pc = [p \in Procs |-> "idle"]
  /\ working = [p \in Procs |-> TRUE]
  /\ origin = [p \in Procs |-> FALSE]
  /\ shmOf = [p \in Procs |-> None]
  /\ semOf = [p \in Procs |-> None]
  /\ reg = [p \in Procs |-> 0]
  /\ copy1 = [m \in Mains |-> None]
  /\ copy2 = [m \in Mains |-> None]

-----------------------------------------------------------------------------
(* Moving between program points.                                           *)

Goto(p, from, to) ==
  /\ pc[p] = from
  /\ pc' = [pc EXCEPT ![p] = to]

KeepLocals == UNCHANGED <<working, origin, shmOf, semOf, reg, copy1, copy2>>

\* Critical section of p on a word of its segment: wait and load.  Touching a
\* segment that has no size yet raises SIGBUS, and p dies holding the semaphore.
Enter(p, from, section, word) ==
  /\ pc[p] = from
  /\ SemWait(semOf[p])
  /\ IF shm[shmOf[p]].sized
       THEN /\ Goto(p, from, section)
            /\ reg' = [reg EXCEPT ![p] = shm[shmOf[p]][word]]
       ELSE /\ Goto(p, from, "dead")
            /\ UNCHANGED reg
  /\ UNCHANGED <<shmName, semName, shm, working, origin, shmOf, semOf, copy1, copy2>>

\* The same without the wait.
EnterUnlocked_Bug(p, from, section, word) ==
  /\ Goto(p, from, section)
  /\ reg' = [reg EXCEPT ![p] = shm[shmOf[p]][word]]
  /\ UNCHANGED <<memVars, working, origin, shmOf, semOf, copy1, copy2>>

\* Post.  A section that writes its word stores it first.
Leave(p, section, to) ==
  /\ Goto(p, section, to)
  /\ SemPost(semOf[p])
  /\ reg' = [reg EXCEPT ![p] = 0]
  /\ UNCHANGED <<shmName, semName, working, shmOf, semOf, copy1, copy2>>

Store(p, word, v) == shm' = [shm EXCEPT ![shmOf[p]][word] = v]

\* i32 arithmetic.  Overflow is undefined in C; the add, shift and store the
\* compilers emit for these read-modify-writes wrap around.
I32(x) == ((x + WordLimit) % (2 * WordLimit)) - WordLimit

-----------------------------------------------------------------------------
(* Opening: the same calls in every mode and in the CLI.                    *)

\* A main is started from a shell.
Start(m) ==
  /\ m \in Mains
  /\ Goto(m, "idle", "exists?")
  /\ UNCHANGED memVars /\ KeepLocals

\* shm_existed = is_exist_shared_mem(...): somebody's object, or placeholder, is there.
Exists(p) ==
  /\ Goto(p, "exists?", "exists2?")
  /\ ProbeFound
  /\ KeepLocals

\* The name was free: the exclusive create worked and has to be undone.
ExistsNot(p) ==
  /\ Goto(p, "exists?", "unprobe")
  /\ ProbeCreate
  /\ KeepLocals

\* After the unlink a main goes on as the origin; the other modes give up.
Unprobe(p) ==
  /\ Goto(p, "unprobe", IF p \in Mains THEN "exists2?" ELSE "done")
  /\ ShmUnlink
  /\ origin' = [origin EXCEPT ![p] = p \in Mains]
  /\ UNCHANGED <<working, shmOf, semOf, reg, copy1, copy2>>

\* open_shared_mem asks again whether the object exists, and truncates it only if not.
ExistsAgain(p) ==
  /\ Goto(p, "exists2?", "open")
  /\ ProbeFound
  /\ KeepLocals

ExistsNotAgain(p) ==
  /\ Goto(p, "exists2?", "unprobe2")
  /\ ProbeCreate
  /\ KeepLocals

UnprobeAgain(p) ==
  /\ Goto(p, "unprobe2", "create")
  /\ ShmUnlink
  /\ KeepLocals

OpenShm(p) ==
  /\ Goto(p, "open", "semopen") \/ Goto(p, "create", "truncate")
  /\ \E o \in Procs : ShmOpen(p, o) /\ shmOf' = [shmOf EXCEPT ![p] = o]
  /\ UNCHANGED <<working, origin, semOf, reg, copy1, copy2>>

\* Another instance's placeholder is in the way: "Unable to create shared memory".
OpenShmDenied(p) ==
  /\ Goto(p, "open", "done") \/ Goto(p, "create", "done")
  /\ ShmOpenDenied
  /\ KeepLocals

Truncate(p) ==
  /\ Goto(p, "truncate", "semopen")
  /\ ShmTruncate(shmOf[p])
  /\ KeepLocals

OpenSem(p) ==
  /\ Goto(p, "semopen", IF p \in Clis THEN "prompt"
                        ELSE IF origin[p] THEN "init" ELSE "register")
  /\ \E s \in Procs : SemOpen(p, s) /\ semOf' = [semOf EXCEPT ![p] = s]
  /\ UNCHANGED <<working, origin, shmOf, reg, copy1, copy2>>

\* The origin zeroes both words without taking the semaphore.  The two stores are
\* one step here: nobody relates the words to each other.
InitWords(p) ==
  /\ pc[p] = "init"
  /\ IF shm[shmOf[p]].sized
       THEN /\ Goto(p, "init", "register")
            /\ shm' = [shm EXCEPT ![shmOf[p]] = [sized |-> TRUE, ref |-> 0, ctr |-> 0]]
       ELSE /\ Goto(p, "init", "dead")
            /\ UNCHANGED shm
  /\ UNCHANGED <<shmName, semName, sem>> /\ KeepLocals

EnterRegister_Bug(p) == EnterUnlocked_Bug(p, "register", "in_register", "ref")

EnterRegister(p) == Enter(p, "register", "in_register", "ref")

LeaveRegister(p) ==
  /\ Leave(p, "in_register", IF p \in Mains THEN "spawn" ELSE "work")
  /\ Store(p, "ref", reg[p] + 1)
  /\ UNCHANGED origin

Open(p) ==
  \/ Exists(p) \/ ExistsNot(p) \/ Unprobe(p)
  \/ ExistsAgain(p) \/ ExistsNotAgain(p) \/ UnprobeAgain(p)
  \/ OpenShm(p) \/ OpenShmDenied(p) \/ Truncate(p) \/ OpenSem(p)
  \/ InitWords(p) \/ EnterRegister(p) \/ LeaveRegister(p)

-----------------------------------------------------------------------------
(* Running: --mode=main.                                                    *)

\* start_process(child): exec succeeded, the child is at its first call.
StartChild(m, child, from, to) ==
  /\ pc[m] = from /\ pc[child] = "idle"
  /\ pc' = [pc EXCEPT ![m] = to, ![child] = "exists?"]

\* fork or exec failed: goto cleanup.
StartFails(m, from) ==
  /\ "spawn" \in Faults
  /\ Goto(m, from, "cleanup")
  /\ UNCHANGED memVars /\ KeepLocals

\* The CLI child; a main that owns no member of Clis has one whose input is
\* at end of file, which exits at once.
SpawnCli(m) ==
  /\ pc[m] = "spawn"
  /\ IF \E c \in Clis : Owner[c] = m
       THEN \E c \in Clis : Owner[c] = m /\ StartChild(m, c, "spawn", "loop")
       ELSE Goto(m, "spawn", "loop")
  /\ UNCHANGED memVars /\ KeepLocals

\* while (is_working): one more iteration, as origin or as standby, or the end.
Loop_Bug(m) ==   \* the flag is not looked at
  /\ Goto(m, "loop", IF origin[m] THEN "tick" ELSE "standby")
  /\ UNCHANGED memVars /\ KeepLocals

Loop(m) ==
  /\ Goto(m, "loop", IF ~working[m] THEN "cleanup" ELSE IF origin[m] THEN "tick" ELSE "standby")
  /\ UNCHANGED memVars /\ KeepLocals

\* The origin's three timers are looked at in this order; each may be due or not.
EnterTick_Bug(m) ==
  /\ pc[m] = "tick" => shm[shmOf[m]].ctr < MaxCtr
  /\ EnterUnlocked_Bug(m, "tick", "in_tick", "ctr")

EnterTick(m) ==
  /\ pc[m] = "tick" => shm[shmOf[m]].ctr < MaxCtr
  /\ Enter(m, "tick", "in_tick", "ctr")

LeaveTick(m) ==
  /\ Leave(m, "in_tick", "log")
  /\ Store(m, "ctr", I32(reg[m] + 1))
  /\ UNCHANGED origin

EnterLog(m) ==
  /\ pc[m] \in {"tick", "log"}
  /\ Enter(m, pc[m], "in_log", "ctr")

LeaveLog(m) == Leave(m, "in_log", "copies") /\ UNCHANGED <<shm, origin>>

\* write_info returned -1: goto cleanup, past the post.
LogFails(m) ==
  /\ "write" \in Faults
  /\ Goto(m, "in_log", "cleanup")
  /\ reg' = [reg EXCEPT ![m] = 0]
  /\ UNCHANGED <<memVars, working, origin, shmOf, semOf, copy1, copy2>>

\* is_process_running: exact for a live child; one that has ended may still be
\* reported as running, when the 10us timeout expires before the first waitpid.
CopiesStarted(m) == copy2[m] # None
CopiesRunning_Bug(m) == CopiesStarted(m) /\ Alive(copy1[m]) /\ Alive(copy2[m])
CopiesRunning(m) == CopiesStarted(m) /\ (Alive(copy1[m]) \/ Alive(copy2[m]))

CopiesStillRunning(m) ==
  /\ pc[m] \in {"tick", "log", "copies"}
  /\ CopiesStarted(m)
  /\ Goto(m, pc[m], "loop")
  /\ UNCHANGED memVars /\ KeepLocals

\* copy1 and then copy2 are started.  Bound: the pools of unused runs.
SpawnCopy1(m) ==
  /\ pc[m] \in {"tick", "log", "copies"}
  /\ ~CopiesRunning(m)
  /\ \E c \in Copy1s :
       /\ StartChild(m, c, pc[m], "spawn2")
       /\ copy1' = [copy1 EXCEPT ![m] = c]
  /\ UNCHANGED <<memVars, working, origin, shmOf, semOf, reg, copy2>>

SpawnCopy2(m) ==
  /\ pc[m] = "spawn2"
  /\ \E c \in Copy2s :
       /\ StartChild(m, c, "spawn2", "loop")
       /\ copy2' = [copy2 EXCEPT ![m] = c]
  /\ UNCHANGED <<memVars, working, origin, shmOf, semOf, reg, copy1>>

\* No further timer is due in this iteration.
EndIteration(m) ==
  /\ pc[m] \in {"tick", "log", "copies"}
  /\ Goto(m, pc[m], "loop")
  /\ UNCHANGED memVars /\ KeepLocals

EnterStandby(m) == Enter(m, "standby", "in_standby", "ref")

\* "If all the other mains die, become new main."
LeaveStandby_Bug(m) ==   \* does not wait for the last of the others
  /\ Leave(m, "in_standby", "loop")
  /\ UNCHANGED shm
  /\ origin' = [origin EXCEPT ![m] = @ \/ reg[m] <= 2]

LeaveStandbyNever_Bug(m) ==   \* waits for its own departure, too
  /\ Leave(m, "in_standby", "loop")
  /\ UNCHANGED shm
  /\ origin' = [origin EXCEPT ![m] = @ \/ reg[m] = 0]

LeaveStandbyHeld_Bug(m) ==   \* posts only when it takes over
  /\ IF reg[m] = 1 THEN Leave(m, "in_standby", "loop")
     ELSE /\ Goto(m, "in_standby", "loop")
          /\ reg' = [reg EXCEPT ![m] = 0]
          /\ UNCHANGED <<shmName, semName, sem, working, shmOf, semOf, copy1, copy2>>
  /\ UNCHANGED shm
  /\ origin' = [origin EXCEPT ![m] = @ \/ reg[m] = 1]

LeaveStandby(m) ==
  /\ Leave(m, "in_standby", "loop")
  /\ UNCHANGED shm
  /\ origin' = [origin EXCEPT ![m] = @ \/ reg[m] = 1]

RunMain(m) ==
  \/ SpawnCli(m) \/ StartFails(m, "spawn") \/ Loop(m)
  \/ EnterTick(m) \/ LeaveTick(m) \/ EnterLog(m) \/ LeaveLog(m) \/ LogFails(m)
  \/ CopiesStillRunning(m) \/ SpawnCopy1(m) \/ SpawnCopy2(m) \/ EndIteration(m)
  \/ (\E at \in {"tick", "log", "copies", "spawn2"} : StartFails(m, at))
  \/ EnterStandby(m) \/ LeaveStandby(m)

-----------------------------------------------------------------------------
(* Running: --mode=copy1 adds 10; --mode=copy2 doubles, pauses and halves.  *)

EnterAdd_Bug(c) == c \in Copy1s /\ EnterUnlocked_Bug(c, "work", "in_add", "ctr")

EnterAdd(c) == c \in Copy1s /\ Enter(c, "work", "in_add", "ctr")

LeaveAdd(c) ==
  /\ Leave(c, "in_add", "drop")
  /\ Store(c, "ctr", I32(reg[c] + 10))
  /\ UNCHANGED origin

EnterDouble(c) == c \in Copy2s /\ Enter(c, "work", "in_double", "ctr")

LeaveDouble(c) ==
  /\ Leave(c, "in_double", "pause")
  /\ Store(c, "ctr", I32(reg[c] * 2))
  /\ UNCHANGED origin

EnterHalve_Bug(c) == EnterUnlocked_Bug(c, "pause", "in_halve", "ctr")

EnterHalve(c) == Enter(c, "pause", "in_halve", "ctr")

\* C's division rounds towards zero.
Half(x) == IF x >= 0 THEN x \div 2 ELSE -((-x) \div 2)

LeaveHalve(c) ==
  /\ Leave(c, "in_halve", "drop")
  /\ Store(c, "ctr", Half(reg[c]))
  /\ UNCHANGED origin

RunCopy(c) ==
  \/ EnterAdd(c) \/ LeaveAdd(c)
  \/ EnterDouble(c) \/ LeaveDouble(c) \/ EnterHalve(c) \/ LeaveHalve(c)

(* Running: logger_cli stores the number it is given; end of input ends it. *)

EnterSet(c) == Enter(c, "prompt", "in_set", "ctr")

LeaveSet(c) ==
  /\ Leave(c, "in_set", "prompt")
  /\ \E v \in CliValues : Store(c, "ctr", v)
  /\ UNCHANGED origin

EndOfInput(c) ==
  /\ Goto(c, "prompt", "done")
  /\ UNCHANGED memVars /\ KeepLocals

RunCli(c) == EnterSet(c) \/ LeaveSet(c) \/ EndOfInput(c)

-----------------------------------------------------------------------------
(* The environment's part, for Overlap = FALSE.  The code waits for none of  *)
(* this: what its instances do without it, the runs with Overlap show.       *)

\* Nobody is started while the first instance is founding or the last one leaves.
MayStart == Overlap \/ \A q \in Procs : Opening(q) \/ Leaving(q) => Crew \ {q} # {}

\* The last instance does not leave while another one opens, nor a main while its
\* own copies do.
MayDrop(p) ==
  Overlap \/ \A q \in Procs : Opening(q) =>
               Crew # {p} /\ ~(p \in Mains /\ q \in {copy1[p], copy2[p]})

-----------------------------------------------------------------------------
(* Leaving: the cleanup label.                                              *)

\* kill_process(cli_proc): SIGINT, which the CLI does not handle.
KillCli(m) ==
  /\ Goto(m, "cleanup", "drop")
  /\ working' = [p \in Procs |-> working[p] /\ ~(p \in Clis /\ Owner[p] = m)]
  /\ UNCHANGED <<memVars, origin, shmOf, semOf, reg, copy1, copy2>>

\* The result of the wait is ignored, and it failed.
EnterDrop_Bug(p) == EnterUnlocked_Bug(p, "drop", "in_drop", "ref")

EnterDrop(p) == Enter(p, "drop", "in_drop", "ref")

LeaveDrop_Bug(p) ==   \* last_ref is off by one
  /\ Leave(p, "in_drop", IF reg[p] = 2 THEN "unlink_sem" ELSE "done")
  /\ Store(p, "ref", reg[p] - 1)
  /\ UNCHANGED origin

\* The last reference unlinks the names, after it has posted.
LeaveDrop(p) ==
  /\ Leave(p, "in_drop", IF reg[p] = 1 THEN "unlink_sem" ELSE "done")
  /\ Store(p, "ref", reg[p] - 1)
  /\ UNCHANGED origin

UnlinkSem(p) ==
  /\ Goto(p, "unlink_sem", "unlink_shm")
  /\ SemUnlink
  /\ KeepLocals

UnlinkShm(p) ==
  /\ Goto(p, "unlink_shm", "done")
  /\ ShmUnlink
  /\ KeepLocals

Exit(p) == KillCli(p) \/ (MayDrop(p) /\ EnterDrop(p)) \/ LeaveDrop(p) \/ UnlinkSem(p) \/ UnlinkShm(p)

-----------------------------------------------------------------------------
(* The environment.                                                         *)

\* Ctrl-C, delivered at any time.  A main clears is_working; so does a copy,
\* which never reads it.
SigInt(p) ==
  /\ p \in Mains \cup Clis
  /\ Alive(p) /\ working[p]
  /\ working' = [working EXCEPT ![p] = FALSE]
  /\ UNCHANGED <<memVars, pc, origin, shmOf, semOf, reg, copy1, copy2>>

\* The CLI has no handler: a pending SIGINT ends it wherever it is.
CliInterrupted(c) ==
  /\ c \in Clis /\ Alive(c) /\ ~working[c]
  /\ pc' = [pc EXCEPT ![c] = "dead"]
  /\ UNCHANGED memVars /\ KeepLocals

\* SIGKILL, or any other end without cleanup.
Crash(p) ==
  /\ "crash" \in Faults /\ Alive(p)
  /\ pc' = [pc EXCEPT ![p] = "dead"]
  /\ UNCHANGED memVars /\ KeepLocals

\* Every program that was started has ended.
Finished ==
  /\ \A p \in Procs : ~Alive(p)
  /\ \A m \in Mains : pc[m] # "idle"
  /\ UNCHANGED vars

Step(p) == Open(p) \/ RunMain(p) \/ RunCopy(p) \/ RunCli(p) \/ Exit(p) \/ CliInterrupted(p)

Next == (\E p \in Procs : (MayStart /\ Start(p)) \/ Step(p) \/ SigInt(p) \/ Crash(p)) \/ Finished

Spec == Init /\ [][Next]_vars

\* A process whose next step is possible again and again takes it: at a wait this
\* is a semaphore that starves nobody, elsewhere it is the scheduler.
\* Starting programs, Ctrl-C and crashes are left to the user.
FairSpec == Spec /\ \A p \in Procs : SF_vars(Step(p))

-----------------------------------------------------------------------------
(* Properties.                                                              *)

Users(o) == {p \in Procs : Registered(p) /\ shmOf[p] = o}

InSection(p) == pc[p] \in Sections
Word(p) == IF pc[p] \in RefSections THEN "ref" ELSE "ctr"

Acting(m) == Registered(m) /\ origin[m]

\* Two processes are never between load and store under the same semaphore,
\* whatever the interleaving of openings, exits, interrupts and crashes.
MutualExclusion ==
  \A p, q \in Procs :
    p # q /\ InSection(p) /\ InSection(q) => semOf[p] # semOf[q]

\* Inside a section, or gone from one without posting: killed there, or by the
\* failed log write that goes to cleanup (logger.c:245) and waits there.
Holds(p) ==
  \/ InSection(p) \/ pc[p] = "dead"
  \/ "write" \in Faults /\ pc[p] \in {"cleanup", "drop"}

\* No lost post: nobody waits for a semaphore that is free but for its value.  One
\* that is 0 has somebody inside, or somebody who ended one of these ways.
TakenIsHeld ==
  \A p \in Procs : semOf[p] # None /\ sem[semOf[p]] = 0 =>
    \E q \in Procs : semOf[q] = semOf[p] /\ Holds(q)

\* No lost update: what a section loaded is still in memory when it stores.
ReadIsFresh ==
  \A p \in Procs : InSection(p) => reg[p] = shm[shmOf[p]][Word(p)]

\* ref_ctr counts exactly the instances that use the segment.
RefCountExact ==
  \A o \in Procs : Users(o) # {} => shm[o].ref = Cardinality(Users(o))

\* The names are not unlinked, and not bound to anything else, under an
\* instance that is still using the objects.
NamesInUse ==
  \A p \in Procs : Registered(p) => shmName = shmOf[p] /\ semName = semOf[p]

\* At most one main ticks, logs and starts copies.
SingleOrigin ==
  \A m, n \in Mains : Acting(m) /\ Acting(n) => m = n

\* The half of Takeover that is no liveness: a standby whose look at ref_ctr ends
\* when nobody else is registered has become the origin, whoever came and went before.
LastTakesOver ==
  [][\A m \in Mains :
       pc[m] = "in_standby" /\ Crew = {m} /\ pc'[m] # "in_standby" => origin'[m]]_vars

\* Even across a takeover, the copies of one round have ended before another
\* round is started.
OneCopyPair ==
  /\ \A c, d \in Copy1s : Alive(c) /\ Alive(d) => c = d
  /\ \A c, d \in Copy2s : Alive(c) /\ Alive(d) => c = d

\* "If all the other mains die, become new main" (logger.c:271).
Takeover ==
  \A m \in Mains :
    (Registered(m) /\ \A n \in Mains \ {m} : pc[n] \in EndedPts)
      ~> (Acting(m) \/ ~working[m] \/ ~Alive(m))

\* Ctrl-C ends a main: "Handle Ctrl-C" (logger.c:159).
CtrlCEnds ==
  \A m \in Mains : (Alive(m) /\ ~working[m]) ~> ~Alive(m)

\* What the users of the counter see of it.
Leader  == IF \E m \in Mains : Acting(m) THEN CHOOSE m \in Mains : Acting(m) ELSE None
Counter == IF Crew # {} THEN shm[shmName].ctr ELSE 0
Doubled == {c \in Copy2s : pc[c] \in {"pause", "in_halve"}}

\* The logger implements CounterService: between them, the sections of all
\* processes behave as atomic operations on one counter with one leader.
Service == INSTANCE CounterService WITH
  NoLeader <- None, users <- Crew, leader <- Leader, value <- Counter, doubled <- Doubled

ImplementsService == Service!Spec
=============================================================================
