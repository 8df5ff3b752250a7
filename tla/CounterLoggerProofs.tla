------------------------ MODULE CounterLoggerProofs ------------------------
(***************************************************************************)
(* Type correctness and mutual exclusion of CounterLogger, for any number  *)
(* of mains, copies and CLIs, any faults and any overlap of openings with  *)
(* departures: neither depends on how well the instances agree on names.   *)
(*                                                                         *)
(* Mutual exclusion is not inductive by itself.  The strengthening says    *)
(* that a semaphore somebody is inside of has the value 0, that a process  *)
(* at a wait has a semaphore to wait for, and that a process which has not *)
(* reached sem_open cannot yet have created an object others hold, so that *)
(* creating one (value 1) never re-opens a semaphore that is in use.       *)
(***************************************************************************)
EXTENDS CounterLogger, TLAPS

\* The points at which a process has not created a semaphore, ...
NoSemYet == {"idle", "exists?", "unprobe", "exists2?", "unprobe2", "open",
             "create", "truncate", "semopen"}

\* ... has opened one and may go on to wait for it or to post it, ...
WithSem == {"init", "register", "in_register", "spawn", "loop", "standby",
            "in_standby", "tick", "in_tick", "log", "in_log", "copies", "spawn2",
            "work", "in_add", "in_double", "pause", "in_halve", "prompt",
            "in_set", "cleanup", "drop", "in_drop"}

\* ... and has mapped a segment.
WithShm == WithSem \cup {"truncate", "semopen"}

\* A process that can reach a wait or an access has the handles for it.
Handles ==
  /\ \A p \in Procs : pc[p] \in WithSem => semOf[p] \in Procs
  /\ \A p \in Procs : pc[p] \in WithShm => shmOf[p] \in Procs

\* The semaphore a process would create does not exist before sem_open.
Unborn ==
  \A p \in Procs : pc[p] \in NoSemYet =>
    semName # p /\ \A q \in Procs : semOf[q] # p

\* A semaphore is 0 while somebody is between its wait and its post.
Held == \A p \in Procs : InSection(p) => sem[semOf[p]] = 0

IInv == TypeOK /\ Handles /\ Unborn /\ Held /\ MutualExclusion

-----------------------------------------------------------------------------
\* i32 arithmetic stays within the word.
LEMMA I32Type ==
  ASSUME NEW x \in Int
  PROVE  I32(x) \in Int
<1>1. WordLimit \in Nat \ {0}
  BY CounterLoggerAssumption
<1>2. x + WordLimit \in Int /\ 2 * WordLimit \in Int /\ 2 * WordLimit > 0
  BY <1>1
<1>3. (x + WordLimit) % (2 * WordLimit) \in Int
  BY <1>2, SMTT(30)
<1> QED
  BY <1>1, <1>3 DEF I32

LEMMA HalfType ==
  ASSUME NEW x \in Int
  PROVE  Half(x) \in Int
BY DEF Half

-----------------------------------------------------------------------------
(* The four shapes a step can have.                                         *)

\* Points change and nobody enters a critical section; semaphores do not change,
\* but for their name, which may be unlinked.
LEMMA QuietStep ==
  ASSUME IInv, TypeOK',
         semName' \in {semName, None}, UNCHANGED <<sem, semOf>>,
         \A q \in Procs : \/ pc'[q] = pc[q]
                          \/ /\ pc'[q] \notin Sections
                             /\ pc'[q] \in NoSemYet => pc[q] \in NoSemYet
                             /\ pc'[q] \in WithSem => pc[q] \in WithSem,
         \A q \in Procs : pc'[q] \in WithShm => shmOf'[q] \in Procs
  PROVE  IInv'
<1>1. Handles'
  BY DEF IInv, Handles
<1>2. Unborn'
  BY CrossMemAssumption DEF IInv, Unborn
<1>3. Held' /\ MutualExclusion'
  BY DEF IInv, Held, MutualExclusion, InSection
<1> QED
  BY <1>1, <1>2, <1>3 DEF IInv

\* A process waits for its semaphore and enters, or dies of SIGBUS in there.
LEMMA EnterStep ==
  ASSUME IInv, NEW p \in Procs, NEW from \in WithSem, NEW section \in Sections,
         NEW word \in {"ref", "ctr"}, Enter(p, from, section, word)
  PROVE  IInv'
<1> DEFINE s == semOf[p]
<1>1. s \in Procs /\ shmOf[p] \in Procs /\ sem[s] = 1 /\ pc[p] \notin Sections
  BY DEF IInv, TypeOK, MemTypeOK, Handles, Held, InSection, Enter, SemWait, WithShm
<1>2. sem' = [sem EXCEPT ![s] = 0] /\ \A q \in Procs : InSection(q) => semOf[q] # s
  BY <1>1 DEF IInv, TypeOK, MemTypeOK, Held, InSection, Enter, SemWait
<1>3. /\ UNCHANGED <<shmName, semName, shm, working, origin, shmOf, semOf, copy1, copy2>>
      /\ \/ pc' = [pc EXCEPT ![p] = section] /\ reg' = [reg EXCEPT ![p] = shm[shmOf[p]][word]]
         \/ pc' = [pc EXCEPT ![p] = "dead"] /\ UNCHANGED reg
  BY DEF Enter, Goto
<1>4. pc' \in [Procs -> Points] /\ \A q \in Procs : q # p => pc'[q] = pc[q]
  BY <1>3 DEF IInv, TypeOK, Points, EndedPts, OpeningPts, RunningPts, LeavingPts,
              Sections, RefSections, CtrSections
<1>5. pc'[p] = section \/ pc'[p] = "dead"
  BY <1>3 DEF IInv, TypeOK
<1>6. TypeOK'
  <2>1. shm[shmOf[p]][word] \in Int
    BY <1>1 DEF IInv, TypeOK, MemTypeOK, Segment
  <2>2. reg' \in [Procs -> Int]
    BY <1>3, <2>1 DEF IInv, TypeOK
  <2>3. MemTypeOK'
    BY <1>2, <1>3 DEF IInv, TypeOK, MemTypeOK
  <2> QED
    BY <1>3, <1>4, <2>2, <2>3 DEF IInv, TypeOK
<1>7. Handles'
  BY <1>1, <1>3, <1>4 DEF IInv, Handles
<1>8. Unborn'
  BY <1>3, <1>4, <1>5 DEF IInv, Unborn, NoSemYet, Sections, RefSections, CtrSections
<1>9. Held'
  BY <1>1, <1>2, <1>3, <1>4 DEF IInv, TypeOK, MemTypeOK, Held, InSection
<1>10. MutualExclusion'
  BY <1>1, <1>2, <1>3, <1>4 DEF IInv, MutualExclusion, InSection
<1> QED
  BY <1>6, <1>7, <1>8, <1>9, <1>10 DEF IInv

\* A process posts and is outside again.
LEMMA LeaveStep ==
  ASSUME IInv, NEW p \in Procs, NEW section \in Sections,
         NEW to \in (WithSem \cup LeavingPts \cup {"done"}) \ Sections,
         Leave(p, section, to),
         shm' \in [Procs -> Segment], origin' \in [Procs -> BOOLEAN]
  PROVE  IInv'
<1> DEFINE s == semOf[p]
<1>1. InSection(p) /\ s \in Procs /\ shmOf[p] \in Procs /\ sem[s] = 0
  BY DEF IInv, Handles, Held, InSection, Leave, Goto, WithShm, WithSem,
         Sections, RefSections, CtrSections
<1>2. sem' = [sem EXCEPT ![s] = 1] /\ \A q \in Procs : q # p /\ InSection(q) => semOf[q] # s
  BY <1>1 DEF IInv, TypeOK, MemTypeOK, MutualExclusion, Leave, SemPost
<1>3. /\ UNCHANGED <<shmName, semName, working, shmOf, semOf, copy1, copy2>>
      /\ pc' = [pc EXCEPT ![p] = to] /\ reg' = [reg EXCEPT ![p] = 0]
  BY DEF Leave, Goto
<1>4. /\ pc' \in [Procs -> Points] /\ pc'[p] = to
      /\ \A q \in Procs : q # p => pc'[q] = pc[q]
  BY <1>3 DEF IInv, TypeOK, Points, EndedPts, OpeningPts, RunningPts, LeavingPts, WithSem
<1>5. TypeOK'
  <2>1. reg' \in [Procs -> Int]
    BY <1>3 DEF IInv, TypeOK
  <2>2. MemTypeOK'
    BY <1>2, <1>3 DEF IInv, TypeOK, MemTypeOK
  <2> QED
    BY <1>3, <1>4, <2>1, <2>2 DEF IInv, TypeOK
<1>6. Handles'
  <2>1. to \in WithShm => shmOf[p] \in Procs /\ semOf[p] \in Procs
    BY <1>1
  <2> QED
    BY <1>1, <1>3, <1>4, <2>1 DEF IInv, Handles
<1>7. Unborn'
  <2>1. to \notin NoSemYet
    BY DEF NoSemYet, WithSem, LeavingPts
  <2> QED
    BY <1>3, <1>4, <2>1 DEF IInv, Unborn
<1>8. Held'
  BY <1>1, <1>2, <1>3, <1>4 DEF IInv, TypeOK, MemTypeOK, Held, InSection
<1>9. MutualExclusion'
  BY <1>3, <1>4 DEF IInv, MutualExclusion, InSection
<1> QED
  BY <1>5, <1>6, <1>7, <1>8, <1>9 DEF IInv

-----------------------------------------------------------------------------
(* One lemma per group of actions.                                          *)

LEMMA InitInv == Init => IInv
<1> SUFFICES ASSUME Init PROVE IInv
  OBVIOUS
<1>1. TypeOK
  <2>1. MemTypeOK
    BY DEF Init, MemInit, MemTypeOK, FreshSegment, Segment
  <2>2. "idle" \in Points
    BY DEF Points
  <2> QED
    BY <2>1, <2>2 DEF Init, TypeOK
<1>2. Handles /\ Held /\ MutualExclusion
  BY DEF Init, Handles, Held, MutualExclusion, InSection, WithSem, WithShm,
         Sections, RefSections, CtrSections
<1>3. Unborn
  BY CrossMemAssumption DEF Init, MemInit, Unborn
<1> QED
  BY <1>1, <1>2, <1>3 DEF IInv

\* What a step that leaves the semaphores alone must leave well typed.
OthersTyped ==
  /\ shmName \in Procs \cup {None, Probe}
  /\ shm \in [Procs -> Segment]
  /\ working \in [Procs -> BOOLEAN]
  /\ origin \in [Procs -> BOOLEAN]
  /\ shmOf \in [Procs -> Procs \cup {None}]
  /\ reg \in [Procs -> Int]
  /\ copy1 \in [Mains -> Copy1s \cup {None}]
  /\ copy2 \in [Mains -> Copy2s \cup {None}]

LEMMA InvTypes == IInv => OthersTyped /\ Handles /\ semOf \in [Procs -> Procs \cup {None}]
BY DEF IInv, TypeOK, MemTypeOK, OthersTyped

\* One process moves, outside the critical sections.
LEMMA MoveStep ==
  ASSUME IInv, NEW p \in Procs, NEW from, NEW to \in Points \ Sections,
         Goto(p, from, to),
         semName' \in {semName, None}, UNCHANGED <<sem, semOf>>,
         to \in NoSemYet => from \in NoSemYet,
         to \in WithSem => from \in WithSem,
         to \in WithShm => shmOf'[p] \in Procs,
         \A q \in Procs \ {p} : shmOf'[q] = shmOf[q],
         OthersTyped'
  PROVE  IInv'
<1>1. pc' = [pc EXCEPT ![p] = to] /\ pc[p] = from /\ pc \in [Procs -> Points]
  BY DEF Goto, IInv, TypeOK
<1>2. TypeOK'
  BY <1>1 DEF IInv, TypeOK, MemTypeOK, OthersTyped
<1>3. \A q \in Procs : pc'[q] \in WithShm => shmOf'[q] \in Procs
  BY <1>1 DEF IInv, Handles
<1> QED
  BY <1>1, <1>2, <1>3, QuietStep

\* Nobody moves, and the memory is left alone.
LEMMA StillStep ==
  ASSUME IInv, UNCHANGED <<memVars, pc, shmOf, semOf>>, OthersTyped'
  PROVE  IInv'
<1>1. TypeOK'
  BY DEF IInv, TypeOK, MemTypeOK, memVars, OthersTyped
<1>2. \A q \in Procs : pc'[q] \in WithShm => shmOf'[q] \in Procs
  BY DEF IInv, Handles
<1> QED
  BY <1>1, <1>2, QuietStep DEF memVars

-----------------------------------------------------------------------------
\* Storing an integer in a word keeps the segments well typed.
LEMMA StoreType ==
  ASSUME IInv, NEW p \in Procs, NEW word \in {"ref", "ctr"}, NEW v \in Int,
         Store(p, word, v)
  PROVE  shm' \in [Procs -> Segment]
<1>1. shm \in [Procs -> Segment]
  BY DEF IInv, TypeOK, MemTypeOK
<1>2. CASE word = "ref"
  BY <1>1, <1>2 DEF Store, Segment
<1>3. CASE word = "ctr"
  BY <1>1, <1>3 DEF Store, Segment
<1> QED
  BY <1>2, <1>3

\* sem_open is the one step that makes a semaphore, and the one that needs Unborn.
LEMMA OpenSemInv ==
  ASSUME IInv, NEW p \in Procs, OpenSem(p)
  PROVE  IInv'
<1>1. PICK s \in Procs :
        /\ SemOpen(p, s)
        /\ Goto(p, "semopen", IF p \in Clis THEN "prompt"
                              ELSE IF origin[p] THEN "init" ELSE "register")
        /\ semOf' = [semOf EXCEPT ![p] = s]
        /\ UNCHANGED <<working, origin, shmOf, reg, copy1, copy2>>
  BY DEF OpenSem
<1>2. /\ pc[p] = "semopen" /\ pc' \in [Procs -> Points]
      /\ pc'[p] \in {"prompt", "init", "register"}
      /\ \A q \in Procs : q # p => pc'[q] = pc[q]
  BY <1>1 DEF IInv, TypeOK, Goto, Points, OpeningPts, RunningPts
<1>3. /\ \A q \in Procs : q # p => semOf'[q] = semOf[q]
      /\ semOf' \in [Procs -> Procs \cup {None}] /\ semOf'[p] = s
  BY <1>1 DEF IInv, TypeOK
<1>4. semName # p /\ \A q \in Procs : semOf[q] # p
  BY <1>2 DEF IInv, Unborn, NoSemYet
<1>5. /\ semName' = s /\ UNCHANGED <<shmName, shm>> /\ s \in {p, semName}
      /\ sem' = [sem EXCEPT ![p] = 1] \/ sem' = sem
  BY <1>1 DEF SemOpen, memVars
<1>6. shmOf[p] \in Procs
  BY <1>2 DEF IInv, Handles, WithShm
<1>7. \A q \in Procs : InSection(q)' => InSection(q) /\ q # p
  BY <1>2 DEF InSection, Sections, RefSections, CtrSections
<1>8. TypeOK'
  BY <1>1, <1>2, <1>3, <1>5 DEF IInv, TypeOK, MemTypeOK
<1>9. Handles'
  BY <1>1, <1>2, <1>3, <1>6 DEF IInv, Handles
<1>10. Unborn'
  BY <1>1, <1>2, <1>3, <1>5 DEF IInv, Unborn, NoSemYet
<1>11. Held'
  <2>1. \A q \in Procs : InSection(q) => semOf[q] \in Procs
    BY DEF IInv, Handles, InSection, WithSem, Sections, RefSections, CtrSections
  <2> QED
    BY <1>3, <1>4, <1>5, <1>7, <2>1 DEF IInv, TypeOK, MemTypeOK, Held
<1>12. MutualExclusion'
  BY <1>3, <1>7 DEF IInv, MutualExclusion
<1> QED
  BY <1>8, <1>9, <1>10, <1>11, <1>12 DEF IInv

-----------------------------------------------------------------------------
\* Opening.
LEMMA OpenInv ==
  ASSUME IInv, NEW p \in Procs, Open(p)
  PROVE  IInv'
<1> USE InvTypes DEF OthersTyped, Handles, memVars, KeepLocals,
            Points, OpeningPts, RunningPts, EndedPts, Sections, RefSections, CtrSections,
            NoSemYet, WithSem, WithShm
<1>1. CASE Exists(p)
  BY <1>1, MoveStep, CrossMemAssumption DEF Exists, ProbeFound
<1>2. CASE ExistsNot(p)
  BY <1>2, MoveStep DEF ExistsNot, ProbeCreate
<1>3. CASE Unprobe(p)
  <2>1. shmName' = None /\ UNCHANGED <<semName, shm, sem>>
    BY <1>3 DEF Unprobe, ShmUnlink
  <2>2. origin' \in [Procs -> BOOLEAN]
    BY <1>3 DEF Unprobe
  <2>3. \E to \in {"exists2?", "done"} : Goto(p, "unprobe", to)
    BY <1>3 DEF Unprobe
  <2> QED
    BY <1>3, <2>1, <2>2, <2>3, MoveStep DEF Unprobe
<1>4. CASE ExistsAgain(p)
  BY <1>4, MoveStep DEF ExistsAgain, ProbeFound
<1>5. CASE ExistsNotAgain(p)
  BY <1>5, MoveStep DEF ExistsNotAgain, ProbeCreate
<1>6. CASE UnprobeAgain(p)
  BY <1>6, MoveStep DEF UnprobeAgain, ShmUnlink
<1>7. CASE OpenShm(p)
  <2>1. PICK o \in Procs :
          /\ ShmOpen(p, o)
          /\ Goto(p, "open", "semopen") \/ Goto(p, "create", "truncate")
          /\ shmOf' = [shmOf EXCEPT ![p] = o]
          /\ UNCHANGED <<working, origin, semOf, reg, copy1, copy2>>
    BY <1>7 DEF OpenShm
  <2>2. UNCHANGED <<semName, sem, shm>> /\ shmName' \in Procs \cup {None, Probe}
    BY <2>1 DEF ShmOpen
  <2>3. /\ shmOf' \in [Procs -> Procs \cup {None}] /\ shmOf'[p] \in Procs
        /\ \A q \in Procs \ {p} : shmOf'[q] = shmOf[q]
    BY <2>1
  <2>4. OthersTyped'
    BY <2>1, <2>2, <2>3
  <2> QED
    BY <2>1, <2>2, <2>3, <2>4, MoveStep
<1>8. CASE OpenShmDenied(p)
  BY <1>8, MoveStep DEF OpenShmDenied, ShmOpenDenied
<1>9. CASE Truncate(p)
  <2>1. Goto(p, "truncate", "semopen") /\ shmOf[p] \in Procs
    BY <1>9 DEF Truncate, Goto
  <2>2. shm' = [shm EXCEPT ![shmOf[p]].sized = TRUE]
    BY <1>9 DEF Truncate, ShmTruncate
  <2>3. shm' \in [Procs -> Segment]
    <3>1. \A seg \in Segment : [seg EXCEPT !.sized = TRUE] \in Segment
      BY DEF Segment
    <3> QED
      BY <2>1, <2>2, <3>1
  <2>4. UNCHANGED <<shmName, semName, sem, semOf, shmOf>> /\ OthersTyped'
    BY <1>9, <2>3 DEF Truncate, ShmTruncate
  <2> QED
    BY <2>1, <2>4, MoveStep
<1>10. CASE OpenSem(p)
  BY <1>10, OpenSemInv
<1>11. CASE InitWords(p)
  <2>1. PICK to \in {"register", "dead"} : Goto(p, "init", to)
    BY <1>11 DEF InitWords
  <2>2. shmOf[p] \in Procs
    BY <2>1 DEF Goto
  <2>3. shm' \in [Procs -> Segment]
    <3>1. [sized |-> TRUE, ref |-> 0, ctr |-> 0] \in Segment
      BY DEF Segment
    <3> QED
      BY <1>11, <2>2, <3>1 DEF InitWords
  <2>4. UNCHANGED <<shmName, semName, sem, semOf, shmOf>> /\ OthersTyped'
    BY <1>11, <2>3 DEF InitWords
  <2> QED
    BY <2>1, <2>2, <2>4, MoveStep
<1>12. CASE EnterRegister(p)
  BY <1>12, EnterStep DEF EnterRegister
<1>13. CASE LeaveRegister(p)
  <2>1. reg[p] + 1 \in Int
    OBVIOUS
  <2>2. shm' \in [Procs -> Segment] /\ origin' = origin
    BY <1>13, <2>1, StoreType DEF LeaveRegister
  <2> QED
    BY <1>13, <2>2, LeaveStep DEF LeaveRegister
<1> QED
  BY <1>1, <1>2, <1>3, <1>4, <1>5, <1>6, <1>7, <1>8, <1>9, <1>10, <1>11, <1>12, <1>13 DEF Open

-----------------------------------------------------------------------------
\* A main starts a child: both move.
LEMMA ChildStep ==
  ASSUME IInv, NEW m \in Procs, NEW child \in Procs,
         NEW from \in WithSem, NEW to \in (WithSem \cap Points) \ Sections,
         StartChild(m, child, from, to), UNCHANGED <<memVars, shmOf, semOf>>, OthersTyped'
  PROVE  IInv'
<1>1. /\ pc \in [Procs -> Points] /\ pc[m] = from /\ pc[child] = "idle"
      /\ pc' = [pc EXCEPT ![m] = to, ![child] = "exists?"]
  BY DEF IInv, TypeOK, StartChild
<1>2. pc' \in [Procs -> Points]
  BY <1>1 DEF Points, OpeningPts
<1>3. TypeOK'
  BY <1>2 DEF IInv, TypeOK, MemTypeOK, memVars, OthersTyped
<1>4. \A q \in Procs : \/ pc'[q] = pc[q]
                       \/ q = m /\ pc'[q] = to
                       \/ q = child /\ pc'[q] = "exists?"
  BY <1>1
<1>5. /\ "exists?" \notin Sections /\ "idle" \in NoSemYet /\ "exists?" \notin WithShm
      /\ "exists?" \notin WithSem
      /\ \A pt \in WithSem : pt \notin NoSemYet /\ pt \in WithShm
  BY DEF Sections, RefSections, CtrSections, NoSemYet, WithSem, WithShm
<1>6. \A q \in Procs : pc'[q] \in WithShm => shmOf'[q] \in Procs
  BY <1>1, <1>4, <1>5 DEF IInv, Handles
<1> QED
  BY <1>1, <1>3, <1>4, <1>5, <1>6, QuietStep DEF memVars

LEMMA SpawnCopy1Inv ==
  ASSUME IInv, NEW m \in Procs, SpawnCopy1(m)
  PROVE  IInv'
<1>1. PICK c \in Copy1s : StartChild(m, c, pc[m], "spawn2") /\ copy1' = [copy1 EXCEPT ![m] = c]
  BY DEF SpawnCopy1
<1>2. pc[m] \in WithSem /\ "spawn2" \in (WithSem \cap Points) \ Sections
  BY DEF SpawnCopy1, WithSem, Points, RunningPts, Sections, RefSections, CtrSections
<1>3. copy1' \in [Mains -> Copy1s \cup {None}] /\ c \in Procs
  BY <1>1, InvTypes, CounterLoggerAssumption DEF OthersTyped
<1>4. UNCHANGED <<memVars, working, origin, shmOf, semOf, reg, copy2>>
  BY DEF SpawnCopy1
<1>5. OthersTyped'
  BY <1>3, <1>4, InvTypes DEF OthersTyped, memVars
<1> QED
  BY <1>1, <1>2, <1>3, <1>4, <1>5, ChildStep

LEMMA RunMainInv ==
  ASSUME IInv, NEW p \in Procs, RunMain(p)
  PROVE  IInv'
<1> USE InvTypes DEF OthersTyped, Handles, memVars, KeepLocals,
            Points, RunningPts, LeavingPts, Sections, RefSections, CtrSections,
            NoSemYet, WithSem, WithShm
<1>1. CASE SpawnCli(p)
  <2>0. UNCHANGED <<memVars, shmOf, semOf>> /\ OthersTyped'
    BY <1>1 DEF SpawnCli
  <2>1. ASSUME NEW c \in Clis, StartChild(p, c, "spawn", "loop")
        PROVE  IInv'
    <3>1. c \in Procs
      BY CounterLoggerAssumption
    <3>2. "spawn" \in WithSem /\ "loop" \in (WithSem \cap Points) \ Sections
      OBVIOUS
    <3> QED
      BY <2>0, <2>1, <3>1, <3>2, ChildStep
  <2>2. CASE Goto(p, "spawn", "loop")
    <3>1. shmOf[p] \in Procs
      BY <2>2 DEF Goto
    <3> QED
      BY <2>0, <2>2, <3>1, MoveStep
  <2> QED
    BY <1>1, <2>1, <2>2 DEF SpawnCli
<1>2. ASSUME NEW at \in {"spawn", "tick", "log", "copies", "spawn2"}, StartFails(p, at)
      PROVE  IInv'
  <2>1. shmOf[p] \in Procs
    BY <1>2 DEF StartFails, Goto
  <2> QED
    BY <1>2, <2>1, MoveStep DEF StartFails
<1>3. CASE Loop(p)
  <2>1. PICK to \in {"cleanup", "tick", "standby"} : Goto(p, "loop", to)
    BY <1>3 DEF Loop
  <2>2. shmOf[p] \in Procs
    BY <2>1 DEF Goto
  <2> QED
    BY <1>3, <2>1, <2>2, MoveStep DEF Loop
<1>4. CASE EnterTick(p)
  BY <1>4, EnterStep DEF EnterTick
<1>5. CASE LeaveTick(p)
  <2>1. shm' \in [Procs -> Segment] /\ origin' = origin
    BY <1>5, I32Type, StoreType DEF LeaveTick
  <2> QED
    BY <1>5, <2>1, LeaveStep DEF LeaveTick
<1>6. CASE EnterLog(p)
  <2>1. pc[p] \in WithSem
    BY <1>6 DEF EnterLog
  <2> QED
    BY <1>6, <2>1, EnterStep DEF EnterLog
<1>7. CASE LeaveLog(p)
  BY <1>7, LeaveStep DEF LeaveLog
<1>8. CASE LogFails(p)
  <2>1. shmOf[p] \in Procs /\ reg' \in [Procs -> Int]
    BY <1>8 DEF LogFails, Goto
  <2> QED
    BY <1>8, <2>1, MoveStep DEF LogFails
<1>9. CASE CopiesStillRunning(p) \/ EndIteration(p)
  <2>1. PICK at \in {"tick", "log", "copies"} : Goto(p, at, "loop")
    BY <1>9 DEF CopiesStillRunning, EndIteration
  <2>2. shmOf[p] \in Procs
    BY <2>1 DEF Goto
  <2> QED
    BY <1>9, <2>1, <2>2, MoveStep DEF CopiesStillRunning, EndIteration
<1>10. CASE SpawnCopy1(p)
  BY <1>10, SpawnCopy1Inv
<1>11. CASE SpawnCopy2(p)
  <2>1. PICK c \in Copy2s : StartChild(p, c, "spawn2", "loop") /\ copy2' = [copy2 EXCEPT ![p] = c]
    BY <1>11 DEF SpawnCopy2
  <2>2. copy2' \in [Mains -> Copy2s \cup {None}] /\ c \in Procs
    BY <2>1, CounterLoggerAssumption
  <2>3. UNCHANGED <<memVars, shmOf, semOf>> /\ OthersTyped'
    BY <1>11, <2>2 DEF SpawnCopy2
  <2>4. "spawn2" \in WithSem /\ "loop" \in (WithSem \cap Points) \ Sections
    OBVIOUS
  <2> QED
    BY <2>1, <2>2, <2>3, <2>4, ChildStep
<1>12. CASE EnterStandby(p)
  BY <1>12, EnterStep DEF EnterStandby
<1>13. CASE LeaveStandby(p)
  <2>1. origin' \in [Procs -> BOOLEAN] /\ UNCHANGED shm
    BY <1>13 DEF LeaveStandby
  <2> QED
    BY <1>13, <2>1, LeaveStep DEF LeaveStandby
<1> QED
  BY <1>1, <1>2, <1>3, <1>4, <1>5, <1>6, <1>7, <1>8, <1>9, <1>10, <1>11, <1>12, <1>13 DEF RunMain

LEMMA RunCopyInv ==
  ASSUME IInv, NEW c \in Procs, RunCopy(c)
  PROVE  IInv'
<1> USE InvTypes DEF OthersTyped, LeavingPts, Sections, RefSections, CtrSections, WithSem
<1>1. CASE EnterAdd(c)
  BY <1>1, EnterStep DEF EnterAdd
<1>2. CASE LeaveAdd(c)
  <2>1. shm' \in [Procs -> Segment] /\ origin' = origin
    BY <1>2, I32Type, StoreType DEF LeaveAdd
  <2> QED
    BY <1>2, <2>1, LeaveStep DEF LeaveAdd
<1>3. CASE EnterDouble(c)
  BY <1>3, EnterStep DEF EnterDouble
<1>4. CASE LeaveDouble(c)
  <2>1. shm' \in [Procs -> Segment] /\ origin' = origin
    BY <1>4, I32Type, StoreType DEF LeaveDouble
  <2> QED
    BY <1>4, <2>1, LeaveStep DEF LeaveDouble
<1>5. CASE EnterHalve(c)
  BY <1>5, EnterStep DEF EnterHalve
<1>6. CASE LeaveHalve(c)
  <2>1. shm' \in [Procs -> Segment] /\ origin' = origin
    BY <1>6, HalfType, StoreType DEF LeaveHalve
  <2> QED
    BY <1>6, <2>1, LeaveStep DEF LeaveHalve
<1> QED
  BY <1>1, <1>2, <1>3, <1>4, <1>5, <1>6 DEF RunCopy

LEMMA RunCliInv ==
  ASSUME IInv, NEW c \in Procs, RunCli(c)
  PROVE  IInv'
<1> USE InvTypes DEF OthersTyped, LeavingPts, Sections, RefSections, CtrSections, WithSem
<1>1. CASE EnterSet(c)
  BY <1>1, EnterStep DEF EnterSet
<1>2. CASE LeaveSet(c)
  <2>1. shm' \in [Procs -> Segment] /\ origin' = origin
    BY <1>2, CounterLoggerAssumption, StoreType DEF LeaveSet
  <2> QED
    BY <1>2, <2>1, LeaveStep DEF LeaveSet
<1>3. CASE EndOfInput(c)
  BY <1>3, MoveStep DEF EndOfInput, KeepLocals, memVars, NoSemYet, WithShm, Points, EndedPts
<1> QED
  BY <1>1, <1>2, <1>3 DEF RunCli

LEMMA ExitInv ==
  ASSUME IInv, NEW p \in Procs, Exit(p)
  PROVE  IInv'
<1> USE InvTypes DEF OthersTyped, Handles, memVars, KeepLocals, Points, LeavingPts, EndedPts,
            Sections, RefSections, CtrSections, NoSemYet, WithSem, WithShm
<1>1. CASE KillCli(p)
  <2>1. shmOf[p] \in Procs
    BY <1>1 DEF KillCli, Goto
  <2>2. working' \in [Procs -> BOOLEAN]
    BY <1>1 DEF KillCli
  <2> QED
    BY <1>1, <2>1, <2>2, MoveStep DEF KillCli
<1>2. CASE EnterDrop(p)
  BY <1>2, EnterStep DEF EnterDrop
<1>3. CASE LeaveDrop(p)
  <2>1. shm' \in [Procs -> Segment] /\ origin' = origin
    BY <1>3, StoreType DEF LeaveDrop
  <2> QED
    BY <1>3, <2>1, LeaveStep DEF LeaveDrop
<1>4. CASE UnlinkShm(p)
  BY <1>4, MoveStep DEF UnlinkShm, ShmUnlink
<1>5. CASE UnlinkSem(p)
  BY <1>5, MoveStep DEF UnlinkSem, SemUnlink
<1> QED
  BY <1>1, <1>2, <1>3, <1>4, <1>5 DEF Exit

LEMMA EnvironmentInv ==
  ASSUME IInv, NEW p \in Procs, Start(p) \/ SigInt(p) \/ CliInterrupted(p) \/ Crash(p)
  PROVE  IInv'
<1> USE InvTypes DEF OthersTyped, memVars, KeepLocals, Points, OpeningPts, EndedPts,
            Sections, RefSections, CtrSections, NoSemYet, WithSem, WithShm
<1>1. CASE Start(p)
  BY <1>1, MoveStep DEF Start
<1>2. CASE SigInt(p)
  BY <1>2, StillStep DEF SigInt
<1>3. CASE CliInterrupted(p) \/ Crash(p)
  BY <1>3, MoveStep DEF CliInterrupted, Crash, Goto
<1> QED
  BY <1>1, <1>2, <1>3

-----------------------------------------------------------------------------
\* Every step keeps the inductive invariant.
LEMMA StepInv == IInv /\ [Next]_vars => IInv'
<1> SUFFICES ASSUME IInv, [Next]_vars PROVE IInv'
  OBVIOUS
<1>1. ASSUME NEW p \in Procs, Start(p) \/ Step(p) \/ SigInt(p) \/ Crash(p)
      PROVE  IInv'
  BY <1>1, OpenInv, RunMainInv, RunCopyInv, RunCliInv, ExitInv, EnvironmentInv DEF Step
<1>2. CASE UNCHANGED vars
  BY <1>2, StillStep, InvTypes DEF vars, procVars, OthersTyped, memVars
<1> QED
  BY <1>1, <1>2 DEF Next, Finished

\* Every reachable state of the logger satisfies the inductive invariant.
THEOREM Inductive == Spec => []IInv
<1> QED
  BY InitInv, StepInv, PTL DEF Spec

\* The logger and its objects always have their types; in particular a semaphore
\* never exceeds 1, whatever crashes, overlaps and leftovers there are.
THEOREM TypeCorrect == Spec => []TypeOK
<1>1. IInv => TypeOK
  BY DEF IInv
<1> QED
  BY Inductive, <1>1, PTL

\* No two processes are ever inside critical sections of one semaphore: the
\* waits and posts of logger.c and logger_cli.c are placed right on every path.
THEOREM Exclusion == Spec => []MutualExclusion
<1>1. IInv => MutualExclusion
  BY DEF IInv
<1> QED
  BY Inductive, <1>1, PTL
-----------------------------------------------------------------------------
(* No lost post.                                                            *)

\* Whoever made the semaphore the name refers to has it open.
MakerHasIt == semName # None => semOf[semName] = semName

PostInv == MakerHasIt /\ TakenIsHeld

LEMMA PostInit == Init => PostInv
BY DEF Init, MemInit, PostInv, MakerHasIt, TakenIsHeld

\* A step that leaves the semaphores alone, and in which a holder remains one.
LEMMA HoldersStay ==
  ASSUME IInv, PostInv, semName' \in {semName, None}, UNCHANGED <<sem, semOf>>,
         \A q \in Procs : Holds(q) => Holds(q)'
  PROVE  PostInv'
<1>1. MakerHasIt'
  BY DEF PostInv, MakerHasIt
<1>2. TakenIsHeld'
  BY DEF PostInv, TakenIsHeld
<1> QED
  BY <1>1, <1>2 DEF PostInv

\* One process moves, outside the sections, or ends without posting.
LEMMA MoverHolds ==
  ASSUME IInv, PostInv, NEW p \in Procs, NEW to, pc' = [pc EXCEPT ![p] = to],
         semName' \in {semName, None}, UNCHANGED <<sem, semOf>>,
         \/ pc[p] \notin Sections \cup {"dead", "cleanup", "drop"}
         \/ to = "dead"
         \/ to \in {"cleanup", "drop"} /\ "write" \in Faults
         \/ to = "drop" /\ pc[p] = "cleanup"
  PROVE  PostInv'
<1>1. pc \in [Procs -> Points]
  BY DEF IInv, TypeOK
<1>2. "dead" \notin Sections /\ "cleanup" \notin Sections
  BY DEF Sections, RefSections, CtrSections
<1>3. ASSUME NEW q \in Procs, Holds(q) PROVE Holds(q)'
  BY <1>1, <1>2, <1>3 DEF Holds, InSection
<1> QED
  BY <1>3, HoldersStay

\* A process waits for its semaphore, and holds it then.
LEMMA EnterHolds ==
  ASSUME IInv, PostInv, NEW p \in Procs, NEW from \in WithSem, NEW section \in Sections,
         NEW word, Enter(p, from, section, word)
  PROVE  PostInv'
<1> DEFINE s == semOf[p]
<1>1. /\ pc[p] = from /\ s \in Procs /\ sem[s] = 1
      /\ pc \in [Procs -> Points] /\ sem \in [Procs -> {0, 1}]
  BY DEF IInv, TypeOK, MemTypeOK, Handles, Enter, SemWait
<1>2. /\ UNCHANGED <<semName, semOf>> /\ sem' = [sem EXCEPT ![s] = @ - 1]
      /\ pc' = [pc EXCEPT ![p] = section] \/ pc' = [pc EXCEPT ![p] = "dead"]
  BY DEF Enter, Goto, SemWait
<1>3. Holds(p)' /\ semOf'[p] = s
  BY <1>1, <1>2 DEF Holds, InSection
<1>4. ASSUME NEW q \in Procs, semOf[q] # s, Holds(q) PROVE Holds(q)'
  BY <1>1, <1>2, <1>4 DEF Holds, InSection
<1>5. ASSUME NEW q \in Procs, semOf'[q] # None, sem'[semOf'[q]] = 0
      PROVE  \E r \in Procs : semOf'[r] = semOf'[q] /\ Holds(r)'
  <2>1. CASE semOf[q] = s
    BY <1>2, <1>3, <2>1
  <2>2. CASE semOf[q] # s
    <3>1. semOf[q] \in Procs /\ sem[semOf[q]] = 0
      BY <1>1, <1>2, <1>5, <2>2 DEF IInv, TypeOK
    <3>2. PICK r \in Procs : semOf[r] = semOf[q] /\ Holds(r)
      BY <1>2, <1>5, <3>1 DEF PostInv, TakenIsHeld
    <3> QED
      BY <1>2, <1>4, <2>2, <3>2
  <2> QED
    BY <2>1, <2>2
<1>6. TakenIsHeld'
  BY <1>5 DEF TakenIsHeld
<1> QED
  BY <1>2, <1>6 DEF PostInv, MakerHasIt

\* A process posts; holders of other semaphores are not disturbed.
LEMMA LeaveHolds ==
  ASSUME IInv, PostInv, NEW p \in Procs, NEW section \in Sections, NEW to,
         Leave(p, section, to)
  PROVE  PostInv'
<1> DEFINE s == semOf[p]
<1>1. /\ pc[p] = section /\ s \in Procs
      /\ pc \in [Procs -> Points] /\ sem \in [Procs -> {0, 1}]
  BY DEF IInv, TypeOK, MemTypeOK, Handles, Leave, Goto, WithSem, Sections, RefSections, CtrSections
<1>2. /\ UNCHANGED <<semName, semOf>> /\ sem' = [sem EXCEPT ![s] = @ + 1]
      /\ pc' = [pc EXCEPT ![p] = to]
  BY DEF Leave, Goto, SemPost
<1>3. sem'[s] # 0
  BY <1>1, <1>2
<1>4. ASSUME NEW q \in Procs, semOf[q] # s, Holds(q) PROVE Holds(q)'
  BY <1>1, <1>2, <1>4 DEF Holds, InSection
<1>5. ASSUME NEW q \in Procs, semOf'[q] # None, sem'[semOf'[q]] = 0
      PROVE  \E r \in Procs : semOf'[r] = semOf'[q] /\ Holds(r)'
  <2>1. semOf[q] # s /\ semOf[q] \in Procs
    BY <1>2, <1>3, <1>5 DEF IInv, TypeOK
  <2>2. sem[semOf[q]] = 0
    BY <1>1, <1>2, <1>5, <2>1
  <2>3. PICK r \in Procs : semOf[r] = semOf[q] /\ Holds(r)
    BY <1>2, <1>5, <2>2 DEF PostInv, TakenIsHeld
  <2> QED
    BY <1>2, <1>4, <2>1, <2>3
<1>6. TakenIsHeld'
  BY <1>5 DEF TakenIsHeld
<1> QED
  BY <1>2, <1>6 DEF PostInv, MakerHasIt

\* sem_open makes a semaphore of value 1, or opens one that its maker has open.
LEMMA OpenSemHolds ==
  ASSUME IInv, PostInv, NEW p \in Procs, OpenSem(p)
  PROVE  PostInv'
<1>1. PICK s \in Procs : SemOpen(p, s) /\ semOf' = [semOf EXCEPT ![p] = s]
  BY DEF OpenSem
<1>2. /\ pc[p] = "semopen" /\ pc \in [Procs -> Points] /\ semOf \in [Procs -> Procs \cup {None}]
      /\ sem \in [Procs -> {0, 1}] /\ \A q \in Procs : q # p => pc'[q] = pc[q]
  BY DEF OpenSem, Goto, IInv, TypeOK, MemTypeOK
<1>3. semName # p /\ \A q \in Procs : semOf[q] # p
  BY <1>2 DEF IInv, Unborn, NoSemYet
<1>4. ~Holds(p)
  BY <1>2 DEF Holds, InSection, Sections, RefSections, CtrSections
<1>5. \A q \in Procs : Holds(q) => Holds(q)' /\ semOf'[q] = semOf[q]
  BY <1>1, <1>2, <1>4 DEF Holds, InSection
<1>6. semName' = s /\ semOf'[p] = s
  BY <1>1, <1>2 DEF SemOpen, memVars
<1>7. CASE s = p
  <2>1. sem' = [sem EXCEPT ![p] = 1]
    BY <1>1, <1>3, <1>7 DEF SemOpen
  <2>2. ASSUME NEW q \in Procs, semOf'[q] # None, sem'[semOf'[q]] = 0
        PROVE  \E r \in Procs : semOf'[r] = semOf'[q] /\ Holds(r)'
    <3>1. q # p
      BY <1>2, <1>6, <1>7, <2>1, <2>2
    <3>2. semOf'[q] = semOf[q] /\ semOf[q] \in Procs /\ semOf[q] # p
      BY <1>1, <1>2, <1>3, <2>2, <3>1
    <3>3. sem[semOf[q]] = 0
      BY <1>2, <2>1, <2>2, <3>2
    <3>4. PICK r \in Procs : semOf[r] = semOf[q] /\ Holds(r)
      BY <2>2, <3>2, <3>3 DEF PostInv, TakenIsHeld
    <3> QED
      BY <1>5, <3>2, <3>4
  <2> QED
    BY <1>6, <1>7, <2>2 DEF PostInv, MakerHasIt, TakenIsHeld
<1>8. CASE s # p
  <2>1. semName = s /\ UNCHANGED memVars
    BY <1>1, <1>8 DEF SemOpen
  <2>2. semOf[s] = s
    BY <2>1, CrossMemAssumption DEF PostInv, MakerHasIt
  <2>3. ASSUME NEW q \in Procs, semOf'[q] # None, sem'[semOf'[q]] = 0
        PROVE  \E r \in Procs : semOf'[r] = semOf'[q] /\ Holds(r)'
    <3>1. PICK o \in Procs : semOf[o] = semOf'[q]
      BY <1>1, <1>2, <1>6, <2>2
    <3>2. PICK r \in Procs : semOf[r] = semOf[o] /\ Holds(r)
      BY <2>1, <2>3, <3>1 DEF PostInv, TakenIsHeld, memVars
    <3> QED
      BY <1>5, <3>1, <3>2
  <2>4. MakerHasIt'
    BY <1>1, <1>2, <1>6, <1>8, <2>2 DEF MakerHasIt
  <2> QED
    BY <2>3, <2>4 DEF PostInv, TakenIsHeld
<1> QED
  BY <1>7, <1>8

LEMMA ChildHolds ==
  ASSUME IInv, PostInv, NEW m \in Procs, NEW child \in Procs, NEW to,
         StartChild(m, child, pc[m], to), pc[m] \notin Sections \cup {"dead", "cleanup", "drop"},
         UNCHANGED <<memVars, semOf>>
  PROVE  PostInv'
<1>1. pc \in [Procs -> Points] /\ pc[child] = "idle" /\ pc' = [pc EXCEPT ![m] = to, ![child] = "exists?"]
  BY DEF IInv, TypeOK, StartChild
<1>2. ASSUME NEW q \in Procs, Holds(q) PROVE Holds(q)'
  BY <1>1, <1>2 DEF Holds, InSection, Sections, RefSections, CtrSections
<1> QED
  BY <1>2, HoldersStay DEF memVars

LEMMA OpenPosts ==
  ASSUME IInv, PostInv, NEW p \in Procs, Open(p)
  PROVE  PostInv'
<1> USE DEF Sections, RefSections, CtrSections, WithSem
<1>1. CASE EnterRegister(p)
  BY <1>1, EnterHolds DEF EnterRegister
<1>2. CASE LeaveRegister(p)
  BY <1>2, LeaveHolds DEF LeaveRegister
<1>3. CASE OpenSem(p)
  BY <1>3, OpenSemHolds
<1>4. CASE Exists(p) \/ ExistsNot(p) \/ Unprobe(p) \/ ExistsAgain(p) \/ ExistsNotAgain(p)
             \/ UnprobeAgain(p)
  BY <1>4, MoverHolds DEF Exists, ExistsNot, Unprobe, ExistsAgain, ExistsNotAgain, UnprobeAgain,
     ProbeFound, ProbeCreate, ShmUnlink, KeepLocals, memVars, Goto
<1>5. CASE OpenShm(p) \/ OpenShmDenied(p) \/ Truncate(p) \/ InitWords(p)
  BY <1>5, MoverHolds DEF OpenShm, OpenShmDenied, Truncate, InitWords,
     ShmOpen, ShmOpenDenied, ShmTruncate, KeepLocals, memVars, Goto
<1> QED
  BY <1>1, <1>2, <1>3, <1>4, <1>5 DEF Open

LEMMA MainPosts ==
  ASSUME IInv, PostInv, NEW p \in Procs, RunMain(p)
  PROVE  PostInv'
<1> USE DEF Sections, RefSections, CtrSections, WithSem
<1>0. Clis \subseteq Procs /\ Copy1s \subseteq Procs /\ Copy2s \subseteq Procs
  BY CounterLoggerAssumption
<1>1. CASE EnterTick(p) \/ EnterLog(p) \/ EnterStandby(p)
  BY <1>1, EnterHolds DEF EnterTick, EnterLog, EnterStandby
<1>2. CASE LeaveTick(p) \/ LeaveLog(p) \/ LeaveStandby(p)
  BY <1>2, LeaveHolds DEF LeaveTick, LeaveLog, LeaveStandby
<1>3. CASE LogFails(p)
  BY <1>3, MoverHolds DEF LogFails, Goto, memVars
<1>4. CASE SpawnCli(p)
  BY <1>0, <1>4, ChildHolds, MoverHolds DEF SpawnCli, StartChild, Goto, KeepLocals, memVars
<1>5. CASE SpawnCopy1(p)
  BY <1>0, <1>5, ChildHolds DEF SpawnCopy1
<1>6. CASE SpawnCopy2(p)
  BY <1>0, <1>6, ChildHolds DEF SpawnCopy2, StartChild
<1>7. ASSUME NEW at \in {"spawn", "tick", "log", "copies", "spawn2"}, StartFails(p, at)
      PROVE  PostInv'
  BY <1>7, MoverHolds DEF StartFails, Goto, KeepLocals, memVars
<1>8. CASE Loop(p) \/ CopiesStillRunning(p) \/ EndIteration(p)
  BY <1>8, MoverHolds DEF Loop, CopiesStillRunning, EndIteration, Goto, KeepLocals, memVars
<1> QED
  BY <1>1, <1>2, <1>3, <1>4, <1>5, <1>6, <1>7, <1>8 DEF RunMain

LEMMA OthersPost ==
  ASSUME IInv, PostInv, NEW p \in Procs,
         RunCopy(p) \/ RunCli(p) \/ Exit(p)
           \/ Start(p) \/ SigInt(p) \/ CliInterrupted(p) \/ Crash(p)
  PROVE  PostInv'
<1> USE DEF Sections, RefSections, CtrSections, WithSem
<1>1. CASE EnterAdd(p) \/ EnterDouble(p) \/ EnterHalve(p) \/ EnterSet(p) \/ EnterDrop(p)
  BY <1>1, EnterHolds DEF EnterAdd, EnterDouble, EnterHalve, EnterSet, EnterDrop
<1>2. CASE LeaveAdd(p) \/ LeaveDouble(p) \/ LeaveHalve(p) \/ LeaveSet(p) \/ LeaveDrop(p)
  BY <1>2, LeaveHolds DEF LeaveAdd, LeaveDouble, LeaveHalve, LeaveSet, LeaveDrop
<1>3. CASE KillCli(p) \/ UnlinkSem(p) \/ UnlinkShm(p)
  BY <1>3, MoverHolds DEF KillCli, UnlinkSem, UnlinkShm, SemUnlink, ShmUnlink, Goto, KeepLocals,
     memVars
<1>4. CASE EndOfInput(p) \/ Start(p)
  BY <1>4, MoverHolds DEF EndOfInput, Start, Goto, KeepLocals, memVars
<1>5. CASE CliInterrupted(p) \/ Crash(p)
  BY <1>5, MoverHolds DEF CliInterrupted, Crash, KeepLocals, memVars
<1>6. CASE SigInt(p)
  BY <1>6, HoldersStay DEF SigInt, Holds, InSection, memVars
<1> QED
  BY <1>1, <1>2, <1>3, <1>4, <1>5, <1>6 DEF RunCopy, RunCli, Exit

LEMMA PostStep == IInv /\ PostInv /\ [Next]_vars => PostInv'
<1> SUFFICES ASSUME IInv, PostInv, [Next]_vars PROVE PostInv'
  OBVIOUS
<1>1. ASSUME NEW p \in Procs, Start(p) \/ Step(p) \/ SigInt(p) \/ Crash(p)
      PROVE  PostInv'
  BY <1>1, OpenPosts, MainPosts, OthersPost DEF Step
<1>2. CASE UNCHANGED vars
  BY <1>2, HoldersStay DEF vars, procVars, Holds, InSection, memVars
<1> QED
  BY <1>1, <1>2 DEF Next, Finished

\* Every path out of a critical section posts, on every step of every mode: a
\* semaphore is never left at 0 but by a death inside the section or by the failed
\* log write of logger.c:245.
THEOREM NoLostPost == Spec => []TakenIsHeld
<1>1. Init => IInv /\ PostInv
  BY InitInv, PostInit
<1>2. IInv /\ PostInv /\ [Next]_vars => (IInv /\ PostInv)'
  BY StepInv, PostStep
<1>3. IInv /\ PostInv => TakenIsHeld
  BY DEF PostInv
<1> QED
  BY <1>1, <1>2, <1>3, PTL DEF Spec
=============================================================================
