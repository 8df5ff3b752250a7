------------------------- MODULE CounterCrashProofs -------------------------
(***************************************************************************)
(* What of the agreement survives crashes: as long as nobody is started    *)
(* while the first instance founds or the last one leaves (MayStart,       *)
(* MayDrop), any process may be killed anywhere, be it inside a section,   *)
(* and still the names stay bound under the crew, one main leads, and one  *)
(* round of copies is alive.                                               *)
(*                                                                         *)
(* A crash leaves ref_ctr too high, never too low: the last one out is     *)
(* then not recognised, so the names stay for ever and no standby takes    *)
(* over any more (the run takeover_crash), but nobody who should not       *)
(* unlink or lead ever does.  What is used of CounterCrewProofs is Kinds   *)
(* and a few definitions and lemmas that hold without its assumption.      *)
(***************************************************************************)
EXTENDS CounterCrewProofs

\* Both names are bound to objects.
Bound == shmName \in Procs /\ semName \in Procs

\* Nobody is registered, and nobody else is opening.
Alone(p) == Crew = {} /\ \A q \in Procs : Opening(q) => q = p

\* What an opening process relies on.  Names that are not bound are met by a main
\* alone, who will be, or follows, the origin of a new crew.
OpenerAt(p) ==
  /\ Bound \/ (p \in Mains /\ Alone(p))
  /\ origin[p] => p \in Mains /\ Alone(p)
  /\ pc[p] \in {"unprobe", "unprobe2"} => shmName = Probe
  /\ pc[p] = "init" => origin[p]
  /\ pc[p] \in OwnShmPts => shmOf[p] = shmName
  /\ pc[p] \in OwnSemPts => semOf[p] = semName

Openers == \A p \in Procs : Opening(p) => OpenerAt(p)

\* Whoever unlinks is alone, and the semaphore's name goes first, ...
Unlinkers ==
  \A p \in Procs : Unlinking(p) =>
    /\ Crew = {}
    /\ \A q \in Procs : ~Opening(q) /\ (Unlinking(q) => q = p)
    /\ pc[p] = "unlink_shm" => semName = None

\* ... as it came last.
ShmFirst == semName # None => shmName \in Procs

\* Who leaves while another one opens is not the last.
NotLast == \A p, q \in Procs : pc[p] = "in_drop" /\ Opening(q) => reg[p] >= 2

\* ref_ctr is not lost an update, and is never too low.
RefFresh == \A p \in Procs : pc[p] \in RefSections => reg[p] = shm[shmOf[p]].ref

AtLeast ==
  /\ IsFiniteSet(Crew)
  /\ \A o \in Procs : shm[o].ref >= 0
  /\ shmName \in Procs => shm[shmName].ref >= Cardinality(Crew)

CrashInv ==
  /\ Openers /\ Unlinkers /\ ShmFirst /\ NotLast /\ RefFresh /\ AtLeast
  /\ NamesInUse /\ OneActing

\* Somebody is counted who is not there any more: this will never change.
Miscounted == shmName \in Procs /\ shm[shmName].ref > Cardinality(Crew)

Copies == Copy1s \cup Copy2s

\* How a step may change that, as far as the copies care.
Tally ==
  /\ Miscounted => Miscounted' \/ \A c \in Copies : ~Opening(c)'
  /\ \A p \in Crew : pc'[p] = "dead" => Miscounted'

\* What every step may assume.
Given == Overlap = FALSE /\ IInv /\ Kinds /\ CrashInv /\ IInv' /\ Kinds'

-----------------------------------------------------------------------------
LEMMA GivenTypes ==
  ASSUME Given
  PROVE  /\ pc \in [Procs -> Points] /\ origin \in [Procs -> BOOLEAN] /\ reg \in [Procs -> Int]
         /\ shmOf \in [Procs -> Procs \cup {None}] /\ semOf \in [Procs -> Procs \cup {None}]
         /\ shm \in [Procs -> Segment] /\ shmName \in Procs \cup {None, Probe}
         /\ semName \in Procs \cup {None}
         /\ \A o \in Procs : shm[o].ref \in Int /\ shm'[o].ref \in Int
         /\ Copies \subseteq Procs /\ Mains \subseteq Procs /\ Clis \subseteq Procs
         /\ Mains \cap Copies = {} /\ Clis \cap (Mains \cup Copies) = {}
         /\ None \notin Procs /\ Probe \notin Procs /\ None # Probe
<1>1. \A o \in Procs : shm[o].ref \in Int /\ shm'[o].ref \in Int
  BY DEF Given, IInv, TypeOK, MemTypeOK, Segment
<1> QED
  BY <1>1, CounterLoggerAssumption, CrossMemAssumption
     DEF Given, IInv, TypeOK, MemTypeOK, Copies

LEMMA CrewHere ==
  ASSUME Given
  PROVE  /\ \A p \in Procs : p \in Crew <=> pc[p] \in CrewPts
         /\ \A p \in Procs : p \in Crew' <=> pc'[p] \in CrewPts
         /\ Crew \subseteq Procs /\ Crew' \subseteq Procs
         /\ IsFiniteSet(Crew) /\ Cardinality(Crew) \in Nat
         /\ Crew # {} => Bound
         /\ \A p \in Crew : shmOf[p] = shmName /\ semOf[p] = semName
<1>1. /\ \A p \in Procs : p \in Crew <=> pc[p] \in CrewPts
      /\ \A p \in Procs : p \in Crew' <=> pc'[p] \in CrewPts
      /\ Crew \subseteq Procs /\ Crew' \subseteq Procs
  BY CrewIs, CrewIsNext DEF Given, CrewAtPts
<1>2. \A p \in Crew : shmOf[p] = shmName /\ semOf[p] = semName
  BY <1>1 DEF Given, CrashInv, NamesInUse, Crew
<1>3. CrewPts \subseteq WithShm /\ CrewPts \subseteq WithSem
  BY DEF CrewPts, RegisteredPts, RunningPts, WithShm, WithSem
<1>4. Crew # {} => Bound
  BY <1>1, <1>2, <1>3 DEF Given, IInv, Handles, Bound
<1>5. IsFiniteSet(Crew) /\ Cardinality(Crew) \in Nat
  BY FS_CardinalityType DEF Given, CrashInv, AtLeast
<1> QED
  BY <1>1, <1>2, <1>4, <1>5

LEMMA TwoMembers ==
  ASSUME NEW S, IsFiniteSet(S), NEW x \in S, NEW y \in S, x # y
  PROVE  Cardinality(S) >= 2
<1>1. IsFiniteSet({x}) /\ Cardinality({x}) = 1 /\ y \notin {x}
  BY FS_Singleton
<1>2. Cardinality({x} \cup {y}) = 2
  BY <1>1, FS_AddElement
<1>3. Cardinality({x} \cup {y}) <= Cardinality(S) /\ Cardinality(S) \in Nat
  BY FS_Subset, FS_CardinalityType
<1> QED
  BY <1>2, <1>3

\* How the points of a process may change when nobody comes.
Fades(q) ==
  \/ pc'[q] = pc[q]
  \/ pc[q] \in CrewPts /\ pc'[q] \in CrewPts
  \/ pc[q] = "register" /\ pc'[q] = "in_register"
  \/ pc[q] \in {"prompt", "in_set"} /\ pc'[q] \in {"prompt", "in_set"}
  \/ pc'[q] = "done" /\ pc[q] \notin CrewPts
  \/ pc'[q] = "dead"

LEMMA FadeStep ==
  ASSUME Given, \A q \in Procs : Fades(q),
         UNCHANGED <<shmName, semName, shmOf, semOf, origin>>,
         \A o \in Procs : shm'[o].ref = shm[o].ref,
         \A q \in Procs : pc'[q] \in RefSections => reg'[q] = shm[shmOf[q]].ref,
         \A q, r \in Procs : pc'[q] = "in_drop" /\ pc[q] # "in_drop" /\ Opening(r) => Crew # {q}
  PROVE  CrashInv' /\ Tally
<1> USE GivenTypes, CrewHere
<1>1. Crew' \subseteq Crew
  BY DEF Fades, CrewPts, RegisteredPts, RunningPts
<1>2. IsFiniteSet(Crew') /\ Cardinality(Crew') \in Nat /\ Cardinality(Crew') <= Cardinality(Crew)
  BY <1>1, FS_Subset, FS_CardinalityType
<1>3. \A q \in Procs : Opening(q)' => /\ Opening(q)
                                     /\ \/ pc'[q] = pc[q]
                                        \/ pc[q] = "register" /\ pc'[q] = "in_register"
  BY DEF Fades, Opening, OpeningPts, CrewPts, RegisteredPts, RunningPts
<1>4. \A q \in Procs : Unlinking(q)' => Unlinking(q) /\ pc'[q] = pc[q]
  BY DEF Fades, Unlinking, CrewPts, RegisteredPts, RunningPts
<1>5. \A p \in Procs : Alone(p) => Alone(p)'
  BY <1>1, <1>3 DEF Alone
<1>6. Openers'
  <2> SUFFICES ASSUME NEW p \in Procs, Opening(p)' PROVE OpenerAt(p)'
    BY DEF Openers
  <2>1. /\ OpenerAt(p)
        /\ \/ pc'[p] = pc[p]
           \/ pc[p] = "register" /\ pc'[p] = "in_register"
    BY <1>3 DEF Given, CrashInv, Openers
  <2> QED
    BY <1>5, <2>1 DEF OpenerAt, Bound, OwnShmPts, OwnSemPts
<1>7. Unlinkers'
  BY <1>1, <1>3, <1>4 DEF Given, CrashInv, Unlinkers
<1>8. ShmFirst'
  BY DEF Given, CrashInv, ShmFirst
<1>9. \A q \in Procs : pc'[q] \in RefSections => shmOf[q] \in Procs
  BY DEF Given, IInv, Handles, RefSections, WithShm, WithSem
<1>10. RefFresh'
  BY <1>9 DEF RefFresh
<1>11. NotLast'
  <2> SUFFICES ASSUME NEW p \in Procs, NEW q \in Procs, pc'[p] = "in_drop", Opening(q)'
               PROVE  reg'[p] >= 2
    BY DEF NotLast
  <2>1. Opening(q)
    BY <1>3
  <2>2. CASE pc[p] = "in_drop"
    <3>1. reg[p] >= 2 /\ reg'[p] = reg[p]
      BY <2>1, <2>2 DEF Given, CrashInv, NotLast, RefFresh, RefSections
    <3> QED
      BY <3>1
  <2>3. CASE pc[p] # "in_drop"
    <3>1. p \in Crew /\ Crew # {p}
      BY <2>1, <2>3 DEF Fades, CrewPts, RegisteredPts
    <3>2. PICK s \in Crew : s # p
      BY <3>1
    <3>3. Cardinality(Crew) \in Int /\ Cardinality(Crew) >= 2
      BY <3>1, <3>2, TwoMembers
    <3>4. reg'[p] = shm[shmName].ref /\ shmName \in Procs
      BY <3>1 DEF RefSections, Bound
    <3>5. shm[shmName].ref >= Cardinality(Crew)
      BY <3>4 DEF Given, CrashInv, AtLeast
    <3>6. \A a, b \in Int : a >= b /\ b >= 2 => a >= 2
      OBVIOUS
    <3> QED
      BY <3>3, <3>4, <3>5, <3>6
  <2> QED
    BY <2>2, <2>3
<1>12. AtLeast'
  <2>1. shmName \in Procs => shm[shmName].ref >= Cardinality(Crew)
    BY DEF Given, CrashInv, AtLeast
  <2>2. \A o \in Procs : shm'[o].ref >= 0
    BY DEF Given, CrashInv, AtLeast
  <2>3. shmName' \in Procs => shm'[shmName'].ref >= Cardinality(Crew')
    BY <1>2, <2>1
  <2> QED
    BY <1>2, <2>2, <2>3 DEF AtLeast
<1>13. NamesInUse' /\ OneActing'
  <2>1. OneActing'
    BY <1>1 DEF Given, CrashInv, OneActing
  <2>2. NamesInUse'
    <3> SUFFICES ASSUME NEW p \in Crew' PROVE shmName = shmOf[p] /\ semName = semOf[p]
      BY DEF NamesInUse, Crew
    <3> QED
      BY <1>1
  <2> QED
    BY <2>1, <2>2
<1>14. Tally
  <2>1. Miscounted => Miscounted'
    BY <1>2 DEF Miscounted
  <2>2. ASSUME NEW p \in Crew, pc'[p] = "dead" PROVE Miscounted'
    <3>1. p \notin Crew' /\ shmName \in Procs
      BY <2>2 DEF CrewPts, RegisteredPts, RunningPts, Bound
    <3>2. Cardinality(Crew') # Cardinality(Crew)
      BY <1>1, <2>2, <3>1, FS_Subset
    <3>3. shm[shmName].ref >= Cardinality(Crew)
      BY <3>1 DEF Given, CrashInv, AtLeast
    <3>4. Cardinality(Crew') < Cardinality(Crew)
      <4>1. \A a, b \in Nat : a <= b /\ a # b => a < b
        OBVIOUS
      <4>2. Cardinality(Crew) \in Nat
        OBVIOUS
      <4> QED
        BY <1>2, <3>2, <4>1, <4>2
    <3>5. shm'[shmName'].ref > Cardinality(Crew')
      BY <1>2, <3>1, <3>3, <3>4
    <3> QED
      BY <3>1, <3>5 DEF Miscounted
  <2> QED
    BY <2>1, <2>2 DEF Tally
<1> QED
  BY <1>6, <1>7, <1>8, <1>10, <1>11, <1>12, <1>13, <1>14 DEF CrashInv

-----------------------------------------------------------------------------
(* Opening.                                                                 *)

\* One step of an opening process; only a main that is alone changes the names.
LEMMA OpeningStep ==
  ASSUME Given, NEW p \in Procs, NEW to \in (OpeningPts \ RefSections) \cup {"prompt"}, Opening(p),
         Step1(p, to),
         Opening(p)' => OpenerAt(p)',
         (p \in Mains /\ Alone(p)) \/ UNCHANGED <<shmName, semName>>,
         \A q \in Procs : q # p => shmOf'[q] = shmOf[q] /\ semOf'[q] = semOf[q] /\ origin'[q] = origin[q],
         \A o \in Procs : \/ shm'[o].ref = shm[o].ref
                          \/ p \in Mains /\ Alone(p) /\ shm'[o].ref = 0,
         UNCHANGED reg,
         ShmFirst'
  PROVE  CrashInv' /\ Tally
<1> USE GivenTypes, CrewHere
<1>1. pc'[p] = to /\ \A q \in Procs : q # p => pc'[q] = pc[q]
  BY DEF Step1
<1>2. pc[p] \notin CrewPts /\ to \notin CrewPts /\ to \notin RefSections /\ ~Unlinking(p) /\ ~Unlinking(p)'
  BY <1>1 DEF Opening, OpeningPts, CrewPts, RegisteredPts, RunningPts, RefSections, Unlinking
<1>3. Crew' = Crew /\ p \notin Crew
  BY <1>1, <1>2
<1>4. \A q \in Procs : Opening(q)' => Opening(q)
  BY <1>1 DEF Opening
<1>5. \A q \in Procs : Alone(q) => Alone(q)'
  BY <1>3, <1>4 DEF Alone
<1>6. Openers'
  <2> SUFFICES ASSUME NEW q \in Procs, Opening(q)', q # p PROVE OpenerAt(q)'
    BY DEF Openers
  <2>1. pc'[q] = pc[q] /\ OpenerAt(q) /\ ~Alone(p) /\ ~Alone(q)
    BY <1>1, <1>4 DEF Given, CrashInv, Openers, Alone
  <2> QED
    BY <2>1 DEF OpenerAt, Bound
<1>7. \A q \in Procs : ~Unlinking(q) /\ ~Unlinking(q)'
  <2>1. \A q \in Procs : ~Unlinking(q)
    BY DEF Given, CrashInv, Unlinkers
  <2> QED
    BY <1>1, <1>2, <2>1 DEF Unlinking
<1>8. Unlinkers'
  BY <1>7 DEF Unlinkers
<1>9. NotLast'
  <2> SUFFICES ASSUME NEW r \in Procs, NEW q \in Procs, pc'[r] = "in_drop", Opening(q)'
               PROVE  reg'[r] >= 2
    BY DEF NotLast
  <2>1. r # p /\ pc[r] = "in_drop"
    BY <1>1 DEF RefSections, OpeningPts
  <2> QED
    BY <1>4, <2>1 DEF Given, CrashInv, NotLast
<1>10. RefFresh'
  <2> SUFFICES ASSUME NEW q \in Procs, pc'[q] \in RefSections
               PROVE  reg'[q] = shm'[shmOf'[q]].ref
    BY DEF RefFresh
  <2>1. q # p /\ pc[q] \in RefSections
    BY <1>1, <1>2
  <2>2. ~Alone(p)
    BY <2>1 DEF Alone, RefSections, CrewPts, RegisteredPts, RunningPts, Opening, OpeningPts
  <2>3. shmOf[q] \in Procs
    BY <2>1 DEF Given, IInv, Handles, RefSections, WithShm, WithSem
  <2> QED
    BY <2>1, <2>2, <2>3 DEF Given, CrashInv, RefFresh
<1>11. AtLeast'
  <2>1. Alone(p) => Cardinality(Crew') = 0
    BY <1>3, FS_EmptySet DEF Alone
  <2>2. \A o \in Procs : shm[o].ref >= 0 /\ shm'[o].ref >= 0
    BY DEF Given, CrashInv, AtLeast
  <2>3. IsFiniteSet(Crew')
    BY <1>3
  <2>4. ASSUME shmName' \in Procs PROVE shm'[shmName'].ref >= Cardinality(Crew')
    <3>1. CASE Alone(p)
      BY <2>1, <2>2, <2>4, <3>1
    <3>2. CASE ~Alone(p)
      BY <1>3, <2>4, <3>2 DEF Given, CrashInv, AtLeast
    <3> QED
      BY <3>1, <3>2
  <2> QED
    BY <2>2, <2>3, <2>4 DEF AtLeast
<1>12. NamesInUse' /\ OneActing'
  <2>1. ASSUME NEW q \in Crew PROVE /\ shmName' = shmOf'[q] /\ semName' = semOf'[q]
                                    /\ origin'[q] = origin[q]
    BY <1>3 DEF Alone
  <2>2. NamesInUse'
    BY <1>3, <2>1 DEF NamesInUse, Crew
  <2>3. OneActing'
    BY <1>3, <2>1 DEF Given, CrashInv, OneActing
  <2> QED
    BY <2>2, <2>3
<1>13. Tally
  <2>1. \A q \in Crew : pc'[q] # "dead"
    BY <1>1, <1>3 DEF CrewPts, RegisteredPts, RunningPts
  <2>2. CASE p \in Mains /\ Alone(p)
    <3>1. \A c \in Copies : ~Opening(c)'
      BY <1>4, <2>2 DEF Alone
    <3> QED
      BY <2>1, <3>1 DEF Tally
  <2>3. CASE ~(p \in Mains /\ Alone(p))
    BY <1>3, <2>1, <2>3 DEF Tally, Miscounted
  <2> QED
    BY <2>2, <2>3
<1> QED
  BY <1>6, <1>8, <1>9, <1>10, <1>11, <1>12, <1>13, ShmFirst' DEF CrashInv

\* A process starts: a main while others stay, a child while its parent stays.
LEMMA StartCrash ==
  ASSUME Given, NEW p \in Procs, NEW m, NEW to \in CrewPts \ RefSections,
         pc[p] = "idle", pc'[p] = "exists?",
         \/ /\ m \in Procs /\ pc'[m] = to /\ pc[m] \in CrewPts \ {"in_drop"}
            /\ \A q \in Procs : q # p /\ q # m => pc'[q] = pc[q]
         \/ /\ p \in Mains /\ \A q \in Procs : Opening(q) \/ Leaving(q) => Crew \ {q} # {}
            /\ \A q \in Procs : q # p => pc'[q] = pc[q],
         UNCHANGED <<memVars, origin, shmOf, semOf, reg>>
  PROVE  CrashInv' /\ Tally
<1> USE GivenTypes, CrewHere DEF memVars
<1>1. \A q \in Procs : q # p => pc'[q] = pc[q] \/ (pc[q] \in CrewPts \ {"in_drop"} /\ pc'[q] = to)
  OBVIOUS
<1>2. Crew' = Crew
  <2>1. "idle" \notin CrewPts /\ "exists?" \notin CrewPts
    BY DEF CrewPts, RegisteredPts, RunningPts
  <2>2. \A q \in Procs : pc'[q] \in CrewPts <=> pc[q] \in CrewPts
    BY <1>1, <2>1
  <2> QED
    BY <2>2
<1>3. /\ \A q \in Procs : Opening(q)' => q = p \/ (Opening(q) /\ pc'[q] = pc[q])
      /\ \A q \in Procs : Unlinking(q)' => Unlinking(q)
      /\ \A q \in Procs : pc'[q] \in RefSections => pc'[q] = pc[q] /\ q # p
      /\ ~origin[p]
  BY <1>1 DEF Opening, OpeningPts, Unlinking, CrewPts, RegisteredPts, RunningPts, RefSections, Given, Kinds
<1>4. \/ m \in Crew /\ pc[m] # "in_drop"
      \/ p \in Mains /\ \A q \in Procs : Opening(q) \/ Leaving(q) => Crew \ {q} # {}
  OBVIOUS
<1>5. Openers'
  <2>1. OpenerAt(p)'
    <3>1. ~origin'[p] /\ pc'[p] = "exists?"
      BY <1>3
    <3>2. Bound \/ (p \in Mains /\ Alone(p)')
      BY <1>2, <1>3, <1>4 DEF Alone
    <3> QED
      BY <3>1, <3>2 DEF OpenerAt, Bound, OwnShmPts, OwnSemPts
  <2>2. ASSUME NEW q \in Procs, Opening(q)', q # p PROVE OpenerAt(q)'
    <3>1. Opening(q) /\ pc'[q] = pc[q] /\ OpenerAt(q)
      BY <1>3, <2>2 DEF Given, CrashInv, Openers
    <3>2. Crew # {} /\ ~Alone(q)
      BY <1>4, <3>1 DEF Alone
    <3> QED
      BY <3>1, <3>2 DEF OpenerAt, Bound
  <2> QED
    BY <2>1, <2>2 DEF Openers
<1>6. \A q \in Procs : ~Unlinking(q)
  BY <1>4 DEF Given, CrashInv, Unlinkers, Unlinking, Leaving
<1>7. Unlinkers'
  BY <1>3, <1>6 DEF Unlinkers
<1>8. NotLast'
  <2> SUFFICES ASSUME NEW q \in Procs, pc'[q] = "in_drop"
               PROVE  reg'[q] >= 2
    BY DEF NotLast
  <2>1. pc[q] = "in_drop" /\ q \in Crew
    BY <1>1, <1>3 DEF RefSections, CrewPts, RegisteredPts
  <2>6. PICK s \in Crew : s # q
    BY <1>4, <2>1 DEF Leaving
  <2>2. reg[q] = shm[shmName].ref /\ shmName \in Procs
    BY <2>1 DEF Given, CrashInv, RefFresh, RefSections, Bound
  <2>3. Cardinality(Crew) \in Int /\ Cardinality(Crew) >= 2
    BY <2>1, <2>6, TwoMembers
  <2>4. shm[shmName].ref >= Cardinality(Crew)
    BY <2>2 DEF Given, CrashInv, AtLeast
  <2>5. \A a, b \in Int : a >= b /\ b >= 2 => a >= 2
    OBVIOUS
  <2> QED
    BY <2>2, <2>3, <2>4, <2>5
<1>9. RefFresh'
  BY <1>3 DEF Given, CrashInv, RefFresh
<1>10. ShmFirst' /\ AtLeast' /\ OneActing'
  BY <1>2 DEF Given, CrashInv, ShmFirst, AtLeast, OneActing
<1>11. NamesInUse'
  BY <1>2 DEF NamesInUse, Crew
<1>12. Tally
  BY <1>1, <1>2 DEF Tally, Miscounted, CrewPts, RegisteredPts, RunningPts
<1> QED
  BY <1>5, <1>7, <1>8, <1>9, <1>10, <1>11, <1>12 DEF CrashInv

-----------------------------------------------------------------------------
(* The sections on ref_ctr, and the unlinking.                              *)

\* Everybody in such a section holds the one semaphore the name is bound to.
LEMMA OneCounting ==
  ASSUME Given, NEW p \in Procs, NEW q \in Procs, pc[p] \in RefSections, pc[q] \in RefSections
  PROVE  /\ p = q
         /\ shmOf[p] = shmName /\ shmName \in Procs
         /\ reg[p] = shm[shmName].ref
<1> USE GivenTypes, CrewHere
<1>1. \A r \in Procs : pc[r] \in RefSections =>
        shmOf[r] = shmName /\ semOf[r] = semName /\ shmOf[r] \in Procs /\ InSection(r)
  <2> SUFFICES ASSUME NEW r \in Procs, pc[r] \in RefSections
               PROVE  shmOf[r] = shmName /\ semOf[r] = semName /\ shmOf[r] \in Procs /\ InSection(r)
    OBVIOUS
  <2>1. shmOf[r] \in Procs /\ InSection(r)
    BY DEF Given, IInv, Handles, RefSections, WithShm, WithSem, InSection, Sections
  <2>2. CASE pc[r] = "in_register"
    BY <2>1, <2>2 DEF Given, CrashInv, Openers, OpenerAt, Opening, OpeningPts, OwnShmPts, OwnSemPts
  <2>3. CASE pc[r] # "in_register"
    <3>1. r \in Crew
      BY <2>3 DEF RefSections, CrewPts, RegisteredPts, RunningPts
    <3> QED
      BY <2>1, <3>1
  <2> QED
    BY <2>2, <2>3
<1>2. p = q
  BY <1>1 DEF Given, IInv, MutualExclusion
<1> QED
  BY <1>1, <1>2 DEF Given, CrashInv, RefFresh

LEMMA RegisterCrash ==
  ASSUME Given, NEW p \in Procs, LeaveRegister(p)
  PROVE  CrashInv' /\ Tally
<1> USE GivenTypes, CrewHere
<1>1. /\ pc[p] = "in_register" /\ Opening(p) /\ pc[p] \notin CrewPts
      /\ UNCHANGED <<shmName, semName, shmOf, semOf, origin>>
      /\ pc' = [pc EXCEPT ![p] = IF p \in Mains THEN "spawn" ELSE "work"]
      /\ reg' = [reg EXCEPT ![p] = 0] /\ Store(p, "ref", reg[p] + 1)
  BY DEF LeaveRegister, Leave, Goto, Opening, OpeningPts, CrewPts, RegisteredPts, RunningPts
<1>2. PICK to \in {"spawn", "work"} : pc'[p] = to /\ \A q \in Procs : q # p => pc'[q] = pc[q]
  BY <1>1
<1>3. to \in CrewPts \ RefSections /\ to \notin OpeningPts /\ ~Opening(p)' /\ ~Unlinking(p)'
  BY <1>2 DEF CrewPts, RegisteredPts, RunningPts, RefSections, OpeningPts, Opening, Unlinking
<1>4. /\ shmOf[p] = shmName /\ shmName \in Procs /\ reg[p] = shm[shmName].ref
      /\ \A q \in Procs : pc[q] \in RefSections => q = p
  BY <1>1, OneCounting DEF RefSections
<1>5. semOf[p] = semName /\ (origin[p] => Crew = {})
  BY <1>1 DEF Given, CrashInv, Openers, OpenerAt, OwnSemPts, Alone
<1>6. /\ shm'[shmName].ref = shm[shmName].ref + 1
      /\ \A o \in Procs : o # shmName => shm'[o].ref = shm[o].ref
  <2>1. reg[p] + 1 \in Int
    OBVIOUS
  <2>2. /\ shm'[shmName].ref = reg[p] + 1
        /\ \A o \in Procs : o # shmName => shm'[o].ref = shm[o].ref
    BY <1>1, <1>4, <2>1, StoreRef DEF Given
  <2> QED
    BY <1>4, <2>2
<1>7. Crew' = Crew \cup {p} /\ p \notin Crew
  BY <1>1, <1>2, <1>3
<1>8. IsFiniteSet(Crew') /\ Cardinality(Crew') = Cardinality(Crew) + 1
  BY <1>7, FS_AddElement
<1>9. \A q \in Procs : pc'[q] \notin RefSections
  BY <1>2, <1>3, <1>4
<1>10. Openers'
  <2> SUFFICES ASSUME NEW q \in Procs, Opening(q)' PROVE OpenerAt(q)'
    BY DEF Openers
  <2>1. q # p /\ pc'[q] = pc[q] /\ OpenerAt(q) /\ ~Alone(q)
    BY <1>1, <1>2, <1>3 DEF Given, CrashInv, Openers, Alone, Opening
  <2> QED
    BY <1>1, <2>1 DEF OpenerAt, Bound
<1>11. Unlinkers'
  <2>1. \A q \in Procs : ~Unlinking(q)
    BY <1>1 DEF Given, CrashInv, Unlinkers
  <2>2. \A q \in Procs : ~Unlinking(q)'
    BY <1>2, <1>3, <2>1 DEF Unlinking
  <2> QED
    BY <2>2 DEF Unlinkers
<1>12. NotLast' /\ RefFresh'
  BY <1>9 DEF NotLast, RefFresh, RefSections
<1>13. ShmFirst'
  BY <1>1 DEF Given, CrashInv, ShmFirst
<1>14. AtLeast'
  <2>0. \A o \in Procs : shm[o].ref >= 0
    BY DEF Given, CrashInv, AtLeast
  <2>1. \A o \in Procs : shm'[o].ref >= 0
    BY <1>4, <1>6, <2>0
  <2>2. shm[shmName].ref >= Cardinality(Crew)
    BY <1>4 DEF Given, CrashInv, AtLeast
  <2>3. shm'[shmName].ref >= Cardinality(Crew')
    BY <1>4, <1>6, <1>8, <2>2
  <2> QED
    BY <1>1, <1>8, <2>1, <2>3 DEF AtLeast
<1>15. NamesInUse'
  <2>1. \A q \in Crew' : shmName' = shmOf'[q] /\ semName' = semOf'[q]
    BY <1>1, <1>4, <1>5, <1>7
  <2> QED
    BY <2>1 DEF NamesInUse, Crew
<1>16. OneActing'
  BY <1>1, <1>5, <1>7 DEF Given, CrashInv, OneActing
<1>17. Tally
  <2>1. Miscounted => Miscounted'
    BY <1>1, <1>4, <1>6, <1>8 DEF Miscounted
  <2>2. \A q \in Crew : pc'[q] # "dead"
    BY <1>2, <1>7 DEF CrewPts, RegisteredPts, RunningPts
  <2> QED
    BY <2>1, <2>2 DEF Tally
<1> QED
  BY <1>10, <1>11, <1>12, <1>13, <1>14, <1>15, <1>16, <1>17 DEF CrashInv

LEMMA DropCrash ==
  ASSUME Given, NEW p \in Procs, LeaveDrop(p)
  PROVE  CrashInv' /\ Tally
<1> USE GivenTypes, CrewHere
<1>1. /\ pc[p] = "in_drop" /\ p \in Crew
      /\ UNCHANGED <<shmName, semName, shmOf, semOf, origin>>
      /\ pc' = [pc EXCEPT ![p] = IF reg[p] = 1 THEN "unlink_sem" ELSE "done"]
      /\ Store(p, "ref", reg[p] - 1)
  BY DEF LeaveDrop, Leave, Goto, CrewPts, RegisteredPts
<1>2. PICK to \in {"unlink_sem", "done"} :
        /\ pc'[p] = to
        /\ \A q \in Procs : q # p => pc'[q] = pc[q]
        /\ to = "unlink_sem" => reg[p] = 1
  BY <1>1
<1>3. to \notin CrewPts /\ to \notin RefSections /\ to \notin OpeningPts /\ ~Opening(p) /\ ~Opening(p)'
  BY <1>1, <1>2 DEF CrewPts, RegisteredPts, RunningPts, RefSections, OpeningPts, Opening
<1>4. /\ shmOf[p] = shmName /\ shmName \in Procs /\ reg[p] = shm[shmName].ref
      /\ \A q \in Procs : pc[q] \in RefSections => q = p
  BY <1>1, OneCounting DEF RefSections
<1>5. /\ shm'[shmName].ref = shm[shmName].ref - 1
      /\ \A o \in Procs : o # shmName => shm'[o].ref = shm[o].ref
  <2>1. reg[p] - 1 \in Int
    OBVIOUS
  <2>2. /\ shm'[shmName].ref = reg[p] - 1
        /\ \A o \in Procs : o # shmName => shm'[o].ref = shm[o].ref
    BY <1>1, <1>4, <2>1, StoreRef DEF Given
  <2> QED
    BY <1>4, <2>2
<1>6. Crew' = Crew \ {p}
  BY <1>1, <1>2, <1>3
<1>7. IsFiniteSet(Crew') /\ Cardinality(Crew') = Cardinality(Crew) - 1 /\ Cardinality(Crew') \in Nat
  BY <1>1, <1>6, FS_RemoveElement, FS_CardinalityType
<1>8. shm[shmName].ref >= Cardinality(Crew)
  BY <1>4 DEF Given, CrashInv, AtLeast
<1>9. \A q \in Procs : pc'[q] \notin RefSections
  BY <1>2, <1>3, <1>4
<1>10. \A q \in Procs : Opening(q)' => Opening(q) /\ q # p /\ pc'[q] = pc[q]
  BY <1>2, <1>3 DEF Opening
<1>11. Openers'
  <2> SUFFICES ASSUME NEW q \in Procs, Opening(q)' PROVE OpenerAt(q)'
    BY DEF Openers
  <2>1. q # p /\ pc'[q] = pc[q] /\ OpenerAt(q) /\ ~Alone(q)
    BY <1>1, <1>10 DEF Given, CrashInv, Openers, Alone
  <2> QED
    BY <1>1, <2>1 DEF OpenerAt, Bound
<1>12. Unlinkers'
  <2>1. \A q \in Procs : ~Unlinking(q)
    BY <1>1 DEF Given, CrashInv, Unlinkers
  <2>2. \A q \in Procs : Unlinking(q)' => q = p /\ to = "unlink_sem"
    BY <1>2, <2>1 DEF Unlinking
  <2>3. ASSUME to = "unlink_sem" PROVE Crew' = {} /\ \A q \in Procs : ~Opening(q)'
    <3>1. Cardinality(Crew') = 0
      BY <1>2, <1>4, <1>7, <1>8, <2>3
    <3>2. Crew' = {}
      BY <1>7, <3>1, FS_EmptySet
    <3>3. \A q \in Procs : ~Opening(q)
      BY <1>1, <1>2, <2>3 DEF Given, CrashInv, NotLast
    <3> QED
      BY <1>10, <3>2, <3>3
  <2> QED
    BY <1>2, <2>2, <2>3 DEF Unlinkers
<1>13. NotLast' /\ RefFresh'
  BY <1>9 DEF NotLast, RefFresh, RefSections
<1>14. ShmFirst'
  BY <1>1 DEF Given, CrashInv, ShmFirst
<1>15. AtLeast'
  <2>1. shm'[shmName].ref >= Cardinality(Crew')
    BY <1>4, <1>5, <1>7, <1>8
  <2>2. shm'[shmName].ref >= 0
    BY <1>4, <1>7, <2>1
  <2>3. \A o \in Procs : shm'[o].ref >= 0
    BY <1>5, <2>2 DEF Given, CrashInv, AtLeast
  <2> QED
    BY <1>1, <1>7, <2>1, <2>3 DEF AtLeast
<1>16. NamesInUse' /\ OneActing'
  <2>1. \A q \in Crew' : shmName' = shmOf'[q] /\ semName' = semOf'[q]
    BY <1>1, <1>6
  <2>2. NamesInUse'
    BY <2>1 DEF NamesInUse, Crew
  <2>3. OneActing'
    BY <1>1, <1>6 DEF Given, CrashInv, OneActing
  <2> QED
    BY <2>2, <2>3
<1>17. Tally
  <2>1. Miscounted => Miscounted'
    BY <1>1, <1>4, <1>5, <1>7 DEF Miscounted
  <2>2. \A q \in Crew : pc'[q] # "dead"
    BY <1>2 DEF CrewPts, RegisteredPts, RunningPts
  <2> QED
    BY <2>1, <2>2 DEF Tally
<1> QED
  BY <1>11, <1>12, <1>13, <1>14, <1>15, <1>16, <1>17 DEF CrashInv

LEMMA UnlinkCrash ==
  ASSUME Given, NEW p \in Procs, UnlinkSem(p) \/ UnlinkShm(p)
  PROVE  CrashInv' /\ Tally
<1> USE GivenTypes, CrewHere
<1>1. /\ Unlinking(p) /\ UNCHANGED <<shm, shmOf, semOf, origin, reg>>
      /\ \/ /\ pc[p] = "unlink_sem" /\ pc' = [pc EXCEPT ![p] = "unlink_shm"]
            /\ semName' = None /\ shmName' = shmName
         \/ /\ pc[p] = "unlink_shm" /\ pc' = [pc EXCEPT ![p] = "done"]
            /\ semName' = semName /\ shmName' = None
  BY DEF UnlinkSem, UnlinkShm, Goto, SemUnlink, ShmUnlink, KeepLocals, Unlinking
<1>2. PICK to \in {"unlink_shm", "done"} : pc'[p] = to /\ \A q \in Procs : q # p => pc'[q] = pc[q]
  BY <1>1
<1>3. /\ Crew = {} /\ \A q \in Procs : ~Opening(q) /\ (Unlinking(q) => q = p)
      /\ semName' = None
  BY <1>1 DEF Given, CrashInv, Unlinkers
<1>4. to \notin CrewPts /\ to \notin RefSections /\ to \notin OpeningPts
  BY DEF CrewPts, RegisteredPts, RunningPts, RefSections, OpeningPts
<1>5. Crew' = {}
  <2>1. \A q \in Procs : pc'[q] \notin CrewPts
    BY <1>2, <1>3, <1>4
  <2> QED
    BY <2>1
<1>6. \A q \in Procs : ~Opening(q)' /\ pc'[q] \notin RefSections /\ (Unlinking(q)' => q = p)
  <2>1. \A q \in Procs : pc[q] \notin RefSections
    BY <1>3 DEF RefSections, CrewPts, RegisteredPts, RunningPts, Opening, OpeningPts
  <2> QED
    BY <1>2, <1>3, <1>4, <2>1 DEF Opening, Unlinking
<1>7. Openers' /\ Unlinkers' /\ NotLast' /\ RefFresh' /\ ShmFirst'
  BY <1>3, <1>5, <1>6 DEF Openers, Unlinkers, NotLast, RefFresh, RefSections, ShmFirst
<1>8. AtLeast'
  <2>1. \A o \in Procs : shm[o].ref >= 0
    BY DEF Given, CrashInv, AtLeast
  <2>2. IsFiniteSet(Crew') /\ Cardinality(Crew') = 0
    BY <1>5, FS_EmptySet
  <2> QED
    BY <1>1, <2>1, <2>2 DEF AtLeast
<1>9. NamesInUse' /\ OneActing'
  BY <1>5 DEF NamesInUse, OneActing, Crew
<1>10. Tally
  BY <1>3, <1>6 DEF Tally
<1> QED
  BY <1>7, <1>8, <1>9, <1>10 DEF CrashInv

\* A main that reads a count of 1 on standby is the only one registered.
LEMMA LastIsAlone ==
  ASSUME Given, NEW m \in Procs, pc[m] = "in_standby", reg[m] = 1
  PROVE  Crew = {m} /\ ~Miscounted
<1> USE GivenTypes, CrewHere
<1>1. m \in Crew /\ shm[shmName].ref = 1 /\ shmName \in Procs
  BY OneCounting DEF RefSections, CrewPts, RegisteredPts, RunningPts
<1>2. Cardinality(Crew) <= 1
  BY <1>1 DEF Given, CrashInv, AtLeast
<1>3. Crew = {m}
  <2> SUFFICES ASSUME NEW q \in Crew, q # m PROVE FALSE
    BY <1>1
  <2> QED
    BY <1>1, <1>2, TwoMembers
<1>4. Cardinality(Crew) = 1
  BY <1>3, FS_Singleton
<1>5. ~Miscounted
  BY <1>1, <1>4 DEF Miscounted
<1> QED
  BY <1>3, <1>5

LEMMA StandbyCrash ==
  ASSUME Given, NEW m \in Procs, LeaveStandby(m)
  PROVE  CrashInv' /\ Tally
<1> USE GivenTypes, CrewHere
<1>1. /\ pc[m] = "in_standby" /\ m \in Crew
      /\ UNCHANGED <<shmName, semName, shmOf, semOf, shm>>
      /\ pc' = [pc EXCEPT ![m] = "loop"]
      /\ origin' = [origin EXCEPT ![m] = @ \/ reg[m] = 1]
  BY DEF LeaveStandby, Leave, Goto, CrewPts, RegisteredPts, RunningPts
<1>2. pc'[m] = "loop" /\ \A q \in Procs : q # m => pc'[q] = pc[q] /\ origin'[q] = origin[q]
  BY <1>1
<1>3. "loop" \in CrewPts /\ "loop" \notin RefSections /\ "loop" \notin OpeningPts
  BY DEF CrewPts, RegisteredPts, RunningPts, RefSections, OpeningPts
<1>4. Crew' = Crew
  BY <1>1, <1>2, <1>3
<1>5. /\ \A q \in Procs : pc[q] \in RefSections => q = m
      /\ reg[m] = shm[shmName].ref /\ shmName \in Procs
  BY <1>1, OneCounting DEF RefSections
<1>6. reg[m] = 1 => Crew = {m}
  BY <1>1, LastIsAlone
<1>7. OneActing'
  <2>1. CASE reg[m] = 1
    BY <1>4, <1>6, <2>1 DEF OneActing
  <2>2. CASE reg[m] # 1
    BY <1>1, <1>4, <2>2 DEF Given, CrashInv, OneActing
  <2> QED
    BY <2>1, <2>2
<1>8. \A q \in Procs : pc'[q] \notin RefSections
  BY <1>2, <1>3, <1>5
<1>9. \A q \in Procs : Opening(q)' => Opening(q) /\ q # m /\ pc'[q] = pc[q]
  BY <1>2, <1>3 DEF Opening
<1>10. Openers'
  <2> SUFFICES ASSUME NEW q \in Procs, Opening(q)' PROVE OpenerAt(q)'
    BY DEF Openers
  <2>1. q # m /\ pc'[q] = pc[q] /\ OpenerAt(q) /\ ~Alone(q)
    BY <1>1, <1>9 DEF Given, CrashInv, Openers, Alone
  <2> QED
    BY <1>1, <1>2, <2>1 DEF OpenerAt, Bound
<1>11. Unlinkers'
  <2>1. \A q \in Procs : ~Unlinking(q)
    BY <1>1 DEF Given, CrashInv, Unlinkers
  <2>2. \A q \in Procs : ~Unlinking(q)'
    BY <1>2, <2>1 DEF Unlinking
  <2> QED
    BY <2>2 DEF Unlinkers
<1>12. NotLast' /\ RefFresh'
  BY <1>8 DEF NotLast, RefFresh, RefSections
<1>13. ShmFirst' /\ AtLeast'
  BY <1>1, <1>4 DEF Given, CrashInv, ShmFirst, AtLeast
<1>14. NamesInUse'
  BY <1>1, <1>4 DEF NamesInUse, Crew
<1>15. Tally
  BY <1>1, <1>2, <1>4 DEF Tally, Miscounted, CrewPts, RegisteredPts, RunningPts
<1> QED
  BY <1>7, <1>10, <1>11, <1>12, <1>13, <1>14, <1>15 DEF CrashInv

-----------------------------------------------------------------------------
(* Every other step lets nobody in.                                         *)

\* The wait and the load, which may end in SIGBUS.
LEMMA EnterCrash ==
  ASSUME Given, NEW p \in Procs, NEW from, NEW section \in Sections, NEW word,
         Enter(p, from, section, word),
         section \in RefSections => word = "ref",
         \/ from \in CrewPts /\ section \in CrewPts
         \/ from = "register" /\ section = "in_register"
         \/ from = "prompt" /\ section = "in_set",
         section = "in_drop" => \A r \in Procs : Opening(r) => Crew # {p}
  PROVE  CrashInv' /\ Tally
<1> USE GivenTypes
<1>1. /\ pc[p] = from
      /\ UNCHANGED <<shmName, semName, shm, shmOf, semOf, origin>>
      /\ \/ pc' = [pc EXCEPT ![p] = section] /\ reg' = [reg EXCEPT ![p] = shm[shmOf[p]][word]]
         \/ pc' = [pc EXCEPT ![p] = "dead"] /\ UNCHANGED reg
  BY DEF Enter, Goto
<1>2. PICK to \in {section, "dead"} :
        /\ pc'[p] = to
        /\ \A q \in Procs : q # p => pc'[q] = pc[q] /\ reg'[q] = reg[q]
        /\ to # "dead" => reg'[p] = shm[shmOf[p]][word]
  <2>1. CASE pc' = [pc EXCEPT ![p] = section] /\ reg' = [reg EXCEPT ![p] = shm[shmOf[p]][word]]
    BY <2>1
  <2>2. CASE pc' = [pc EXCEPT ![p] = "dead"] /\ UNCHANGED reg
    BY <2>2
  <2> QED
    BY <1>1, <2>1, <2>2
<1>3. \A q \in Procs : Fades(q)
  BY <1>1, <1>2 DEF Fades
<1>4. \A q \in Procs : pc'[q] \in RefSections => reg'[q] = shm[shmOf[q]].ref
  <2>1. "dead" \notin RefSections
    BY DEF RefSections
  <2> QED
    BY <1>2, <2>1 DEF Given, CrashInv, RefFresh
<1>5. \A q, r \in Procs : pc'[q] = "in_drop" /\ pc[q] # "in_drop" /\ Opening(r) => Crew # {q}
  BY <1>2
<1> QED
  BY <1>1, <1>3, <1>4, <1>5, FadeStep

\* One process moves to a point outside the sections.
LEMMA MoveCrash ==
  ASSUME Given, NEW p \in Procs, NEW to \in Points \ RefSections, Step1(p, to),
         \/ pc[p] \in CrewPts /\ to \in CrewPts
         \/ pc[p] \in {"prompt", "in_set"} /\ to = "prompt"
         \/ to = "done" /\ pc[p] \notin CrewPts
         \/ to = "dead",
         UNCHANGED <<shmName, semName, shmOf, semOf, origin>>,
         \A o \in Procs : shm'[o].ref = shm[o].ref,
         \A q \in Procs : q # p => reg'[q] = reg[q]
  PROVE  CrashInv' /\ Tally
<1> USE GivenTypes
<1>1. pc'[p] = to /\ \A q \in Procs : q # p => pc'[q] = pc[q]
  BY DEF Step1
<1>2. \A q \in Procs : Fades(q)
  BY <1>1 DEF Fades
<1>3. \A q \in Procs : pc'[q] \in RefSections => reg'[q] = shm[shmOf[q]].ref
  BY <1>1 DEF Given, CrashInv, RefFresh
<1>4. \A q \in Procs : pc'[q] = "in_drop" => pc[q] = "in_drop"
  BY <1>1 DEF RefSections
<1> QED
  BY <1>2, <1>3, <1>4, FadeStep

\* The store of a section on the counter leaves ref_ctr alone.
LEMMA StoreCtr ==
  ASSUME Given, NEW p \in Procs, NEW v \in Int, Store(p, "ctr", v)
  PROVE  \A o \in Procs : shm'[o].ref = shm[o].ref
<1>1. shm' = [shm EXCEPT ![shmOf[p]] = [shm[shmOf[p]] EXCEPT !.ctr = v]]
  BY DEF Store
<1>2. \A o \in Procs : o # shmOf[p] => shm'[o] = shm[o]
  BY <1>1, GivenTypes
<1>3. \A seg \in Segment : [seg EXCEPT !.ctr = v].ref = seg.ref
  BY DEF Segment
<1>4. ASSUME shmOf[p] \in Procs PROVE shm'[shmOf[p]].ref = shm[shmOf[p]].ref
  <2>1. shm'[shmOf[p]] = [shm[shmOf[p]] EXCEPT !.ctr = v] /\ shm[shmOf[p]] \in Segment
    BY <1>1, <1>4, GivenTypes
  <2> HIDE <1>1
  <2> QED
    BY <1>3, <2>1
<1> QED
  BY <1>2, <1>4

-----------------------------------------------------------------------------
(* The actions.                                                             *)

\* What an opening process knows when a probe or an open finds a name free.
LEMMA FoundFree ==
  ASSUME Given, NEW p \in Procs, Opening(p), shmName \notin Procs \/ semName \notin Procs
  PROVE  p \in Mains /\ Alone(p)
BY DEF Given, CrashInv, Openers, OpenerAt, Bound

LEMMA OpenCrash ==
  ASSUME Given, NEW p \in Procs, Open(p)
  PROVE  CrashInv' /\ Tally
<1> USE GivenTypes
<1>0. /\ Opening(p) => OpenerAt(p)
      /\ ShmFirst
      /\ Alone(p) => \A to : Step1(p, to) /\ to \notin CrewPts => Alone(p)'
  <2>1. ASSUME Alone(p), NEW to, Step1(p, to), to \notin CrewPts PROVE Alone(p)'
    <3>1. pc'[p] = to /\ \A q \in Procs : q # p => pc'[q] = pc[q]
      BY <2>1 DEF Step1
    <3>2. Crew' = {}
      BY <2>1, <3>1, CrewHere DEF Alone
    <3> QED
      BY <2>1, <3>1, <3>2 DEF Alone, Opening
  <2> QED
    BY <2>1 DEF Given, CrashInv, Openers
<1> DEFINE Here(to) ==
      /\ Opening(p) /\ Step1(p, to) /\ to \in (OpeningPts \ RefSections) \cup {"prompt"}
      /\ pc'[p] = to /\ to \notin CrewPts
      /\ OpenerAt(p) /\ (Alone(p) => Alone(p)')
<1>1. ASSUME NEW from \in OpeningPts, NEW to \in (OpeningPts \ RefSections) \cup {"prompt"}, Goto(p, from, to)
      PROVE  Here(to) /\ pc[p] = from
  <2>1. to \notin CrewPts /\ Opening(p) /\ Step1(p, to)
    BY <1>1 DEF OpeningPts, CrewPts, RegisteredPts, RunningPts, Goto, Opening, Step1
  <2> QED
    BY <1>0, <1>1, <2>1 DEF Step1, Goto
<1> HIDE DEF Here
<1> USE DEF OpeningPts, RefSections
<1>2. ASSUME NEW to, Here(to), UNCHANGED <<memVars, working, origin, shmOf, semOf, reg>>,
             to \in {"exists2?", "open"}
      PROVE  CrashInv' /\ Tally
  <2>1. OpenerAt(p)'
    BY <1>2 DEF Here, OpenerAt, Bound, memVars, OwnShmPts, OwnSemPts
  <2>2. ShmFirst'
    BY <1>0, <1>2 DEF ShmFirst, memVars
  <2> QED
    BY <1>2, <2>1, <2>2, OpeningStep DEF Here, memVars
<1>3. CASE Exists(p) \/ ExistsAgain(p)
  BY <1>1, <1>2, <1>3 DEF Exists, ExistsAgain, ProbeFound, KeepLocals
<1>4. CASE ExistsNot(p) \/ ExistsNotAgain(p)
  <2>1. PICK to \in {"unprobe", "unprobe2"} : Here(to)
    BY <1>1, <1>4 DEF ExistsNot, ExistsNotAgain
  <2>2. /\ shmName = None /\ shmName' = Probe
        /\ UNCHANGED <<semName, shm, sem, working, origin, shmOf, semOf, reg>>
    BY <1>4 DEF ExistsNot, ExistsNotAgain, ProbeCreate, KeepLocals
  <2>3. p \in Mains /\ Alone(p)
    BY <2>1, <2>2, FoundFree DEF Here
  <2>4. OpenerAt(p)'
    BY <2>1, <2>2, <2>3 DEF Here, OpenerAt, Bound, OwnShmPts, OwnSemPts
  <2>5. ShmFirst'
    BY <1>0, <2>2 DEF ShmFirst
  <2> QED
    BY <2>1, <2>2, <2>3, <2>4, <2>5, OpeningStep DEF Here
<1>5. CASE Unprobe(p) \/ UnprobeAgain(p)
  <2>1. pc[p] \in {"unprobe", "unprobe2"} /\ Opening(p)
    BY <1>5 DEF Unprobe, UnprobeAgain, Goto, Opening
  <2>2. shmName = Probe /\ p \in Mains /\ Alone(p)
    BY <1>0, <2>1, FoundFree DEF OpenerAt
  <2>3. PICK to \in {"exists2?", "create"} : Here(to)
    BY <1>1, <1>5, <2>2 DEF Unprobe, UnprobeAgain
  <2>4. /\ shmName' = None /\ UNCHANGED <<semName, shm, sem, shmOf, semOf, reg>>
        /\ \A q \in Procs : q # p => origin'[q] = origin[q]
    BY <1>5 DEF Unprobe, UnprobeAgain, ShmUnlink, KeepLocals
  <2>5. OpenerAt(p)'
    BY <2>2, <2>3, <2>4 DEF Here, OpenerAt, OwnShmPts, OwnSemPts
  <2>6. ShmFirst'
    BY <1>0, <2>2, <2>4 DEF ShmFirst
  <2> QED
    BY <2>2, <2>3, <2>4, <2>5, <2>6, OpeningStep DEF Here
<1>6. CASE OpenShm(p)
  <2>1. PICK to \in {"semopen", "truncate"} : Here(to)
    BY <1>1, <1>6 DEF OpenShm
  <2>2. PICK o \in Procs : ShmOpen(p, o) /\ shmOf' = [shmOf EXCEPT ![p] = o]
    BY <1>6 DEF OpenShm
  <2>3. /\ shmOf'[p] = o /\ shmName' = o /\ \A q \in Procs : q # p => shmOf'[q] = shmOf[q]
        /\ UNCHANGED <<semName, shm, sem, origin, semOf, reg>>
        /\ shmName = None \/ shmName' = shmName
    BY <1>6, <2>2 DEF OpenShm, ShmOpen, memVars
  <2>4. (p \in Mains /\ Alone(p)) \/ UNCHANGED <<shmName, semName>>
    BY <2>1, <2>3, FoundFree DEF Here
  <2>5. OpenerAt(p)'
    BY <2>1, <2>3, <2>4 DEF Here, OpenerAt, Bound, OwnShmPts, OwnSemPts
  <2>6. ShmFirst'
    BY <2>3 DEF ShmFirst
  <2> QED
    BY <2>1, <2>3, <2>4, <2>5, <2>6, OpeningStep DEF Here
<1>7. CASE Truncate(p)
  <2>1. Here("semopen") /\ pc[p] = "truncate"
    BY <1>1, <1>7 DEF Truncate
  <2>2. UNCHANGED <<shmName, semName, sem, origin, shmOf, semOf, reg>>
    BY <1>7 DEF Truncate, ShmTruncate, KeepLocals
  <2>3. \A o \in Procs : shm'[o].ref = shm[o].ref
    <3>1. \A seg \in Segment : [seg EXCEPT !.sized = TRUE].ref = seg.ref
      BY DEF Segment
    <3>2. shm' = [shm EXCEPT ![shmOf[p]] = [shm[shmOf[p]] EXCEPT !.sized = TRUE]]
      BY <1>7 DEF Truncate, ShmTruncate
    <3>3. shmOf[p] \in Procs
      BY <2>1 DEF Given, IInv, Handles, WithShm
    <3> QED
      BY <3>1, <3>2, <3>3
  <2>4. OpenerAt(p)'
    BY <2>1, <2>2 DEF Here, OpenerAt, Bound, OwnShmPts, OwnSemPts
  <2>5. ShmFirst'
    BY <1>0, <2>2 DEF ShmFirst
  <2> QED
    BY <2>1, <2>2, <2>3, <2>4, <2>5, OpeningStep DEF Here
<1>8. CASE OpenSem(p)
  <2>1. PICK to \in {"prompt", "init", "register"} :
          Here(to) /\ pc[p] = "semopen" /\ (to = "init" => origin[p])
    <3>1. \E to \in {"prompt", "init", "register"} : Goto(p, "semopen", to) /\ (to = "init" => origin[p])
      BY <1>8 DEF OpenSem
    <3> QED
      BY <1>1, <3>1
  <2>2. PICK s \in Procs : SemOpen(p, s) /\ semOf' = [semOf EXCEPT ![p] = s]
    BY <1>8 DEF OpenSem
  <2>3. /\ semOf'[p] = s /\ semName' = s /\ \A q \in Procs : q # p => semOf'[q] = semOf[q]
        /\ UNCHANGED <<shmName, shm, origin, shmOf, reg>>
        /\ semName = None \/ semName' = semName
    BY <1>8, <2>2 DEF OpenSem, SemOpen, memVars
  <2>4. (p \in Mains /\ Alone(p)) \/ UNCHANGED <<shmName, semName>>
    BY <2>1, <2>3, FoundFree DEF Here
  <2>5. shmOf[p] = shmName /\ shmName \in Procs
    BY <2>1 DEF Here, OpenerAt, OwnShmPts, Given, IInv, Handles, WithShm
  <2>6. OpenerAt(p)'
    BY <2>1, <2>3, <2>4, <2>5 DEF Here, OpenerAt, Bound, OwnShmPts, OwnSemPts
  <2>7. ShmFirst'
    BY <2>3, <2>5 DEF ShmFirst
  <2> QED
    BY <2>1, <2>3, <2>4, <2>6, <2>7, OpeningStep DEF Here
<1>9. ASSUME NEW from \in OpeningPts, NEW to \in {"done", "dead"}, Goto(p, from, to),
             UNCHANGED memVars, KeepLocals
      PROVE  CrashInv' /\ Tally
  <2>1. from \notin CrewPts /\ Step1(p, to) /\ to \in Points \ RefSections
    BY <1>9 DEF CrewPts, RegisteredPts, RunningPts, Step1, Goto, Points, EndedPts
  <2> QED
    BY <1>9, <2>1, MoveCrash DEF KeepLocals, memVars, Goto
<1>10. CASE OpenShmDenied(p)
  BY <1>9, <1>10 DEF OpenShmDenied, ShmOpenDenied
<1>11. CASE InitWords(p)
  <2>1. CASE shm[shmOf[p]].sized
    <3>1. Here("register") /\ pc[p] = "init"
      BY <1>1, <1>11, <2>1 DEF InitWords
    <3>2. /\ UNCHANGED <<shmName, semName, sem, origin, shmOf, semOf, reg>>
          /\ shm' = [shm EXCEPT ![shmOf[p]] = [sized |-> TRUE, ref |-> 0, ctr |-> 0]]
      BY <1>11, <2>1 DEF InitWords, KeepLocals
    <3>3. p \in Mains /\ Alone(p)
      BY <3>1 DEF Here, OpenerAt
    <3>4. \A o \in Procs : shm'[o].ref = shm[o].ref \/ shm'[o].ref = 0
      BY <3>2
    <3>5. OpenerAt(p)'
      BY <3>1, <3>2, <3>3 DEF Here, OpenerAt, Bound, OwnShmPts, OwnSemPts
    <3>6. ShmFirst'
      BY <1>0, <3>2 DEF ShmFirst
    <3> QED
      BY <3>1, <3>2, <3>3, <3>4, <3>5, <3>6, OpeningStep DEF Here
  <2>2. CASE ~shm[shmOf[p]].sized
    BY <1>9, <1>11, <2>2 DEF InitWords, memVars
  <2> QED
    BY <2>1, <2>2
<1>12. CASE EnterRegister(p)
  BY <1>12, EnterCrash DEF EnterRegister, Sections
<1> QED
  BY <1>3, <1>4, <1>5, <1>6, <1>7, <1>8, <1>10, <1>11, <1>12, RegisterCrash DEF Open

LEMMA MainCrash ==
  ASSUME Given, NEW p \in Procs, RunMain(p)
  PROVE  CrashInv' /\ Tally
<1> USE GivenTypes
<1>0. RunningPts \cup {"cleanup", "drop"} \subseteq CrewPts \cup {"prompt", "in_set"}
  BY DEF CrewPts, RegisteredPts
<1>1. ASSUME NEW to, Step1(p, to), to \in MainPts \ RefSections, pc[p] \in MainPts,
             UNCHANGED <<shmName, semName, shmOf, semOf, origin>>,
             \A o \in Procs : shm'[o].ref = shm[o].ref,
             \A q \in Procs : q # p => reg'[q] = reg[q]
      PROVE  CrashInv' /\ Tally
  <2>1. MainPts \subseteq CrewPts /\ MainPts \subseteq Points
    BY DEF MainPts, ActingPts, CrewPts, RegisteredPts, RunningPts, Points, LeavingPts
  <2> QED
    BY <1>1, <2>1, MoveCrash
<1>2. ASSUME NEW c \in Procs, NEW from \in MainPts, NEW to \in MainPts \ RefSections,
             StartChild(p, c, from, to), UNCHANGED <<memVars, origin, shmOf, semOf, reg>>
      PROVE  CrashInv' /\ Tally
  <2>1. MainPts \subseteq CrewPts \ {"in_drop"} /\ "idle" \notin CrewPts
    BY DEF MainPts, ActingPts, CrewPts, RegisteredPts, RunningPts
  <2>2. /\ pc[p] = from /\ pc[c] = "idle" /\ c # p /\ pc'[c] = "exists?" /\ pc'[p] = to
        /\ \A q \in Procs : q # c /\ q # p => pc'[q] = pc[q]
    BY <1>2, <2>1 DEF StartChild
  <2> QED
    BY <1>2, <2>1, <2>2, StartCrash
<1>3. ASSUME NEW from \in MainPts, NEW section \in CtrSections \cup {"in_standby"}, NEW word,
             Enter(p, from, section, word), section \in MainPts, section = "in_standby" => word = "ref"
      PROVE  CrashInv' /\ Tally
  <2>1. MainPts \subseteq CrewPts
    BY DEF MainPts, ActingPts, CrewPts, RegisteredPts, RunningPts
  <2> QED
    BY <1>3, <2>1, EnterCrash DEF Sections, RefSections, CtrSections
<1> USE DEF MainPts, ActingPts
<1>4. CASE SpawnCli(p)
  <2>1. pc[p] = "spawn" /\ UNCHANGED <<memVars, origin, shmOf, semOf, reg>>
    BY <1>4 DEF SpawnCli, KeepLocals
  <2>2. ASSUME NEW c \in Clis, StartChild(p, c, "spawn", "loop") PROVE CrashInv' /\ Tally
    BY <1>2, <2>1, <2>2 DEF RefSections
  <2>3. ASSUME Goto(p, "spawn", "loop") PROVE CrashInv' /\ Tally
    BY <1>1, <2>1, <2>3 DEF Goto, Step1, RefSections, memVars
  <2> QED
    BY <1>4, <2>2, <2>3 DEF SpawnCli
<1>5. ASSUME NEW at \in {"spawn", "tick", "log", "copies", "spawn2"}, StartFails(p, at)
      PROVE  CrashInv' /\ Tally
  BY <1>1, <1>5 DEF StartFails, Goto, Step1, RefSections, KeepLocals, memVars
<1>6. CASE Loop(p) \/ CopiesStillRunning(p) \/ EndIteration(p)
  BY <1>1, <1>6 DEF Loop, CopiesStillRunning, EndIteration, Goto, Step1, RefSections, KeepLocals, memVars
<1>7. CASE EnterTick(p)
  BY <1>3, <1>7 DEF EnterTick, CtrSections
<1>8. CASE EnterLog(p)
  BY <1>3, <1>8 DEF EnterLog, CtrSections
<1>9. CASE EnterStandby(p)
  BY <1>3, <1>9 DEF EnterStandby
<1>10. CASE LeaveTick(p)
  <2>1. I32(reg[p] + 1) \in Int
    BY I32Type
  <2>2. \A o \in Procs : shm'[o].ref = shm[o].ref
    BY <1>10, <2>1, StoreCtr DEF LeaveTick
  <2> QED
    BY <1>1, <1>10, <2>2 DEF LeaveTick, Leave, Goto, Step1, RefSections
<1>11. CASE LeaveLog(p) \/ LogFails(p)
  BY <1>1, <1>11 DEF LeaveLog, LogFails, Leave, Goto, Step1, RefSections, memVars
<1>12. CASE SpawnCopy1(p)
  <2>1. PICK c \in Copy1s : StartChild(p, c, pc[p], "spawn2")
    BY <1>12 DEF SpawnCopy1
  <2>2. /\ pc[p] \in {"tick", "log", "copies"} /\ c \in Procs
        /\ UNCHANGED <<memVars, origin, shmOf, semOf, reg>>
    BY <1>12 DEF SpawnCopy1, Copies
  <2> QED
    BY <1>2, <2>1, <2>2 DEF RefSections
<1>13. CASE SpawnCopy2(p)
  <2>1. PICK c \in Copy2s : StartChild(p, c, "spawn2", "loop")
    BY <1>13 DEF SpawnCopy2
  <2>2. c \in Procs /\ UNCHANGED <<memVars, origin, shmOf, semOf, reg>>
    BY <1>13 DEF SpawnCopy2, Copies
  <2> QED
    BY <1>2, <2>1, <2>2 DEF RefSections
<1> QED
  BY <1>4, <1>5, <1>6, <1>7, <1>8, <1>9, <1>10, <1>11, <1>12, <1>13, StandbyCrash DEF RunMain

LEMMA CopyCrash ==
  ASSUME Given, NEW p \in Procs, RunCopy(p) \/ RunCli(p)
  PROVE  CrashInv' /\ Tally
<1> USE GivenTypes
<1>0. /\ {"work", "in_add", "in_double", "pause", "in_halve", "drop"} \subseteq CrewPts
      /\ {"prompt", "in_set", "done"} \cap CrewPts = {}
  BY DEF CrewPts, RegisteredPts, RunningPts
<1>1. CASE EnterAdd(p) \/ EnterDouble(p) \/ EnterHalve(p) \/ EnterSet(p)
  BY <1>0, <1>1, EnterCrash
     DEF EnterAdd, EnterDouble, EnterHalve, EnterSet, Sections, RefSections, CtrSections
<1>2. ASSUME NEW section, NEW to, Leave(p, section, to), UNCHANGED origin,
             \E v \in Int : Store(p, "ctr", v),
             \/ section \in {"in_add", "in_double", "in_halve"} /\ to \in {"pause", "drop"}
             \/ section = "in_set" /\ to = "prompt"
      PROVE  CrashInv' /\ Tally
  <2>1. \A o \in Procs : shm'[o].ref = shm[o].ref
    BY <1>2, StoreCtr
  <2>2. to \in Points \ RefSections
    BY <1>2 DEF Points, RunningPts, LeavingPts, RefSections
  <2>3. /\ Step1(p, to) /\ pc[p] = section
        /\ \A q \in Procs : q # p => reg'[q] = reg[q]
        /\ UNCHANGED <<shmName, semName, shmOf, semOf, origin>>
    BY <1>2 DEF Leave, Goto, Step1
  <2> QED
    BY <1>0, <1>2, <2>1, <2>2, <2>3, MoveCrash
<1>3. CASE LeaveAdd(p)
  <2>1. I32(reg[p] + 10) \in Int
    BY I32Type
  <2> QED
    BY <1>2, <1>3, <2>1 DEF LeaveAdd
<1>4. CASE LeaveDouble(p)
  <2>1. I32(reg[p] * 2) \in Int
    BY I32Type
  <2> QED
    BY <1>2, <1>4, <2>1 DEF LeaveDouble
<1>5. CASE LeaveHalve(p)
  <2>1. Half(reg[p]) \in Int
    BY HalfType
  <2> QED
    BY <1>2, <1>5, <2>1 DEF LeaveHalve
<1>6. CASE LeaveSet(p)
  BY <1>2, <1>6, CounterLoggerAssumption DEF LeaveSet
<1>7. CASE EndOfInput(p)
  BY <1>0, <1>7, MoveCrash DEF EndOfInput, Goto, Step1, Points, EndedPts, RefSections, KeepLocals, memVars
<1> QED
  BY <1>1, <1>3, <1>4, <1>5, <1>6, <1>7 DEF RunCopy, RunCli

LEMMA ExitCrash ==
  ASSUME Given, NEW p \in Procs, Exit(p)
  PROVE  CrashInv' /\ Tally
<1> USE GivenTypes
<1>0. {"cleanup", "drop", "in_drop"} \subseteq CrewPts
  BY DEF CrewPts, RegisteredPts
<1>1. CASE KillCli(p)
  BY <1>0, <1>1, MoveCrash DEF KillCli, Goto, Step1, Points, LeavingPts, RefSections, memVars
<1>2. CASE MayDrop(p) /\ EnterDrop(p)
  <2>1. \A r \in Procs : Opening(r) => Crew # {p}
    BY <1>2 DEF MayDrop, Given
  <2> QED
    BY <1>0, <1>2, <2>1, EnterCrash DEF EnterDrop, Sections, RefSections
<1> QED
  BY <1>1, <1>2, DropCrash, UnlinkCrash DEF Exit

LEMMA StillCrash ==
  ASSUME Given, UNCHANGED <<memVars, pc, origin, shmOf, semOf, reg>>
  PROVE  CrashInv' /\ Tally
<1>1. \A q \in Procs : Fades(q)
  BY DEF Fades
<1>2. \A q \in Procs : pc'[q] \in RefSections => reg'[q] = shm[shmOf[q]].ref
  BY DEF Given, CrashInv, RefFresh
<1> QED
  BY <1>1, <1>2, FadeStep DEF memVars

LEMMA CrashStep ==
  ASSUME Given, [Next]_vars
  PROVE  CrashInv' /\ Tally
<1> USE GivenTypes
<1>1. ASSUME NEW p \in Procs, (MayStart /\ Start(p)) \/ Step(p) \/ SigInt(p) \/ Crash(p)
      PROVE  CrashInv' /\ Tally
  <2>1. CASE SigInt(p)
    BY <2>1, StillCrash DEF SigInt
  <2>2. CASE Crash(p) \/ CliInterrupted(p)
    BY <2>2, MoveCrash
       DEF Crash, CliInterrupted, Step1, Points, EndedPts, RefSections, KeepLocals, memVars
  <2>3. CASE MayStart /\ Start(p)
    <3>1. /\ pc[p] = "idle" /\ pc'[p] = "exists?" /\ \A q \in Procs : q # p => pc'[q] = pc[q]
          /\ p \in Mains /\ \A q \in Procs : Opening(q) \/ Leaving(q) => Crew \ {q} # {}
          /\ UNCHANGED <<memVars, origin, shmOf, semOf, reg>>
      BY <2>3 DEF MayStart, Start, Goto, KeepLocals, Given
    <3>2. "loop" \in CrewPts \ RefSections
      BY DEF CrewPts, RegisteredPts, RunningPts, RefSections
    <3> QED
      BY <3>1, <3>2, StartCrash
  <2> QED
    BY <1>1, <2>1, <2>2, <2>3, OpenCrash, MainCrash, CopyCrash, ExitCrash DEF Step
<1>2. CASE UNCHANGED vars
  BY <1>2, StillCrash DEF vars, procVars
<1> QED
  BY <1>1, <1>2 DEF Next, Finished

LEMMA CrashInit == Init => CrashInv
<1> SUFFICES ASSUME Init PROVE CrashInv
  OBVIOUS
<1>1. \A p \in Procs : pc[p] = "idle" /\ shm[p].ref = 0
  BY DEF Init, MemInit, FreshSegment
<1>2. \A p \in Procs : ~Opening(p) /\ ~Unlinking(p) /\ pc[p] \notin RefSections /\ ~Registered(p)
  BY <1>1 DEF Opening, OpeningPts, Unlinking, RefSections, Registered, RegisteredPts, RunningPts
<1>3. Crew = {} /\ IsFiniteSet(Crew)
  BY <1>2, FS_EmptySet DEF Crew
<1>4. shmName = None /\ semName = None
  BY DEF Init, MemInit
<1>5. Openers /\ Unlinkers /\ NotLast /\ RefFresh /\ ShmFirst
  BY <1>2, <1>4 DEF Openers, Unlinkers, NotLast, RefFresh, ShmFirst
<1>6. AtLeast
  BY <1>1, <1>3, <1>4, CrossMemAssumption DEF AtLeast
<1> QED
  BY <1>2, <1>3, <1>5, <1>6 DEF CrashInv, NamesInUse, OneActing

\* What holds through crashes, too.
THEOREM CrashTolerance == ASSUME Overlap = FALSE PROVE Spec => [](IInv /\ Kinds /\ CrashInv)
<1>1. Init => IInv /\ Kinds /\ CrashInv
  BY InitInv, KindsInit, CrashInit
<1>2. IInv /\ Kinds /\ CrashInv /\ [Next]_vars => IInv' /\ Kinds' /\ CrashInv'
  <2> SUFFICES ASSUME IInv, Kinds, CrashInv, [Next]_vars PROVE IInv' /\ Kinds' /\ CrashInv'
    OBVIOUS
  <2>1. IInv' /\ Kinds'
    BY StepInv, KindsStep
  <2> QED
    BY <2>1, CrashStep DEF Given
<1> QED
  BY <1>1, <1>2, PTL DEF Spec

\* The names stay bound to the objects under whoever is registered, whoever else is
\* killed: nobody but the last one out unlinks them, and the count is never too low.
THEOREM NamesStay == ASSUME Overlap = FALSE PROVE Spec => []NamesInUse
<1>1. CrashInv => NamesInUse
  BY DEF CrashInv
<1> QED
  BY <1>1, CrashTolerance, PTL

\* At most one main leads, through every takeover and every crash.
THEOREM OneOrigin == ASSUME Overlap = FALSE PROVE Spec => []SingleOrigin
<1>1. CrashInv => SingleOrigin
  BY CounterLoggerAssumption DEF CrashInv, OneActing, SingleOrigin, Acting, Crew
<1> QED
  BY <1>1, CrashTolerance, PTL

-----------------------------------------------------------------------------
(* One round of copies at a time.                                           *)

\* A main leads until it is about to give up its reference.
Leads(m) == Acting(m) /\ pc[m] # "in_drop"

\* The copies that are alive are those the leading main knows: a main takes over
\* only when it is the only user, when no copy is registered, ...
Owned == \A m \in Mains, c \in Copies : Acting(m) /\ Alive(c) => c \in {copy1[m], copy2[m]}

\* ... and none is on its way to be, because whoever started it still leads; or it was
\* killed, and then nobody will lead any more.
Started == \A c \in Copies : Opening(c) => Miscounted \/ \E m \in Mains : Leads(m)

\* The points at which copy1_proc may have been started without copy2_proc.
RoundEnd == {"spawn2", "cleanup", "drop"} \cup LeavingPts \cup EndedPts

Rounds ==
  \A m \in Mains :
    /\ pc[m] \notin RoundEnd /\ copy2[m] = None => copy1[m] = None
    /\ pc[m] = "spawn2" => copy2[m] = None \/ ~Alive(copy2[m])

RoundsInv == Owned /\ Started /\ Rounds /\ OneCopyPair

Settling == Given /\ CrashInv' /\ Tally /\ RoundsInv

-----------------------------------------------------------------------------
LEMMA CopyTypes ==
  ASSUME IInv
  PROVE  /\ copy1 \in [Mains -> Copy1s \cup {None}] /\ copy2 \in [Mains -> Copy2s \cup {None}]
         /\ Copies \subseteq Procs /\ Mains \subseteq Procs /\ Clis \subseteq Procs
         /\ Mains \cap Copies = {} /\ Copy1s \cap Copy2s = {} /\ None \notin Procs
         /\ Clis \cap (Mains \cup Copies) = {}
         /\ pc \in [Procs -> Points] /\ origin \in [Procs -> BOOLEAN]
BY CounterLoggerAssumption, CrossMemAssumption DEF IInv, TypeOK, Copies

\* The step of one process that neither starts a copy nor makes a main lead.
RoundsAt(p, to) ==
  /\ p \in Copies => /\ to \notin IdlePts => pc[p] \notin IdlePts
                     /\ to \in OpeningPts => pc[p] \in OpeningPts
  /\ p \in Mains =>
       /\ to \in RegisteredPts /\ origin'[p] => pc[p] \in RegisteredPts /\ origin[p]
       /\ pc[p] \in RegisteredPts \ {"in_drop"} /\ origin[p] =>
            \/ to \in RegisteredPts \ {"in_drop"} /\ origin'[p]
            \/ to = "dead"
            \/ \A c \in Copies : pc[c] \notin OpeningPts
       /\ to = "spawn2" => pc[p] = "spawn2"
       /\ to \notin RoundEnd => pc[p] \notin RoundEnd

LEMMA RoundsMove ==
  ASSUME Settling, NEW p \in Procs, NEW to, RoundsAt(p, to),
         pc'[p] = to, \A q \in Mains \cup Copies : q # p => pc'[q] = pc[q],
         UNCHANGED <<copy1, copy2>>, \A q \in Procs : q # p => origin'[q] = origin[q]
  PROVE  RoundsInv'
<1> USE CopyTypes DEF Settling, Given
<1>1. pc'[p] = to /\ \A q \in Mains \cup Copies : q # p => pc'[q] = pc[q]
  OBVIOUS
<1>2. \A c \in Copies : (Alive(c)' => Alive(c)) /\ (Opening(c)' => Opening(c))
  BY <1>1 DEF RoundsAt, Alive, Opening
<1>3. \A m \in Mains : Acting(m)' => Acting(m)
  BY <1>1 DEF RoundsAt, Acting, Registered
<1>4. Owned'
  BY <1>2, <1>3 DEF RoundsInv, Owned
<1>5. Started'
  <2> SUFFICES ASSUME NEW c \in Copies, Opening(c)', ~Miscounted'
               PROVE  \E m \in Mains : Leads(m)'
    BY DEF Started
  <2>1. Opening(c) /\ ~Miscounted
    BY <1>2 DEF Tally
  <2>2. PICK m \in Mains : Leads(m)
    BY <2>1 DEF RoundsInv, Started
  <2>3. m \in Procs /\ m \notin Clis /\ m \in Crew /\ pc'[m] # "dead"
    BY <2>2 DEF Leads, Acting, Crew, Tally
  <2>4. Leads(m)'
    BY <1>1, <2>1, <2>2, <2>3 DEF RoundsAt, Leads, Acting, Registered, Opening
  <2> QED
    BY <2>4
<1>6. Rounds'
  <2> SUFFICES ASSUME NEW m \in Mains
               PROVE  /\ pc'[m] \notin RoundEnd /\ copy2[m] = None => copy1[m] = None
                      /\ pc'[m] = "spawn2" => copy2[m] = None \/ ~Alive(copy2[m])'
    BY DEF Rounds
  <2>1. pc'[m] \notin RoundEnd => pc[m] \notin RoundEnd
    BY <1>1 DEF RoundsAt
  <2>2. pc'[m] = "spawn2" => pc[m] = "spawn2"
    BY <1>1 DEF RoundsAt
  <2>3. copy2[m] = None \/ copy2[m] \in Copies
    BY DEF Copies
  <2> QED
    BY <1>2, <2>1, <2>2, <2>3 DEF RoundsInv, Rounds
<1>7. OneCopyPair'
  BY <1>2 DEF RoundsInv, OneCopyPair, Copies
<1> QED
  BY <1>4, <1>5, <1>6, <1>7 DEF RoundsInv

\* A main takes the lead: no copy is alive by then.
LEMMA RoundsLead ==
  ASSUME Settling, NEW m \in Mains, NEW to \in RegisteredPts \ RoundEnd, Step1(m, to),
         pc[m] \notin RoundEnd, UNCHANGED <<copy1, copy2>>, \A q \in Procs : q # m => origin'[q] = origin[q],
         \A c \in Copies : ~Alive(c)
  PROVE  RoundsInv'
<1> USE CopyTypes DEF Settling, Given
<1>1. pc'[m] = to /\ \A q \in Procs : q # m => pc'[q] = pc[q]
  BY DEF Step1
<1>2. \A c \in Copies : ~Alive(c)' /\ ~Opening(c)'
  BY <1>1 DEF Alive, Opening, OpeningPts, IdlePts, EndedPts
<1>3. Owned' /\ Started' /\ OneCopyPair'
  BY <1>2 DEF Owned, Started, OneCopyPair, Copies
<1>4. Rounds'
  <2>1. \A n \in Mains : copy2[n] = None \/ copy2[n] \in Copies
    BY DEF Copies
  <2>2. \A n \in Mains : pc'[n] \notin RoundEnd => pc[n] \notin RoundEnd
    BY <1>1
  <2> QED
    BY <1>2, <2>1, <2>2 DEF RoundsInv, Rounds
<1> QED
  BY <1>3, <1>4 DEF RoundsInv

\* A copy that is alive is opening, registered or unlinking.
LEMMA AliveCopies ==
  ASSUME IInv, NEW c \in Copies, Alive(c)
  PROVE  Opening(c) \/ c \in Crew \/ Unlinking(c)
<1>1. c \in Procs /\ c \notin Clis /\ pc[c] \in Points
  BY CopyTypes
<1> QED
  BY <1>1 DEF Alive, IdlePts, EndedPts, Points, Opening, OpeningPts, Crew, Registered, RegisteredPts,
              LeavingPts, Unlinking

\* Who leads is a registered main, and the only one.
LEMMA OneLeader ==
  ASSUME Given, NEW m \in Mains, NEW n \in Mains, Acting(m), Acting(n)
  PROVE  m = n
BY GivenTypes DEF Acting, Crew, Given, CrashInv, OneActing

LEMMA RegisterRounds ==
  ASSUME Settling, NEW p \in Procs, LeaveRegister(p)
  PROVE  RoundsInv'
<1> USE CopyTypes DEF Settling, Given
<1>1. /\ pc[p] = "in_register" /\ UNCHANGED <<origin, copy1, copy2>>
      /\ pc' = [pc EXCEPT ![p] = IF p \in Mains THEN "spawn" ELSE "work"]
  BY DEF LeaveRegister, Leave, Goto
<1>2. CASE p \in Mains /\ origin[p]
  <2>1. Opening(p)
    BY <1>1 DEF Opening, OpeningPts
  <2>2. Alone(p)
    BY <1>2, <2>1 DEF CrashInv, Openers, OpenerAt
  <2>3. \A c \in Copies : ~Alive(c)
    BY <1>2, <2>1, <2>2, AliveCopies DEF CrashInv, Unlinkers, Alone
  <2> QED
    BY <1>1, <1>2, <2>3, RoundsLead DEF Step1, RegisteredPts, RunningPts, RoundEnd, LeavingPts, EndedPts
<1>3. CASE ~(p \in Mains /\ origin[p])
  <2>1. PICK to \in {"spawn", "work"} : pc'[p] = to /\ \A q \in Procs : q # p => pc'[q] = pc[q]
    BY <1>1
  <2>2. RoundsAt(p, to)
    BY <1>1, <1>3 DEF RoundsAt, IdlePts, EndedPts, OpeningPts, RegisteredPts, RunningPts, RoundEnd, LeavingPts
  <2> QED
    BY <1>1, <2>1, <2>2, RoundsMove
<1> QED
  BY <1>2, <1>3

LEMMA StandbyRounds ==
  ASSUME Settling, NEW m \in Procs, LeaveStandby(m)
  PROVE  RoundsInv'
<1> USE CopyTypes DEF Settling, Given
<1>1. /\ pc[m] = "in_standby" /\ UNCHANGED <<copy1, copy2>> /\ pc' = [pc EXCEPT ![m] = "loop"]
      /\ origin' = [origin EXCEPT ![m] = @ \/ reg[m] = 1]
  BY DEF LeaveStandby, Leave, Goto
<1>2. m \in Mains /\ m \in Crew
  BY <1>1, CrewIs DEF Kinds, MainPts, CrewAtPts, CrewPts, RegisteredPts, RunningPts
<1>3. CASE ~origin[m] /\ reg[m] = 1
  <2>1. \A q \in Crew : q = m
    BY <1>1, <1>2, <1>3, LastIsAlone
  <2>2. ~Miscounted
    BY <1>1, <1>2, <1>3, LastIsAlone
  <2>3. \A n \in Mains : ~Acting(n)
    BY <1>3, <2>1 DEF Acting, Crew
  <2>4. \A c \in Copies : ~Opening(c)
    BY <2>2, <2>3 DEF RoundsInv, Started, Leads
  <2>5. \A c \in Copies : ~Alive(c)
    BY <1>2, <2>1, <2>4, AliveCopies DEF CrashInv, Unlinkers
  <2> QED
    BY <1>1, <1>2, <2>5, RoundsLead DEF Step1, RegisteredPts, RunningPts, RoundEnd, LeavingPts, EndedPts
<1>4. CASE origin[m] \/ reg[m] # 1
  <2>1. pc'[m] = "loop" /\ origin'[m] = origin[m] /\ \A q \in Procs : q # m => pc'[q] = pc[q]
    BY <1>1, <1>4
  <2>2. RoundsAt(m, "loop")
    BY <1>1, <1>2, <2>1 DEF RoundsAt, RegisteredPts, RunningPts, RoundEnd, LeavingPts, EndedPts
  <2> QED
    BY <1>1, <2>1, <2>2, RoundsMove
<1> QED
  BY <1>3, <1>4

-----------------------------------------------------------------------------
(* Starting a round.                                                       *)

LEMMA SpawnCopy1Rounds ==
  ASSUME Settling, NEW m \in Procs, SpawnCopy1(m)
  PROVE  RoundsInv'
<1> USE CopyTypes DEF Settling, Given
<1>1. PICK d \in Copy1s :
        /\ pc[m] \in {"tick", "log", "copies"} /\ ~CopiesRunning(m) /\ pc[d] = "idle"
        /\ pc' = [pc EXCEPT ![m] = "spawn2", ![d] = "exists?"]
        /\ copy1' = [copy1 EXCEPT ![m] = d] /\ UNCHANGED <<origin, copy2>>
  BY DEF SpawnCopy1, StartChild
<1>2. m \in Mains /\ Acting(m) /\ d \in Copies
  BY <1>1 DEF Kinds, MainPts, ActingPts, Acting, Registered, RegisteredPts, RunningPts, Copies
<1>3. /\ pc'[m] = "spawn2" /\ pc'[d] = "exists?" /\ \A q \in Procs : q # m /\ q # d => pc'[q] = pc[q]
      /\ copy1'[m] = d
  BY <1>1, <1>2
<1>4. \A c \in Copies : ~Alive(c)
  <2> SUFFICES ASSUME NEW c \in Copies, Alive(c) PROVE FALSE
    OBVIOUS
  <2>1. c \in {copy1[m], copy2[m]}
    BY <1>2 DEF RoundsInv, Owned
  <2>2. pc[m] \notin RoundEnd
    BY <1>1 DEF RoundEnd, LeavingPts, EndedPts
  <2>3. copy2[m] # None
    BY <1>2, <2>1, <2>2 DEF RoundsInv, Rounds
  <2> QED
    BY <1>1, <2>1, <2>3 DEF CopiesRunning, CopiesStarted
<1>5. \A c \in Copies : Alive(c)' => c = d
  BY <1>2, <1>3, <1>4 DEF Alive
<1>6. Leads(m)'
  BY <1>1, <1>2, <1>3 DEF Leads, Acting, Registered, RegisteredPts, RunningPts
<1>7. Owned'
  <2>1. \A n \in Mains : Acting(n)' => n = m
    BY <1>1, <1>2, <1>3, OneLeader DEF Acting, Registered
  <2> QED
    BY <1>3, <1>5, <2>1 DEF Owned
<1>8. Started'
  BY <1>2, <1>6 DEF Started
<1>9. OneCopyPair'
  BY <1>5 DEF OneCopyPair, Copies
<1>10. Rounds'
  <2> SUFFICES ASSUME NEW n \in Mains
               PROVE  /\ pc'[n] \notin RoundEnd /\ copy2[n] = None => copy1'[n] = None
                      /\ pc'[n] = "spawn2" => copy2[n] = None \/ ~Alive(copy2[n])'
    BY <1>1 DEF Rounds
  <2>1. copy2[n] = None \/ copy2[n] \in Copy2s
    OBVIOUS
  <2>2. copy2[n] = None \/ ~Alive(copy2[n])'
    BY <1>1, <1>5, <2>1 DEF Copies
  <2>3. n # m => pc'[n] = pc[n] /\ copy1'[n] = copy1[n]
    BY <1>1, <1>2, <1>3
  <2> QED
    BY <1>3, <2>2, <2>3 DEF RoundsInv, Rounds, RoundEnd
<1> QED
  BY <1>7, <1>8, <1>9, <1>10 DEF RoundsInv

LEMMA SpawnCopy2Rounds ==
  ASSUME Settling, NEW m \in Procs, SpawnCopy2(m)
  PROVE  RoundsInv'
<1> USE CopyTypes DEF Settling, Given
<1>1. PICK d \in Copy2s :
        /\ pc[m] = "spawn2" /\ pc[d] = "idle" /\ pc' = [pc EXCEPT ![m] = "loop", ![d] = "exists?"]
        /\ copy2' = [copy2 EXCEPT ![m] = d] /\ UNCHANGED <<origin, copy1>>
  BY DEF SpawnCopy2, StartChild
<1>2. m \in Mains /\ Acting(m) /\ d \in Copies
  BY <1>1 DEF Kinds, MainPts, ActingPts, Acting, Registered, RegisteredPts, RunningPts, Copies
<1>3. /\ pc'[m] = "loop" /\ pc'[d] = "exists?" /\ \A q \in Procs : q # m /\ q # d => pc'[q] = pc[q]
      /\ copy2'[m] = d
  BY <1>1, <1>2
<1>4. \A c \in Copies : Alive(c) => c = copy1[m] /\ c \in Copy1s
  <2> SUFFICES ASSUME NEW c \in Copies, Alive(c) PROVE c = copy1[m] /\ c \in Copy1s
    OBVIOUS
  <2>1. c \in {copy1[m], copy2[m]}
    BY <1>2 DEF RoundsInv, Owned
  <2>2. copy2[m] = None \/ ~Alive(copy2[m])
    BY <1>1, <1>2 DEF RoundsInv, Rounds
  <2> QED
    BY <1>2, <2>1, <2>2
<1>5. \A c \in Copies : Alive(c)' => c = d \/ (c = copy1[m] /\ c \in Copy1s)
  BY <1>2, <1>3, <1>4 DEF Alive
<1>6. Leads(m)'
  BY <1>1, <1>2, <1>3 DEF Leads, Acting, Registered, RegisteredPts, RunningPts
<1>7. Owned'
  <2>1. \A n \in Mains : Acting(n)' => n = m
    BY <1>1, <1>2, <1>3, OneLeader DEF Acting, Registered
  <2> QED
    BY <1>1, <1>3, <1>5, <2>1 DEF Owned
<1>8. Started'
  BY <1>2, <1>6 DEF Started
<1>9. OneCopyPair'
  BY <1>5 DEF OneCopyPair, Copies
<1>10. Rounds'
  <2>1. \A n \in Mains : pc'[n] # "spawn2"
    <3>1. \A n \in Mains : pc[n] = "spawn2" => Acting(n)
      BY DEF Kinds, ActingPts, Acting, Registered, RegisteredPts, RunningPts
    <3> QED
      BY <1>2, <1>3, <3>1, OneLeader
  <2>2. \A n \in Mains : n # m => pc'[n] = pc[n] /\ copy2'[n] = copy2[n]
    BY <1>1, <1>2, <1>3
  <2>3. copy2'[m] # None
    BY <1>3 DEF Copies
  <2> QED
    BY <1>1, <2>1, <2>2, <2>3 DEF RoundsInv, Rounds
<1> QED
  BY <1>7, <1>8, <1>9, <1>10 DEF RoundsInv

-----------------------------------------------------------------------------
(* Every other step.                                                       *)

LEMMA OpenRounds ==
  ASSUME Settling, NEW p \in Procs, Open(p), ~LeaveRegister(p)
  PROVE  RoundsInv'
<1> USE CopyTypes DEF Settling, Given
<1>1. PICK to : /\ pc' = [pc EXCEPT ![p] = to] /\ pc[p] \in OpeningPts
                /\ to \in OpeningPts \cup {"prompt", "done", "dead"}
                /\ to = "prompt" => p \in Clis
  <2> USE DEF Goto, OpeningPts
  <2>1. CASE Exists(p) \/ ExistsNot(p) \/ Unprobe(p)
    BY <2>1 DEF Exists, ExistsNot, Unprobe
  <2>2. CASE ExistsAgain(p) \/ ExistsNotAgain(p) \/ UnprobeAgain(p)
    BY <2>2 DEF ExistsAgain, ExistsNotAgain, UnprobeAgain
  <2>3. CASE OpenShm(p) \/ OpenShmDenied(p) \/ Truncate(p)
    BY <2>3 DEF OpenShm, OpenShmDenied, Truncate
  <2>4. CASE OpenSem(p)
    <3>1. \E to \in {"prompt", "init", "register"} :
            Goto(p, "semopen", to) /\ (to = "prompt" => p \in Clis)
      BY <2>4 DEF OpenSem
    <3> QED
      BY <3>1
  <2>5. CASE InitWords(p) \/ EnterRegister(p)
    <3>1. /\ pc[p] \in {"init", "register"}
          /\ \E to \in {"register", "in_register", "dead"} : pc' = [pc EXCEPT ![p] = to]
      BY <2>5 DEF InitWords, EnterRegister, Enter
    <3> QED
      BY <3>1
  <2> QED
    BY <2>1, <2>2, <2>3, <2>4, <2>5 DEF Open
<1>2. UNCHANGED <<copy1, copy2>> /\ \A q \in Procs : q # p => origin'[q] = origin[q]
  BY DEF Open, Exists, ExistsNot, Unprobe, ExistsAgain, ExistsNotAgain, UnprobeAgain, OpenShm,
         OpenShmDenied, Truncate, OpenSem, InitWords, EnterRegister, Enter, KeepLocals
<1>3. RoundsAt(p, to)
  BY <1>1 DEF RoundsAt, IdlePts, EndedPts, OpeningPts, RegisteredPts, RunningPts, RoundEnd, LeavingPts
<1>4. pc'[p] = to /\ \A q \in Procs : q # p => pc'[q] = pc[q]
  BY <1>1
<1> QED
  BY <1>2, <1>3, <1>4, RoundsMove

\* A crash, or a fault in a section.
LEMMA DieRounds ==
  ASSUME Settling, NEW p \in Procs, Step1(p, "dead"), UNCHANGED <<origin, copy1, copy2>>
  PROVE  RoundsInv'
<1> USE CopyTypes DEF Settling, Given
<1>1. RoundsAt(p, "dead")
  BY DEF RoundsAt, IdlePts, EndedPts, OpeningPts, RegisteredPts, RunningPts, RoundEnd, LeavingPts
<1>2. pc'[p] = "dead" /\ \A q \in Procs : q # p => pc'[q] = pc[q]
  BY DEF Step1
<1> QED
  BY <1>1, <1>2, RoundsMove

\* The steps of the registered that give up nothing.
LEMMA StayRounds ==
  ASSUME Settling, NEW p \in Procs, NEW to \in RegisteredPts \ {"in_drop", "spawn2"}, Step1(p, to),
         pc[p] \in RegisteredPts, to \notin RoundEnd => pc[p] \notin RoundEnd,
         UNCHANGED <<origin, copy1, copy2>>
  PROVE  RoundsInv'
<1> USE CopyTypes DEF Settling, Given
<1>1. RoundsAt(p, to)
  BY DEF RoundsAt, IdlePts, EndedPts, OpeningPts, RegisteredPts, RunningPts
<1>2. pc'[p] = to /\ \A q \in Procs : q # p => pc'[q] = pc[q]
  BY DEF Step1
<1> QED
  BY <1>1, <1>2, RoundsMove

\* Where a running process is, seen from the end of a round.
LEMMA RunningHere ==
  /\ RunningPts \cup {"cleanup", "drop"} \subseteq RegisteredPts \ {"in_drop"}
  /\ \A at \in RunningPts \ {"spawn2"} : at \notin RoundEnd
<1>1. RunningPts \cup {"cleanup", "drop"} \subseteq RegisteredPts \ {"in_drop"}
  BY DEF RegisteredPts, RunningPts
<1>2. \A at \in RunningPts \ {"spawn2"} : at \notin RoundEnd
  BY DEF RunningPts, RoundEnd, LeavingPts, EndedPts
<1> QED
  BY <1>1, <1>2

LEMMA MainRounds ==
  ASSUME Settling, NEW p \in Procs, RunMain(p)
  PROVE  RoundsInv'
<1> USE CopyTypes DEF Settling, Given
<1>1. CASE SpawnCli(p)
  <2>1. pc[p] = "spawn" /\ UNCHANGED <<origin, copy1, copy2>>
    BY <1>1 DEF SpawnCli, KeepLocals
  <2>2. pc'[p] = "loop" /\ \A q \in Mains \cup Copies : q # p => pc'[q] = pc[q]
    <3>1. ASSUME NEW c \in Clis, StartChild(p, c, "spawn", "loop")
          PROVE  pc'[p] = "loop" /\ \A q \in Mains \cup Copies : q # p => pc'[q] = pc[q]
      BY <2>1, <3>1 DEF StartChild
    <3> QED
      BY <1>1, <3>1 DEF SpawnCli, Goto
  <2>3. RoundsAt(p, "loop")
    BY <2>1 DEF RoundsAt, IdlePts, EndedPts, OpeningPts, RegisteredPts, RunningPts, RoundEnd, LeavingPts
  <2> QED
    BY <2>1, <2>2, <2>3, RoundsMove
<1>2. ASSUME NEW at \in {"spawn", "tick", "log", "copies", "spawn2", "in_log"}, Goto(p, at, "cleanup"),
             UNCHANGED <<origin, copy1, copy2>>
      PROVE  RoundsInv'
  BY <1>2, StayRounds DEF Goto, Step1, RegisteredPts, RunningPts, RoundEnd
<1>3. ASSUME NEW at \in RunningPts \ {"spawn2"}, NEW to \in (RunningPts \cup {"cleanup"}) \ {"spawn2"},
             Goto(p, at, to), UNCHANGED <<origin, copy1, copy2>>
      PROVE  RoundsInv'
  <2>1. to \in RegisteredPts \ {"in_drop", "spawn2"} /\ at \in RegisteredPts /\ at \notin RoundEnd
    BY RunningHere
  <2> QED
    BY <1>3, <2>1, StayRounds DEF Goto, Step1
<1>4. ASSUME NEW at \in RunningPts \ {"spawn2"}, NEW section \in CtrSections \cup {"in_standby"},
             NEW word, Enter(p, at, section, word)
      PROVE  RoundsInv'
  <2>1. section \in RunningPts \ {"spawn2"}
    BY DEF CtrSections, RunningPts
  <2>2. UNCHANGED <<origin, copy1, copy2>> /\ (Goto(p, at, section) \/ Step1(p, "dead"))
    BY <1>4 DEF Enter, Goto, Step1
  <2> QED
    BY <1>3, <2>1, <2>2, DieRounds
<1>5. CASE StartFails(p, "spawn") \/ (\E at \in {"tick", "log", "copies", "spawn2"} : StartFails(p, at))
  BY <1>2, <1>5 DEF StartFails, KeepLocals
<1>6. CASE Loop(p)
  BY <1>3, <1>6 DEF Loop, KeepLocals, RunningPts
<1>7. CASE EnterTick(p)
  BY <1>4, <1>7 DEF EnterTick, RunningPts, CtrSections
<1>8. CASE EnterLog(p)
  BY <1>4, <1>8 DEF EnterLog, RunningPts, CtrSections
<1>9. CASE EnterStandby(p)
  BY <1>4, <1>9 DEF EnterStandby, RunningPts
<1>10. CASE LeaveTick(p) \/ LeaveLog(p)
  BY <1>3, <1>10 DEF LeaveTick, LeaveLog, Leave, RunningPts
<1>11. CASE LogFails(p)
  BY <1>2, <1>11 DEF LogFails
<1>12. CASE CopiesStillRunning(p) \/ EndIteration(p)
  BY <1>3, <1>12 DEF CopiesStillRunning, EndIteration, KeepLocals, RunningPts
<1> QED
  BY <1>1, <1>5, <1>6, <1>7, <1>8, <1>9, <1>10, <1>11, <1>12,
     SpawnCopy1Rounds, SpawnCopy2Rounds, StandbyRounds DEF RunMain

LEMMA CopyRounds ==
  ASSUME Settling, NEW p \in Procs, RunCopy(p)
  PROVE  RoundsInv'
<1> USE CopyTypes DEF Settling, Given
<1>1. PICK from, to : /\ Goto(p, from, to) /\ from \in RunningPts \ {"spawn2"}
                      /\ to \in (RunningPts \cup {"drop", "dead"}) \ {"spawn2"}
                      /\ UNCHANGED <<origin, copy1, copy2>>
  <2>1. CASE EnterAdd(p) \/ EnterDouble(p) \/ EnterHalve(p)
    BY <2>1 DEF EnterAdd, EnterDouble, EnterHalve, Enter, RunningPts
  <2>2. CASE LeaveAdd(p) \/ LeaveDouble(p) \/ LeaveHalve(p)
    BY <2>2 DEF LeaveAdd, LeaveDouble, LeaveHalve, Leave, RunningPts
  <2> QED
    BY <2>1, <2>2 DEF RunCopy
<1>2. /\ to # "dead" => to \in RegisteredPts \ {"in_drop", "spawn2"}
      /\ from \in RegisteredPts /\ from \notin RoundEnd
  BY <1>1, RunningHere
<1> QED
  BY <1>1, <1>2, StayRounds, DieRounds DEF Goto, Step1

LEMMA CliRounds ==
  ASSUME Settling, NEW p \in Procs, RunCli(p) \/ CliInterrupted(p)
  PROVE  RoundsInv'
<1> USE CopyTypes DEF Settling, Given
<1>1. p \in Clis
  BY DEF RunCli, EnterSet, Enter, LeaveSet, Leave, EndOfInput, CliInterrupted, Goto, Kinds
<1>2. UNCHANGED <<origin, copy1, copy2>> /\ \A q \in Procs : q # p => pc'[q] = pc[q]
  BY DEF RunCli, EnterSet, Enter, LeaveSet, Leave, EndOfInput, CliInterrupted, Goto, KeepLocals
<1>3. RoundsAt(p, pc'[p])
  BY <1>1 DEF RoundsAt
<1> QED
  BY <1>2, <1>3, RoundsMove

LEMMA ExitRounds ==
  ASSUME Settling, NEW p \in Procs, Exit(p)
  PROVE  RoundsInv'
<1> USE CopyTypes DEF Settling, Given
<1>1. UNCHANGED <<origin, copy1, copy2>>
  BY DEF Exit, KillCli, EnterDrop, Enter, LeaveDrop, Leave, UnlinkSem, UnlinkShm, KeepLocals
<1>2. PICK to \in {"drop", "in_drop", "unlink_sem", "unlink_shm", "done", "dead"} :
        /\ pc' = [pc EXCEPT ![p] = to] /\ pc[p] \in {"cleanup"} \cup LeavingPts
        /\ to = "in_drop" => pc[p] = "drop" /\ MayDrop(p)
        /\ to \in {"unlink_sem", "unlink_shm", "done"} => pc[p] \in LeavingPts \ {"cleanup", "drop"}
        /\ to = "drop" => pc[p] = "cleanup"
  BY DEF Exit, KillCli, EnterDrop, Enter, LeaveDrop, Leave, UnlinkSem, UnlinkShm, Goto, LeavingPts
<1>3. CASE to # "dead"
  <2>1. RoundsAt(p, to)
    <3>1. /\ to \in RoundEnd /\ to \notin OpeningPts /\ to # "spawn2"
          /\ pc[p] \notin IdlePts
          /\ to \in RegisteredPts => pc[p] \in RegisteredPts
      BY <1>2, <1>3 DEF IdlePts, EndedPts, OpeningPts, RegisteredPts, RunningPts, RoundEnd, LeavingPts
    <3>2. ASSUME p \in Mains, origin[p], pc[p] \in RegisteredPts \ {"in_drop"},
                 to \notin RegisteredPts \ {"in_drop"}, NEW c \in Copies
          PROVE  pc[c] \notin OpeningPts
      <4>1. to = "in_drop" /\ MayDrop(p)
        BY <1>2, <1>3, <3>2 DEF RegisteredPts, RunningPts, LeavingPts
      <4>2. Acting(p)
        BY <3>2 DEF Acting, Registered
      <4>3. Alive(c) => c \in {copy1[p], copy2[p]}
        BY <3>2, <4>2 DEF RoundsInv, Owned
      <4>4. Opening(c) => Alive(c)
        BY DEF Opening, Alive, OpeningPts, IdlePts, EndedPts
      <4> QED
        BY <3>2, <4>1, <4>3, <4>4 DEF MayDrop, Opening
    <3> QED
      BY <1>1, <3>1, <3>2 DEF RoundsAt
  <2>2. pc'[p] = to /\ \A q \in Procs : q # p => pc'[q] = pc[q]
    BY <1>2
  <2> QED
    BY <1>1, <2>1, <2>2, RoundsMove
<1>4. CASE to = "dead"
  BY <1>1, <1>2, <1>4, DieRounds DEF Step1
<1> QED
  BY <1>3, <1>4

LEMMA StillRounds ==
  ASSUME Settling, UNCHANGED <<pc, origin, copy1, copy2>>
  PROVE  RoundsInv'
<1>1. Started'
  <2> SUFFICES ASSUME NEW c \in Copies, Opening(c)', ~Miscounted'
               PROVE  \E m \in Mains : Leads(m)'
    BY DEF Started
  <2>1. Opening(c) /\ ~Miscounted
    BY DEF Opening, Settling, Tally
  <2> QED
    BY <2>1 DEF Settling, RoundsInv, Started, Leads, Acting, Registered
<1>2. Owned' /\ Rounds' /\ OneCopyPair'
  BY DEF Settling, RoundsInv, Owned, Acting, Registered, Alive, Rounds, OneCopyPair
<1> QED
  BY <1>1, <1>2 DEF RoundsInv

LEMMA RoundsStep ==
  ASSUME Settling, [Next]_vars
  PROVE  RoundsInv'
<1>1. ASSUME NEW p \in Procs, (MayStart /\ Start(p)) \/ Step(p) \/ SigInt(p) \/ Crash(p)
      PROVE  RoundsInv'
  <2>1. CASE Crash(p)
    BY <2>1, DieRounds DEF Crash, Step1, KeepLocals
  <2>2. CASE SigInt(p)
    BY <2>2, StillRounds DEF SigInt
  <2>3. CASE Start(p)
    <3>1. /\ pc[p] = "idle" /\ pc'[p] = "exists?" /\ \A q \in Procs : q # p => pc'[q] = pc[q]
          /\ p \in Mains /\ UNCHANGED <<origin, copy1, copy2>>
      BY <2>3, CopyTypes DEF Settling, Given, Start, Goto, KeepLocals
    <3>2. RoundsAt(p, "exists?")
      BY <3>1, CopyTypes DEF Settling, Given, RoundsAt, RegisteredPts, RunningPts, RoundEnd, LeavingPts, EndedPts
    <3> QED
      BY <3>1, <3>2, CopyTypes, RoundsMove DEF Settling, Given
  <2>4. CASE Open(p)
    BY <2>4, OpenRounds, RegisterRounds
  <2> QED
    BY <1>1, <2>1, <2>2, <2>3, <2>4, MainRounds, CopyRounds, CliRounds, ExitRounds DEF Step
<1>2. CASE UNCHANGED vars
  BY <1>2, StillRounds DEF vars, procVars
<1> QED
  BY <1>1, <1>2 DEF Next, Finished

LEMMA RoundsInit == Init => RoundsInv
<1> SUFFICES ASSUME Init PROVE RoundsInv
  OBVIOUS
<1>1. \A p \in Procs : ~Alive(p) /\ ~Opening(p)
  BY DEF Init, Alive, IdlePts, Opening, OpeningPts
<1>2. Copies \subseteq Procs /\ Mains \subseteq Procs
  BY CounterLoggerAssumption DEF Copies
<1> QED
  BY <1>1, <1>2 DEF RoundsInv, Owned, Started, OneCopyPair, Copies, Rounds, Init

\* At most one copy1 and one copy2 are alive, whoever started them: the origin
\* never starts a round beside another one, not even one that an earlier origin
\* left behind, or one whose origin was killed.
THEOREM OnePair == ASSUME Overlap = FALSE PROVE Spec => []OneCopyPair
<1> DEFINE All == IInv /\ Kinds /\ CrashInv /\ RoundsInv
<1>1. Init => All
  BY InitInv, KindsInit, CrashInit, RoundsInit
<1>2. All /\ [Next]_vars => All'
  <2> SUFFICES ASSUME All, [Next]_vars PROVE All'
    OBVIOUS
  <2>1. IInv' /\ Kinds'
    BY StepInv, KindsStep
  <2>2. CrashInv' /\ Tally
    BY <2>1, CrashStep DEF Given
  <2> QED
    BY <2>1, <2>2, RoundsStep DEF Settling, Given
<1>3. All => OneCopyPair
  BY DEF RoundsInv
<1> QED
  BY <1>1, <1>2, <1>3, PTL DEF Spec
=============================================================================
