------------------------------ MODULE CrossMem ------------------------------
(***************************************************************************)
(* The POSIX back end of cross_mem.h (posix/posix_mem.c): one shared-memory *)
(* name and one semaphore name, and the kernel objects behind them.         *)
(*                                                                         *)
(* A name and the object it names have separate lives: unlinking a name    *)
(* leaves the object to those who already opened it, and a later open with *)
(* O_CREAT makes a new object under the same name.  Objects are identified *)
(* by the process that created them; a process opens each name once, so it *)
(* creates at most one object of each kind.                                *)
(*                                                                         *)
(* Every operator below is one system call, to be conjoined with the       *)
(* caller's control state.                                                 *)
(***************************************************************************)
EXTENDS Integers

CONSTANTS
  Procs,   \* the process runs; each is one execution of a program
  None,    \* no object
  Probe    \* the mode-0 placeholder is_exist_shared_mem creates and unlinks

ASSUME CrossMemAssumption ==
  None \notin Procs /\ Probe \notin Procs /\ None # Probe

VARIABLES
  shmName,  \* what the shared-memory name refers to
  semName,  \* what the semaphore name refers to
  shm,      \* shm[o]: the segment created by o; its two 32-bit words
  sem       \* sem[o]: the value of the semaphore created by o

memVars == <<shmName, semName, shm, sem>>

\* logger.h maps two words: ref_ctr and ctr.  A segment has no pages, and
\* faults on access, until ftruncate has given it its size.
Segment == [sized : BOOLEAN, ref : Int, ctr : Int]

FreshSegment == [sized |-> FALSE, ref |-> 0, ctr |-> 0]

MemTypeOK ==
  /\ shmName \in Procs \cup {None, Probe}
  /\ semName \in Procs \cup {None}
  /\ shm \in [Procs -> Segment]
  /\ sem \in [Procs -> {0, 1}]

MemInit ==
  /\ shmName = None
  /\ semName = None
  /\ shm = [p \in Procs |-> FreshSegment]
  /\ sem = [p \in Procs |-> 0]

-----------------------------------------------------------------------------
(* is_exist_shared_mem: an exclusive create, undone at once by an unlink    *)
(* that removes whatever the name refers to by then.                        *)

\* shm_open(O_CREAT | O_EXCL) fails with EEXIST: the answer is 1.
ProbeFound == shmName # None /\ UNCHANGED memVars

\* The exclusive create succeeds; the answer will be 0 after the unlink.
ProbeCreate ==
  /\ shmName = None
  /\ shmName' = Probe
  /\ UNCHANGED <<semName, shm, sem>>

ShmUnlink ==
  /\ shmName' = None
  /\ UNCHANGED <<semName, shm, sem>>

\* shm_open(O_RDWR | O_CREAT) by p, which then holds segment o.  O_CREAT
\* makes a new segment, of size 0, when the name is free.
ShmOpen(p, o) ==
  \/ shmName = None /\ o = p /\ shmName' = p /\ UNCHANGED <<semName, shm, sem>>
  \/ shmName = o /\ o \in Procs /\ UNCHANGED memVars

\* No ordinary user may open the placeholder, whose mode is 0: EACCES.
ShmOpenDenied == shmName = Probe /\ UNCHANGED memVars

\* ftruncate to LOGGER_SHM_LEN; new pages are zero, a second call is harmless.
ShmTruncate(o) ==
  /\ shm' = [shm EXCEPT ![o].sized = TRUE]
  /\ UNCHANGED <<shmName, semName, sem>>

-----------------------------------------------------------------------------
(* Semaphores.                                                              *)

\* sem_open(O_CREAT, value 1) by p, which then holds semaphore s.
SemOpen(p, s) ==
  \/ /\ semName = None /\ s = p
     /\ semName' = p
     /\ sem' = [sem EXCEPT ![p] = 1]
     /\ UNCHANGED <<shmName, shm>>
  \/ semName = s /\ s \in Procs /\ UNCHANGED memVars

SemUnlink ==
  /\ semName' = None
  /\ UNCHANGED <<shmName, shm, sem>>

\* sem_wait returns; glibc restarts it when a handler installed by signal() ran.
SemWait(s) ==
  /\ sem[s] > 0
  /\ sem' = [sem EXCEPT ![s] = @ - 1]

SemPost(s) == sem' = [sem EXCEPT ![s] = @ + 1]
=============================================================================
