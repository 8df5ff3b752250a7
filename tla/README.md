# TLA+ models of temp-kiosk

Models, model-checking runs and machine-checked proofs for the programs of this
repository: the counter logger (`src/logger`), the temperature logger and its HTTP
server (`src/temp_logger`), and the parts of `subprojects/cross_utils` they stand on.
`PROJECT.json` holds the same information in machine-readable form: the runs, the
source lines behind every definition, the hazards, the findings and the theorems.

## The system

| component | state | operations | talks to |
|---|---|---|---|
| counter logger, `logger.c` | `is_working`, `is_origin_inst`, timers, child handles, and in shared memory `ref_ctr` and `ctr` | open, register, tick, log, start copies, stand by, take over, clean up; the modes copy1 and copy2 | other instances through two shared words, one semaphore and two names; children through fork/exec and SIGINT |
| CLI child, `logger_cli.c` | none of its own | store a typed number in `ctr` | the same words and semaphore; killed by its parent |
| `posix_mem.c` | the names, the segments, the semaphores | probe, open, truncate, unlink; wait, post | the kernel |
| `posix_process.c` | children | start, wait with a timeout, interrupt | the kernel |
| temperature logger, `temp_logger.c` | three logs, two timers, a stack slot for the reading | read the device, write log 1, average into logs 2 and 3, prune | the database; the device |
| log tables, `logger_db.c` | three SQLite tables | insert, select, count, delete by id | both programs, one autocommitted statement at a time |
| HTTP server, `temp_server.c` | one client at a time, three arrays | accept, receive, read three ranges, answer | the database; clients |
| log files, `logger_fs.c` | three text files used as rings, a cursor and `first_entry_time` for each | the same interface as `logger_db.c`; not built by default | the temperature logger, write by write |
| emulator, `emulator.c` | a temperature | send a message, close, open | the device |
| web client, time, socket and string helpers, Windows back ends | | | |

What is hard in it:

* instances of the counter logger are started, killed and interrupted at any time,
  and agree on names, a reference count and a leader only through shared memory;
* the probe for the shared memory creates the very name it asks about;
* cleanup runs from many places, some of them inside a critical section;
* the logger writes to tables the server reads in several statements;
* timers, averages and pruning work on the same rows within one iteration, and any
  statement or reading may fail;
* without a database, files are pruned and turned round in place, and the logger may be
  killed between any two writes;
* the reader starts anywhere in the device's stream, in pieces of eight bytes whatever
  the length of a message.

What makes each component correct: the counter logger behaves as one atomic counter
with one leader, its reference count is exact, its names stay bound while they are in
use, a survivor takes over, and Ctrl-C ends it; the temperature logger loses no
average, takes none over more than its periods and keeps what is fresh; its files are queues, in
date order when it ends; no part of a message passes for one; the server answers with exactly the
rows of the range, at the length it announces, and serves every client.

## Modules

| module | what it models |
|---|---|
| `CrossMem` | `posix_mem.c`: one name for the segment and one for the semaphore, and the objects behind them, each with a life of its own. One operator per system call. |
| `CounterLogger` | `logger.c` and `logger_cli.c`: a program point per process, one action per call or per half of a critical section. |
| `CounterService` | The abstract specification: who uses the counter, who leads, the value, and who has doubled and not yet halved. |
| `MCCounterLogger` | Process runs, symmetry. |
| `CounterLoggerProofs` | Theorems about `CounterLogger` that hold whatever happens. |
| `CounterCrewProofs`, `CounterServiceProofs` | Theorems about it without crashes and overlaps: what the instances agree on, and that it implements `CounterService`. |
| `CounterCrashProofs` | Theorems about it without overlaps, but with crashes anywhere: the names, the single origin and the rounds of copies. |
| `DbLog` | The three tables and the SQL run on them, with what `DATETIME(date) between` really selects. |
| `TempLogger` | `temp_logger.c` with `write_log`, `get_avg_log` and `delete_old_entries`: one step per SQL statement or reading. |
| `TempServer` | `temp_server.c` with `get_array_entries`: one step per call that waits or reads. |
| `TempKiosk` | Logger and server over the same tables. |
| `TempLoggerProofs`, `TempKioskProofs` | Theorems about both. |
| `MCTempLogger`, `MCTempKiosk` | Periods, leftover rows, ranges. |
| `Device` | Emulator and device: messages by where the reader will cut them. |
| `LogFile` | `logger_fs.c`: the lines of each file, the cursor, `first_entry_time`. One operator per function, or per write inside one. |
| `FileLogger` | `temp_logger.c` over `LogFile` and `Device`, started, interrupted, killed and started again. |
| `LogQueue` | The abstract specification: each log is a queue of dated entries that outlives the logger, and what a kill leaves of it. |
| `FileLoggerProofs`, `FileQueueProofs` | Theorems about `FileLogger`: its invariants, and that it implements `LogQueue`. |
| `MCFileLogger` | Periods, keeping times, leftover files. |

Definitions whose name ends in `_Bug` are plausible mistakes in the definition they
stand next to. No specification uses them; each one, put in the place of the right
definition, breaks the property it is paired with in `PROJECT.json`.

### How the counter logger maps to code

`pc[p]` follows the calls of `main` in order: *opening* (`exists?` to `in_register`,
logger.c 164-216 and logger_cli.c 18-43), *running* (219-299), *leaving* (301-317).
`is_exist_shared_mem` is two steps, the exclusive create and the unlink that undoes it,
because other processes can come between them; `open_shared_mem` makes the same probe a
second time. A segment has no pages until `ftruncate`; an access before that ends the
process (SIGBUS), inside its section if it has just waited.

A critical section is two steps. `Enter` joins `sem_wait` with the load, `Leave` the
store with `sem_post`: in between the value is in `reg`. Anything that changes the word
in between is visible as a lost update. Objects are named after the process that
created them, so that two generations of the same name are different objects.

Timers are abstracted: in any iteration any of the three may be due, in the order of the
code. `is_process_running` may report a child that has just ended as running
(its timeout of 10 microseconds can expire before the first `waitpid`), never the reverse.
The first round reads uninitialised handles, and the code ignores the answer then.
Two simplifications: the origin's two stores of 0 (logger.c:209-210), made without the semaphore,
are one step (`InitWords`); and the probe's placeholder, made with no permissions, is denied to
whoever opens it meanwhile (`ShmOpenDenied`), as it is to every user but root.

### How the temperature side maps to code

A temperature is the set of times of the readings it is the mean of. The mean of no
rows, NaN, is the empty set, and -1 stands for what was in memory before the first
reading. The code hands NaN to the database like any other mean; that the statement, which then
contains the word `nan`, is not prepared is what SQLite does and is an operator of its own
(`Prepares`, external). Time passes only while the logger waits for its device. `Selected`, the rows that
are `Between` the bounds in the order of the table, is the `select`: the date of a row loses its fraction of a second,
the bounds keep theirs, and both are compared as text. `PruneRow` deletes any row of
plain text, as the code does (see the findings), so the keeping times matter only to the
property that says what they are for.

The answer of the server is modelled by its length: `JsonSize` is what is announced and
allocated, `Printed` what `print_json` writes, over the same entries (`Sent`: as many of each
array as were allocated for it). An entry is nulled when
its date does not scan, although SQLite may take it for a date: a day without a time.

### How the logger over files maps to code

A file is a sequence of lines, each with a date in seconds and a value that says where it
comes from: a message, a fragment of one, or what was in memory before the first reading.
`pos[l]` counts the lines before the cursor. `WriteLog` writes over the line at the cursor, or
appends; at the end of the file it starts a new lap if the first line has expired.
`delete_old_entries` is a step per line (`PruneLine`) and one for the truncation (`PruneDone`);
`swap_file_parts` is a step for reading the buffer (`SwapStart`), one for each chunk
(`SwapChunk`) and one for writing the buffer (`SwapDone`). Between any two of them the
logger can be killed, which leaves the file as it is and forgets everything else.
`LoseCursor` is the early return of `get_avg_log` that does not put the cursor back.

`LogQueue` reads a ring as a queue: the lines behind the cursor, then those before it
(`Entries`); while lines are being moved, what has been moved, what has not, and the buffer.
A write takes at most the oldest entry, pruning drops what is too old, and the swap is a
stutter. `Crash` says what a kill leaves, by when it comes. During pruning (`Refilled`) everything
that is to stay, and in between some of what had been dropped or moved up already. In the main loop
(`TurnedBack`) everything, with the youngest entries in front: the cursor is forgotten. During
the swap (`HalfTurned`) a front that is in order before a rest as it was, so that lines are lost which
were only in `swp_buf` and others are there twice: A B|C D, with the cursor at the bar, becomes C D C D
before the buffer is written.

The device holds pieces: a message of exactly `MSG_LEN` bytes is one, a longer one is cut in
a `head` without DELIM and a `tail`, a shorter one is one piece, of which the byte that
`read_value` looks at has never been written, so that the check may go either way. After any error
the previous value is stored again, which is what the code does.

Left out on purpose: chunks end between lines (one of `READ_BUF_SIZE`, 1024 bytes, is 30 lines of 34
bytes and 4 bytes of the next, so that a kill between chunks also leaves a line spliced from two;
a chunk of any number of whole lines is covered by the proof), lines of another length than
`LOG_LINE_LEN`, and failing file operations. The clock is monotone: `to_secs` reads local time,
which may be set back or ambiguous for an hour. Time passes only while the
logger waits for its device or is not there, and an interrupt matters only where
`is_working` or a blocking read can see it. What happens to the device while the logger does
not look at it happens when it does. A device at its end stays at its end for this run, as the
C library's end-of-file flag does.

## Runs

All bounds are constants of the modules: pools of process runs, `MaxCtr` (where the
origin stops ticking), `WordLimit` (32 or 64 values instead of 2^32), `MaxNow` (time),
`MaxRows` (faults spare a log of that many rows),
`MaxLines` (the reader waits while log 1 has that many lines and would grow), `MaxStarts` (runs of the logger).

| run | instance | shows |
|---|---|---|
| `steady` | 2 mains, 2 rounds of copies | `RefCountExact`, `NamesInUse`, `ReadIsFresh`, `OneCopyPair`, `ImplementsService` |
| `takeover` | 3 mains, fair | `SingleOrigin`, `LastTakesOver`, `Takeover`, `CtrlCEnds` |
| `races` | 2 mains, CLI, crashes, failing log writes and child starts, overlapping openings and exits | `TypeOK`, `MutualExclusion`, `TakenIsHeld` |
| `logger_faults` | time to 4, periods 1 and 3, every fault of the logger, a damaged row, fair | `AverageIsRecent`, `TimerMovesWithRow`, `LoggerStops` |
| `kiosk` | logger and server, time to 5, a second of 2 ticks, periods of 2 and 4 ticks, two ranges, failing reads of the server, fair | `TypeOK`, `OverrunByOne`, `EntriesAnnounced`, `NoBacklog`, `AverageIncludesReading`, `ClientServed` |
| `files` | the logger over files, twice started, time to 4, periods 1 and 2, keeping times 1, 1 and 2, chunks of a line, kills, messages of three lengths, a leftover file of three lines behind an unreadable one, fair | `TypeOK`, `InDateOrder`, `FirstExact`, `AverageFindsEntries`, `NoFragmentLogged`, `ImplementsQueue`, `PrunedLinesStay`, `LoggerEnds` |

Why the bounds are enough. Three mains give an origin, a standby that takes over and one
that arrives during either; two rounds of copies let a round of the old origin meet one
of the new. Names are reused in every run with more than one main, since the last one
unlinks. The word has 64 values in `steady`, so that adding 10 and
doubling makes it wrap; that a CLI stores beside the others is in `races`, and that it does so as
`CounterService` says, or child starts fail beside copies, is for the theorem `Implementation`. On the
temperature side both runs reach averages into log 3, the longest chain of dependent
statements, in iterations with and without one for log 2, and faults are chosen at each
statement. A second is two ticks in `kiosk`, so that dates have fractions. In `files` logs 1 and 2
wrap around, a swap takes more than one chunk (the leftover lines survive if the logger is started
in the first second), averages into log 3 are taken, and a second start finds whatever a kill left.

`Overlap = FALSE` is an assumption on the environment, conjoined to `Start` and `EnterDrop` in the
next-state relation (`MayStart`, `MayDrop`) and not part of them: nobody is started while the
first instance founds or the last one leaves, the last one does not leave while another opens, and
no main is interrupted so early that it drops its reference before its own copies have theirs. All other openings and exits
overlap freely. It is how the program is used by hand, and the code enforces none of it. With `Overlap = TRUE`
the run `two_origins` shows two mains founding at once, and `races` that mutual exclusion
and the types need no such assumption. Two mains started together can also meet
a segment that is created and not yet truncated (posix_mem.c:39-47): the one that touches it dies of
SIGBUS. The model has that step and `races` takes it; that nobody dies so is checked nowhere, because
it is not so.

Deadlock is checked except where a run says why not: a critical section that is left by
a crash or a kill leaves the semaphore at 0 and the others wait, and a logger alone
stops when it ends.

### Violations

Each checks one statement of a comment of the code against what the code does.

| run | statement | what happens |
|---|---|---|
| `two_origins` | `SingleOrigin`, logger.c:269 | two mains both find the name free |
| `takeover_crash` | `Takeover`, logger.c:271 | a main that died without cleanup is counted for ever |
| `ctrl_c_write` | `CtrlCEnds`, logger.c:159 | a failed log write reaches cleanup with the semaphore taken |
| `fresh_kept` | `FreshKept`, logger_interface.h:29 | the inverted test at logger_db.c:157 makes every row invalid |
| `array_exact` | `ArrayExact`, logger_interface.h:40 | a write between the count and the select |
| `length_announced` | `LengthAnnounced`, temp_server.c:76 and 111 | `{"data":[]}` is 11 bytes and announced as 10 |

`FreshKept` has a second face. Because of it a log holds one row at a time (`OneRowAtMost`), and
`OverrunByOne` holds (`OverrunBounded`): the array the server overruns was allocated for no rows,
`malloc(0)`, and gets one. That is an overrun all the same: no byte of it was asked for, and where it does no
harm that is because the smallest block the allocator hands out has room for 24 bytes. Mending line 157
alone would take that bound away.

More are visible in the models and have no run of their own:

* with `Overlap = TRUE` a copy can create the segment it found a moment before (against
  logger.c:169);
* cleanup can kill the CLI inside its critical section and wait for ever;
* a client's range with a fractional start leaves out the rest of its first second;
* `skip_till_value` never returns once the device is at its end, and then Ctrl-C does not
  end the logger (`pc = "hung"`, which `LoggerEnds` allows);
* after an error the previous reading, or before the first one whatever was in memory, is
  logged as new; at the end of the device that goes on without a pause;
* logger_fs.c:8 says "Logs 2 and 3 are sorted after each write": `write_log` sorts nothing,
  all logs are rings until `deinit_log` turns them round;
* a ring that has begun a new lap writes over its oldest lines one by one without looking
  at their age, so that a burst of readings takes lines that were to be kept.

### Fairness

`CounterLogger!FairSpec` asks for strong fairness of each process's steps. At a wait that is a
semaphore which does not starve a waiter whose turn comes again and again; elsewhere a
process's steps stay enabled until taken, and the scheduler gives that. Starting programs,
Ctrl-C and crashes are never forced. `TempLogger!FairLoggerSpec` and
`TempKiosk!FairSpec` are weakly fair: each program is scheduled, the device goes on
sending, and a client that has connected sends something or hangs up. The latter two are
the assumptions `temp_logger.c` (`fgets`) and `temp_server.c` (`recv`) make by
blocking without a timeout.

`FileLogger!FairSpec` is weakly fair to the logger's steps, to the end of the second that
`skip_old_values` waits for, and to the emulator sending, which may be closed instead.
Starting, interrupting, killing and the clock are not forced. `LoggerEnds` needs all three: a
logger that waits in `fgets` sees an interrupt only after the next message.

## Proofs

`CounterLoggerProofs`, checked by TLAPS for every value of the constants: any number of
mains, copies and CLIs, any faults, any overlap.

* `TypeCorrect`: `Spec => []TypeOK`. It includes that a semaphore is never above 1: nobody
  posts what they did not wait for.
* `Exclusion`: `Spec => []MutualExclusion`.
* `Inductive`: `Spec => []IInv`, which both follow from.
* `NoLostPost`: `Spec => []TakenIsHeld`. A semaphore at 0 has somebody inside, or somebody who
  died or ran into the failed log write; so no other path through `main` forgets to post.

`MutualExclusion` is not inductive: a state in which a semaphore is 1 while somebody is
inside would let a second one in, and a semaphore made anew under an identity in use
would have that value. `IInv` adds `Held` (inside a section the semaphore is 0), `Handles` (a
process that can reach a wait has a semaphore to wait for) and `Unborn` (the object a
process would create does not exist before its `sem_open`). `EnterStep` and `LeaveStep`
prove the two halves of a section for any word and any program points; the actions are
instances of them or of `QuietStep` and `MoveStep`, which leave sections alone. `TakenIsHeld` is
the converse of `Held`, and needs one fact more, that whoever made the semaphore a name
refers to has it open (`MakerHasIt`): who opens a semaphore that is 0 opens one that is held.
The assumptions are `CrossMemAssumption` and `CounterLoggerAssumption`, on constants only.

Three modules build on it with `Overlap = FALSE`, while log writes and child starts may fail, Ctrl-C may
come at any time, and there are any number of mains, copies and CLIs. Two of them also assume that
nobody crashes (`Orderly`). `CounterCrewProofs` has

* `CountIsExact` and `NoLostUpdate`: `[]` of `RefCountExact` and `ReadIsFresh`;
* `Agreement`: the invariant they follow from;
* `TheLastTakesOver`: `LastTakesOver`, the half of `Takeover` that is no liveness;
* `OnlyCliStrands`: if the log can be written too, a semaphore at 0 has somebody inside, or a CLI
  that was killed inside. No instance dies (`OnlyClisDie`, from `Sized`), so of the excuses
  `TakenIsHeld` allows only that one is left.

Neither of the first two is inductive, nor without the other: the count is right because no update of
it is lost; no update is lost because one segment is used with one semaphore; the names lead everybody to
that pair because only the last one out unlinks them; and the count tells who that is. `CrewInv` says so in terms of
the *crew*, the registered instances. While there is one (`Settled`), nobody is unlinking and whoever is
opening will join it, and every probe finds the crew's objects. While there is none (`NoCrew`), at most
one process is opening or unlinking, and its program point says what each name is bound to
(`Founding`). `LastOut` connects the two: nobody is opening while the last one leaves. `Kinds` says which
mode can be at which program point. `Sized`, `UnbornShm` and `Coupled` also speak of the CLIs, which
are not counted and may still hold the segment of a crew that has gone.
Both assumptions are needed for these. A crash leaves a count that is never corrected; one between
`sem_unlink` and `shm_unlink` leaves a segment that the next crew uses with a new semaphore, beside a CLI
that still has the old one; one before `ftruncate` leaves a segment without pages for those who find it.

`CounterCrashProofs` does without the second: any process may be killed anywhere, in a section too.

* `NamesStay`, `OneOrigin` and `OnePair`: `[]` of `NamesInUse`, `SingleOrigin` and `OneCopyPair`;
* `CrashTolerance`: the invariant they follow from, all but what concerns copies.

`CrashInv` is weaker than `CrewInv`: the count is *at least* the size of the crew (`AtLeast`), which is enough,
as only a count of 1 makes somebody unlink or take over. No update of the count is lost (`RefFresh`), though
updates of the counter may be: everybody in a section on the count, unlike a CLI, has the semaphore the
name is bound to (`OneCounting`). Names that are not bound are met only by a main that is alone
(`OpenerAt`), which makes its step of no consequence to others; this is where `Overlap = FALSE` comes in, and
without it `two_origins` breaks `SingleOrigin`. For `OnePair`, the copies that are alive are those the leading
main knows (`Owned`): a main takes over only when nobody else is registered, and a copy that is
opening has a main that started it and still leads, or that main was killed, the count is too high for
ever (`Miscounted`) and nobody takes over at all (`Started`). The runs `steady` and
`takeover` check the three properties where nothing fails; that they outlive crashes is a theorem only.

`CounterServiceProofs` has `Implementation`: `Spec => ImplementsService`. The step that stores and
posts is the abstract operation (`LeaveRegister` is `Found` or `Join`, `LeaveDrop` is `Part`,
`LeaveStandby` of the last user is `Elect`), and all other steps are stutters; what was
loaded is the abstract value by `ReadIsFresh`, and what is stored reaches everybody by `NamesInUse`. A CLI
that stores to a segment whose crew has left is a stutter, too.

`FileLoggerProofs`, for any periods and keeping times with `Period[2] <= Period[3]`, any
chunk, any leftover files that are in order, hold no fragment and are not dated later than
the first second, any messages, and kills anywhere:

* `TypeCorrect`: `Spec => []TypeOK`;
* `WholeMessages`: `Spec => []NoFragmentLogged`;
* `FirstIsExact`: `Spec => []FirstExact`;
* `AveragesFind`: `Spec => []AverageFindsEntries`;
* `OrderAtRest`: `Spec => []InDateOrder`.

The invariant has six parts, each inductive with those before it that it needs. `Bounds`:
reading and writing positions lie inside the file. `Framing`: the device is between two messages
whenever the main loop looks at it. `Past`: no line is dated later than now. `Averages`: since both
timers were set, log 2 has a line from when its timer was last set, unless that of log 3 was
set later; so what makes the second average due leaves something to average. `Firsts`:
`first_entry_time` is right while a log may be written, and for an empty log it is expired.
`Order`: a ring is two runs of lines in order, all of those behind the cursor not later than
those before it; a file being pruned is what stays and what has not been read, and a file being
swapped is what was moved, what will be, and the buffer, in that order. `InDateOrder`
depends on `Averages`: the early return of `get_avg_log` moves the cursor, and would tear the
ring; it is never taken. `LogFile`'s writes are described line by line in lemmas of their own,
and the rest of the proof is about sequences of dates.

`FileQueueProofs`, from the same assumptions:

* `LinesKept`: `Spec => PrunedLinesStay`;
* `QueueImplementation`: `Spec => ImplementsQueue`.

One more part, `Places`, says what becomes of lines that are written over: while a file is
pruned, a line that has been read is gone or a copy of one that stays; while it is swapped, a
line from before the cursor is still in the buffer, and any other one has been copied. So a
kill during pruning loses nothing that is to stay, and brings back at most what was being dropped; one
during the swap does lose the lines that are only in the buffer, and `CrashMaps` shows that
what it leaves is what `LogQueue!Crash` allows (`RingTurned`, `ShiftTurned`). With `HalfTurned` or
`Refilled` replaced by a stronger condition TLC finds a kill that breaks it. A ring, a
file being pruned and a file being swapped are each given line by line, and every write is
an equation between two of them. Steps of the logger that are seen are `PruneLine` when the line
goes (`Drop`), the last `PruneDone` (`Ready`), the two writes (`Write`), leaving the main loop
(`Finish`), the last `SwapNothing` (`Stop`), and `Start`, `Advance` and `Crash`. `Write` needs `Firsts`, or a log would grow behind
an entry that is too old, and `Averages`, or the early return of `get_avg_log` would put the
youngest entries before the others; `Stop` needs that the logs swapped before the last have
their cursors at the end.

`TempLoggerProofs` and `TempKioskProofs`, for any periods, ticks, faults and number of rows:

* `LoggerTypes`, `TimersFollowRows` and `AveragesAreRecent`: types, `TimerMovesWithRow` and
  `AverageIsRecent`, whatever fails;
* `NothingIsLateBeside` and `ReadingCountsBeside`: `NoBacklog` and `AverageIncludesReading` for
  logger and server together, if no insert, select or reading fails, `PERIOD_LOG2` is a second
  at least and `PERIOD_LOG3` a second longer (`Calm`). A select that fails does leave an average
  due, and with periods closer together the truncation of dates to seconds in
  `DATETIME(date) between` would leave out the only row: both are why `Calm` is needed;
* `OneRowAtMost`: a log that has been pruned once never holds more than one row, if neither
  deletes nor selects fail and no damaged row is left over (`Thorough`);
* `LoggerUndisturbed`: a logger beside a server implements the logger alone, which
  carries the theorems of the one to the other;
* `KioskTypes` and `LengthsAgree`: `TypeOK` and `EntriesAnnounced` of both together, whatever fails.
  `LengthAnnounced`, without the condition that there be an entry, is violated;
* `OverrunBounded`: `OverrunByOne`, if the logger is `Thorough`.

The invariant of `NoBacklog`, `CalmInv`, says what has been done in the iteration up to the log being
written, and that the row `log2_last_write` speaks of is in log 2 except while that is being
replaced.

`AverageIsRecent` is about what an average is *of*: a row of log 2 holds no reading from a `PERIOD_LOG2` or
more before its date, and one of log 3 none from the two periods together. The query is cut to seconds at
one end and looks at rows that failing statements have left there, so that this is not plain from the
code; `AgeInv` carries the bounds from log to log, and through `temp` while a row is being written.
It is conditional on log 1, whose rows are readings of their own time unless a reading fails and
the previous one is logged as new. The tables found at the start are assumed to satisfy the bounds for
logs 2 and 3, as an earlier session leaves them.

`OverrunByOne` says that two statements of the server, with any number of the logger's between
them, differ by one row at most, and only from zero. What makes it so is in the logger: `Tidy` says
that pruning, which empties a log, goes before each insert. The server's part, `OverrunInv`, is that
since a log was counted it has only lost rows (`MatchesFall`: taking a row away never makes a select
return more), or holds one at most. `Thorough` is needed: with one delete or one select of the
logger failing, or a damaged row that pruning stops at, TLC finds an array counted for one entry
that gets two.

What `print_json` writes and what a select returns are recursive functions of the length of
their argument, and what is said of them needs induction. The library's induction theorems take an
operator, which no installed prover can instantiate; `SetInduction` says the same of a set of
numbers, and `PrimitiveRecursion` that such a function exists, both from the well-founded order of the
naturals. `MatchingFacts` and `PrintedLength` then are inductions over the rows and the entries.

Only model-checked: all liveness (`Takeover`, `CtrlCEnds`, `LoggerStops`, `ClientServed`, `LoggerEnds`),
since TLAPS has no rule here for fairness and ENABLED. The statements of comments that
the code violates have counterexamples. Every other property of a run has a theorem.

## Not modelled

* Log text and formatting, and the rounding of printed seconds.
* `sem_wait`, `mmap`, `ftruncate`, `malloc` and file operations failing.
* The exec pipe inside `start_process`, which is one step: the pipe is closed by exec or by the
  exit of the child, so that its reader always returns.
* Opening and closing the database (`init_log`, `deinit_log` of `logger_db.c`): they end the
  program before it has state, or after.
* The parsing of requests beyond its outcome. `handle_client` keeps pointers to variables of
  blocks that have ended; what an optimising compiler makes of that is not a behaviour the
  default build has.
* Socket wrappers, string helpers, the Windows back ends, where an object ends with its last
  handle, and the web client.

`PROJECT.json` gives the reason for each component.

## What is left

Done, in the order of the plan: the counter logger, its abstract specification, the safety theorems
and the refinement;
the temperature logger, the server, their composition and theorems; the logger over files with
kills and restarts, its abstract specification, theorems and refinement; message framing; response
sizes.

Left: a variant of `CrossMem` for Windows, and the pipe protocol of `start_process` as a module of its own.
