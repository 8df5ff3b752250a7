----------------------------- MODULE TempServer -----------------------------
(***************************************************************************)
(* The HTTP server, src/temp_logger/temp_server.c, reading the log tables  *)
(* through get_array_entries of logger_db.c.  It serves one client at a    *)
(* time; for each of the three logs it first counts the rows in the range, *)
(* allocates an array for them, and then selects them: two statements, two *)
(* snapshots.                                                              *)
(***************************************************************************)
EXTENDS DbLog

CONSTANTS
  Ranges,  \* the date ranges clients ask for
  Failed   \* the array of a log that could not be read

ASSUME TempServerAssumption ==
  \A r \in Ranges : DOMAIN r = {"from", "to"} /\ r.from \in Int /\ r.to \in Int

VARIABLES
  spc,      \* program point of the server
  serving,  \* is_working
  range,    \* what the client asked for
  at,       \* the log being read
  arrays,   \* array1, array2 and array3: the size allocated, the rows fetched
  reply     \* what the last client was told

serverVars == <<spc, serving, range, at, arrays, reply>>

EmptyArray == [size |-> 0, items |-> <<>>]

ServerTypeOK ==
  /\ spc \in {"listen", "recv", "count", "fetch", "respond", "done", "aborted"}
  /\ serving \in BOOLEAN
  /\ range \in Ranges
  /\ at \in Logs
  /\ DOMAIN arrays = Logs
  /\ \A l \in Logs : arrays[l] = Failed
                     \/ (arrays[l].size \in Nat /\ arrays[l].items \in Seq(Row))
  /\ reply \in {"none", "400", "413", "500", "200"}

ServerInit ==
  /\ spc = "listen" /\ serving = TRUE
  /\ range \in Ranges
  /\ at = 1
  /\ arrays = [l \in Logs |-> EmptyArray]
  /\ reply = "none"

-----------------------------------------------------------------------------
\* select() reports a client and accept takes it; a timeout only loops.
Accept ==
  /\ spc = "listen" /\ serving
  /\ spc' = "recv"
  /\ reply' = "none"
  /\ UNCHANGED <<rows, serving, range, at, arrays>>

\* recv returns a request that parses, ...
Receive ==
  /\ spc = "recv"
  /\ range' \in Ranges
  /\ spc' = "count" /\ at' = 1
  /\ arrays' = [l \in Logs |-> EmptyArray]
  /\ UNCHANGED <<rows, serving, reply>>

Reject_Bug ==   \* answers, and reads on from the same client
  /\ spc = "recv"
  /\ reply' \in {"400", "413", "none"}
  /\ UNCHANGED <<rows, spc, serving, range, at, arrays>>

\* ... or one that does not or is too long, which is answered at once, or an error.
Reject ==
  /\ spc = "recv"
  /\ spc' = "listen"
  /\ reply' \in {"400", "413", "none"}
  /\ UNCHANGED <<rows, serving, range, at, arrays>>

\* The next log, or the answer.
NextArray_Bug ==   \* one log too many
  IF at <= 3 THEN spc' = "count" /\ at' = at + 1
             ELSE spc' = "respond" /\ at' = at

NextArray ==
  IF at < 3 THEN spc' = "count" /\ at' = at + 1
            ELSE spc' = "respond" /\ at' = at

\* count_between_dates, and the array of that size.
Count ==
  /\ spc = "count"
  /\ spc' = "fetch"
  /\ arrays' = [arrays EXCEPT ![at].size = Len(Selected(at, range.from, range.to))]
  /\ UNCHANGED <<rows, serving, range, at, reply>>

\* The select of the rows, and the loop that stores them in the array.
Fetch ==
  /\ spc = "fetch"
  /\ arrays' = [arrays EXCEPT ![at].items = Selected(at, range.from, range.to)]
  /\ NextArray
  /\ UNCHANGED <<rows, serving, range, reply>>

\* Either statement fails: NULL instead of an array.
ReadFails ==
  /\ spc \in {"count", "fetch"} /\ "query" \in Faults
  /\ arrays' = [arrays EXCEPT ![at] = Failed]
  /\ NextArray
  /\ UNCHANGED <<rows, serving, range, reply>>

\* One array missing is enough for a server error; otherwise all are sent.
Respond ==
  /\ spc = "respond"
  /\ spc' = "listen"
  /\ reply' = IF \E l \in Logs : arrays[l] = Failed THEN "500" ELSE "200"
  /\ arrays' = [l \in Logs |-> EmptyArray]
  /\ UNCHANGED <<rows, serving, range, at>>

\* An array that was fetched with more rows than it has room for, or with fewer
\* and so with entries nobody wrote (print_date asserts their length), leaves
\* undefined behaviour: the reply above, or the end of the server.
Exact(a) == a # Failed => a.size = Len(a.items)

Abort ==
  /\ spc = "respond" /\ \E l \in Logs : ~Exact(arrays[l])
  /\ spc' = "aborted"
  /\ UNCHANGED <<rows, serving, range, at, arrays, reply>>

-----------------------------------------------------------------------------
(* The text of the answer, create_response, by its length.                  *)

\* As much of each array as it has room for, one after the other.
Room(array) == SubSeq(array.items, 1, array.size)
Sent == Room(arrays[1]) \o Room(arrays[2]) \o Room(arrays[3])

\* An entry whose date does not scan is nulled.
IsNull(entry) == entry.text # "date"

CountNotNull(entries) == Cardinality({i \in DOMAIN entries : ~IsNull(entries[i])})

JsonSize_Bug(entries) == 11 + 50 * Len(entries) - 1   \* the size of the array

\* What Content-Length says and malloc is asked for.
JsonSize(entries) == 11 + 50 * CountNotNull(entries) - 1

\* What print_json writes: a head of 9 bytes, for each entry 49, and a comma
\* unless nothing has been written before, and a tail of 2.
Printed(entries) ==
  LET pos[n \in 0..Len(entries)] ==   \* after n entries
        IF n = 0 THEN 9
        ELSE IF IsNull(entries[n]) THEN pos[n - 1]
        ELSE (IF pos[n - 1] = 9 THEN 9 ELSE pos[n - 1] + 1) + 49
  IN pos[Len(entries)] + 2

-----------------------------------------------------------------------------
InterruptServer ==
  /\ serving /\ spc \notin {"done", "aborted"}
  /\ serving' = FALSE
  /\ UNCHANGED <<rows, spc, range, at, arrays, reply>>

StopServer ==
  /\ spc = "listen" /\ ~serving
  /\ spc' = "done"
  /\ UNCHANGED <<rows, serving, range, at, arrays, reply>>

ServerStep ==
  \/ Accept \/ Receive \/ Reject \/ Count \/ Fetch \/ ReadFails
  \/ Respond \/ Abort \/ StopServer

ServerNext == ServerStep \/ InterruptServer
=============================================================================
