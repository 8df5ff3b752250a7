----------------------------- MODULE TempKiosk -----------------------------
(***************************************************************************)
(* The temperature logger and the HTTP server over the same three tables.  *)
(***************************************************************************)
EXTENDS TempLogger, TempServer

vars == <<rows, loggerVars, serverVars>>

TypeOK == LoggerTypeOK /\ ServerTypeOK

Init == LoggerInit /\ ServerInit

Logging == LoggerNext /\ UNCHANGED serverVars
Serving == ServerNext /\ UNCHANGED loggerVars

\* Both programs have been stopped, or have ended by themselves.
Stopped ==
  /\ lpc = "done" /\ spc \in {"done", "aborted"}
  /\ UNCHANGED vars

Next == Logging \/ Serving \/ Stopped

Spec == Init /\ [][Next]_vars

\* Both processes are scheduled, the device goes on sending, and a client that
\* has connected sends something or hangs up.
FairSpec ==
  /\ Spec
  /\ WF_vars(LoggerStep /\ UNCHANGED serverVars)
  /\ WF_vars(ServerStep /\ UNCHANGED loggerVars)

-----------------------------------------------------------------------------
\* A fetch overruns its array only when that was counted empty, and then by one
\* entry.  No entry is ever allocated beyond the count: what malloc(0) hands out
\* has room for the 24 bytes of one because of its smallest block, if at all.
OverrunByOne ==
  \A l \in Logs :
    spc = "respond" /\ arrays[l] # Failed /\ Len(arrays[l].items) > arrays[l].size
      => arrays[l].size = 0 /\ Len(arrays[l].items) = 1

\* "Get an array of all entries within the provided date range"
\* (logger_interface.h:40): the array has the size of what was fetched.
ArrayExact == spc = "respond" => \A l \in Logs : Exact(arrays[l])

\* All three arrays are there, and every entry of them has been written.
Filled ==
  spc = "respond" /\ \A l \in Logs : arrays[l] # Failed /\ arrays[l].size <= Len(arrays[l].items)

\* {"data":[...]} (temp_server.c:76) is sent under a Content-Length of json_size:
\* the client is told the length of the text it gets.
LengthAnnounced == Filled => Printed(Sent) = JsonSize(Sent)

\* As soon as there is an entry to send that length is right, whichever entries are
\* nulled and left out, and although one array may have been overrun.
EntriesAnnounced ==
  Filled /\ CountNotNull(Sent) > 0 => Printed(Sent) = JsonSize(Sent)

\* A client that has connected is answered or dropped.
ClientServed == spc = "recv" ~> spc \in {"listen", "aborted"}
=============================================================================
