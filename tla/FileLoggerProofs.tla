-------------------------- MODULE FileLoggerProofs --------------------------
(***************************************************************************)
(* Theorems about FileLogger, for every value of its constants.  The       *)
(* invariant is a conjunction of six parts, each inductive relative to     *)
(* those before it.                                                        *)
(***************************************************************************)
EXTENDS FileLogger, TLAPS, SequenceTheorems

\* The program points between pruning and the end, where the files are rings.
Main == {"skip_old", "skip_till", "loop", "read", "resync", "store", "hung"}

\* What is read and written of a file lies inside it.
Bounds ==
  /\ pc = "prune" => w <= r /\ r <= Len(file[log])
  /\ pc = "shift" => /\ pos[log] < Len(file[log])
                     /\ Len(buf) = pos[log]
                     /\ w <= Len(file[log]) - pos[log]

-----------------------------------------------------------------------------
Streams ==
  {<<>>, <<"whole">>, <<"noise">>, <<"short">>, <<"tail">>, <<"head", "tail">>}

WholeLines(lines) == \A i \in 1..Len(lines) : lines[i].val # "fragment"

\* The device is between two messages whenever the main loop looks at it.
Framing ==
  /\ stream \in Streams
  /\ pc \in {"loop", "read", "store"} => stream # <<"tail">>
  /\ value # "fragment"
  /\ \A l \in Logs : WholeLines(file[l])
  /\ WholeLines(buf)

-----------------------------------------------------------------------------
PastLines(lines) == \A i \in 1..Len(lines) : lines[i].date <= now

\* Nothing is dated later than now.
Past ==
  /\ \A l \in Logs : PastLines(file[l])
  /\ PastLines(buf)
  /\ \A k \in 2..3 : last[k] <= now

-----------------------------------------------------------------------------
\* While a log may be written: its first entry is known, an empty log begins at
\* its first line, and any other is not written there by chance.
Known(l) ==
  /\ file[l] # <<>> => first[l] = file[l][1].date /\ pos[l] > 0
  /\ file[l] = <<>> => Expired(l)

\* While it is pruned: its first line is the old one as long as none stays.
Unknown(l) ==
  w = 0 => first[l] = FirstEntry(file[l]) /\ (r > 0 => Expired(l))

Firsts ==
  /\ pc \in Main => \A l \in Logs : Known(l)
  /\ pc = "prune" =>
       \A l \in Logs :
         /\ l < log => Known(l)
         /\ l = log => Unknown(l)
         /\ l > log => first[l] = FirstEntry(file[l])

-----------------------------------------------------------------------------
HasDate(lines, date) == \E i \in 1..Len(lines) : lines[i].date = date

\* Since both timers were set there is a line in log 2 from when its timer was
\* last, unless the timer of log 3 was set later.
Averages ==
  /\ pc = "store" /\ log = 2 => HasDate(file[1], now)
  /\ pc = "store" /\ log = 3 => \E i \in 1..Len(file[2]) :
       file[2][i].date # NoDate /\ now - file[2][i].date <= Period[3]
  /\ pc \in Main => last[2] <= last[3] \/ HasDate(file[2], last[2])
  /\ pc = "prune" => last[2] <= last[3]
  /\ pc = "resync" => log = 1

-----------------------------------------------------------------------------
Before2(a, b) == a.date # NoDate /\ b.date # NoDate => a.date <= b.date

\* Line i of a is not later than line j of b, for i in I and j in J.
NotLater(a, I, b, J) == \A i \in I, j \in J : Before2(a[i], b[j])

\* The lines from a to b are in order.
Run(lines, a, b) == \A i, j \in a..b : i < j => Before2(lines[i], lines[j])

\* From behind the cursor to the end and on from the beginning to the cursor.
Ring(lines, p) ==
  /\ Run(lines, 1, p)
  /\ Run(lines, p + 1, Len(lines))
  /\ NotLater(lines, p + 1 .. Len(lines), lines, 1..p)

\* Those that stay, and those not yet looked at.
Pruned(lines, k, n) ==
  /\ Run(lines, 1, k)
  /\ Run(lines, n + 1, Len(lines))
  /\ NotLater(lines, 1..k, lines, n + 1 .. Len(lines))
  /\ k = 0 => InOrder(lines)

\* Those moved, those to be moved, and the buffer.
Shifted(lines, p, k, b) ==
  /\ Run(lines, 1, k)
  /\ Run(lines, p + k + 1, Len(lines))
  /\ InOrder(b)
  /\ NotLater(lines, 1..k, lines, p + k + 1 .. Len(lines))
  /\ NotLater(lines, 1..k, b, 1..Len(b))
  /\ NotLater(lines, p + k + 1 .. Len(lines), b, 1..Len(b))

OrderOf(l) ==
  /\ pc = "off" => InOrder(file[l])
  /\ pc = "prune" =>
       /\ l < log => InOrder(file[l]) /\ pos[l] = Len(file[l])
       /\ l = log => Pruned(file[l], w, r) /\ pos[l] = 0
       /\ l > log => InOrder(file[l]) /\ pos[l] = 0
  /\ pc \in Main \cup {"swap"} => Ring(file[l], pos[l])
  /\ pc = "shift" => IF l = log THEN Shifted(file[l], pos[l], w, buf) ELSE Ring(file[l], pos[l])

Order ==
  /\ \A l \in Logs : ~torn[l] => OrderOf(l)
  /\ pc \in {"swap", "shift"} => \A l \in Logs : l < log => pos[l] = Len(file[l])

-----------------------------------------------------------------------------
(* What the writes of LogFile do, line by line.                             *)

\* Everything but log l keeps its lines.
OthersKept(l) == \A k \in Logs \ {l} : file'[k] = file[k]

LEMMA PutLineFacts ==
  ASSUME NEW lines \in Seq(Line), NEW i \in 1 .. Len(lines) + 1, NEW line \in Line
  PROVE  LET put == PutLine(lines, i, line) IN
         /\ put \in Seq(Line) /\ Len(put) \in Nat
         /\ Len(put) >= i /\ Len(put) >= Len(lines)
         /\ put[i] = line
         /\ \A j \in 1..Len(put) : j # i => j <= Len(lines) /\ put[j] = lines[j]
<1>1. Len(lines) \in Nat
  BY LenProperties
<1>2. CASE i = Len(lines) + 1
  BY <1>1, <1>2, AppendProperties DEF PutLine
<1>3. CASE i \in 1..Len(lines)
  BY <1>1, <1>3, ExceptSeq DEF PutLine
<1> QED
  BY <1>1, <1>2, <1>3

\* A line dated now goes to some place of log l, and the cursor behind it.
LEMMA WriteLogFacts ==
  ASSUME FilesTypeOK, NEW l \in Logs, NEW val \in Val, WriteLog(l, val)
  PROVE  /\ FilesTypeOK' /\ now' = now /\ OthersKept(l)
         /\ \A k \in Logs \ {l} : pos'[k] = pos[k] /\ first'[k] = first[k]
         /\ Len(file'[l]) >= Len(file[l])
         /\ pos'[l] \in 1..Len(file'[l])
         /\ file'[l][pos'[l]] = [date |-> now, val |-> val]
         /\ \A j \in 1..Len(file'[l]) :
              j # pos'[l] => j <= Len(file[l]) /\ file'[l][j] = file[l][j]
         /\ \/ /\ pos[l] = Len(file[l]) /\ Expired(l)
               /\ pos'[l] = 1 /\ first'[l] = now
            \/ /\ ~(pos[l] = Len(file[l]) /\ Expired(l))
               /\ pos'[l] = pos[l] + 1 /\ first'[l] = first[l]
<1> DEFINE wrap  == AtFileEnd(l) /\ Expired(l)
           start == IF wrap THEN 0 ELSE pos[l]
           line  == [date |-> now, val |-> val]
           put   == PutLine(file[l], start + 1, line)
<1>1. /\ now \in Nat /\ file \in [Logs -> Seq(Line)] /\ pos \in [Logs -> Nat]
      /\ first \in [Logs -> Nat \cup {NoEntry}]
      /\ \A k \in Logs : Len(file[k]) \in Nat /\ pos[k] <= Len(file[k])
  BY LenProperties DEF FilesTypeOK
<1>2. line \in Line
  BY <1>1 DEF Line
<1>3. start \in Nat /\ start + 1 \in 1 .. Len(file[l]) + 1
  BY <1>1
<1>4. /\ put \in Seq(Line) /\ Len(put) \in Nat
      /\ Len(put) >= start + 1 /\ Len(put) >= Len(file[l])
      /\ put[start + 1] = line
      /\ \A j \in 1..Len(put) : j # start + 1 => j <= Len(file[l]) /\ put[j] = file[l][j]
  <2> HIDE DEF put, start, line
  <2> QED
    BY <1>1, <1>2, <1>3, PutLineFacts DEF put
<1>5. /\ file' = [file EXCEPT ![l] = put]
      /\ pos' = [pos EXCEPT ![l] = start + 1]
      /\ first' = IF wrap THEN [first EXCEPT ![l] = now] ELSE first
      /\ now' = now
  BY DEF WriteLog
<1>6. /\ file'[l] = put /\ pos'[l] = start + 1
      /\ \A k \in Logs \ {l} : file'[k] = file[k] /\ pos'[k] = pos[k] /\ first'[k] = first[k]
      /\ first'[l] = IF wrap THEN now ELSE first[l]
  <2> HIDE DEF put, start, wrap
  <2> QED
    BY <1>1, <1>5
<1>7. FilesTypeOK'
  <2>1. file' \in [Logs -> Seq(Line)] /\ pos' \in [Logs -> Nat]
        /\ first' \in [Logs -> Nat \cup {NoEntry}]
    <3> HIDE DEF put, start, wrap
    <3> QED
      BY <1>1, <1>3, <1>4, <1>5
  <2>2. \A k \in Logs : pos'[k] <= Len(file'[k])
    <3> HIDE DEF put, start, wrap
    <3> QED
      BY <1>1, <1>3, <1>4, <1>6
  <2> QED
    BY <1>1, <1>5, <2>1, <2>2 DEF FilesTypeOK
<1> HIDE DEF put, start, line
<1>8. /\ OthersKept(l) /\ Len(file'[l]) >= Len(file[l]) /\ pos'[l] \in 1..Len(file'[l])
      /\ \A j \in 1..Len(file'[l]) :
           j # pos'[l] => j <= Len(file[l]) /\ file'[l][j] = file[l][j]
  BY <1>3, <1>4, <1>6 DEF OthersKept
<1> QED
  BY <1>1, <1>4, <1>5, <1>6, <1>7, <1>8 DEF start, line, AtFileEnd

\* The facts about types that every write starts from.
LEMMA FilesTypes ==
  ASSUME FilesTypeOK
  PROVE  /\ now \in Nat /\ file \in [Logs -> Seq(Line)] /\ pos \in [Logs -> Nat]
         /\ first \in [Logs -> Nat \cup {NoEntry}]
         /\ \A l \in Logs : /\ Len(file[l]) \in Nat /\ pos[l] <= Len(file[l])
                            /\ DOMAIN file[l] = 1..Len(file[l])
                            /\ \A i \in 1..Len(file[l]) : file[l][i] \in Line
BY LenProperties, ElementOfSeq DEF FilesTypeOK

\* Line r of log l is copied to line k + 1.
LEMMA MoveUpFacts ==
  ASSUME FilesTypeOK, NEW l \in Logs, NEW k \in Nat, NEW n \in 1..Len(file[l]),
         k < n, MoveUp(l, k, n)
  PROVE  /\ FilesTypeOK' /\ UNCHANGED <<now, pos, first>> /\ OthersKept(l)
         /\ Len(file'[l]) = Len(file[l])
         /\ \A j \in 1..Len(file[l]) :
              file'[l][j] = IF j = k + 1 THEN file[l][n] ELSE file[l][j]
<1>1. k + 1 \in 1..Len(file[l]) /\ file[l][n] \in Line
  BY FilesTypes
<1> DEFINE lines == [file[l] EXCEPT ![k + 1] = file[l][n]]
<1>2. /\ lines \in Seq(Line) /\ Len(lines) = Len(file[l])
      /\ \A j \in 1..Len(file[l]) : lines[j] = IF j = k + 1 THEN file[l][n] ELSE file[l][j]
  BY <1>1, FilesTypes, ExceptSeq
<1>3. file' = [file EXCEPT ![l] = lines] /\ UNCHANGED <<now, pos, first>>
  BY FilesTypes DEF MoveUp
<1> HIDE DEF lines
<1>4. file'[l] = lines /\ OthersKept(l) /\ file' \in [Logs -> Seq(Line)]
  BY <1>2, <1>3, FilesTypes DEF OthersKept
<1> QED
  BY <1>2, <1>3, <1>4, FilesTypes DEF FilesTypeOK, OthersKept

\* Log l keeps its first k lines, and its first entry is looked up if there is one.
LEMMA CutFacts ==
  ASSUME FilesTypeOK, NEW l \in Logs, NEW k \in 0..Len(file[l]), Cut(l, k)
  PROVE  /\ FilesTypeOK' /\ now' = now /\ OthersKept(l)
         /\ \A j \in Logs \ {l} : pos'[j] = pos[j] /\ first'[j] = first[j]
         /\ Len(file'[l]) = k /\ pos'[l] = k
         /\ \A j \in 1..k : file'[l][j] = file[l][j]
         /\ first'[l] = IF k > 0 THEN file[l][1].date ELSE first[l]
<1> DEFINE lines == SubSeq(file[l], 1, k)
<1>1. /\ lines \in Seq(Line) /\ Len(lines) = k
      /\ \A j \in 1..k : lines[j] = file[l][j]
  BY FilesTypes, SubSeqProperties
<1>2. /\ file' = [file EXCEPT ![l] = lines] /\ pos' = [pos EXCEPT ![l] = k] /\ now' = now
      /\ first' = IF k > 0 THEN [first EXCEPT ![l] = file'[l][1].date] ELSE first
  BY DEF Cut
<1> HIDE DEF lines
<1>3. file'[l] = lines /\ OthersKept(l) /\ file' \in [Logs -> Seq(Line)]
  BY <1>1, <1>2, FilesTypes DEF OthersKept
<1>4. pos'[l] = k /\ pos' \in [Logs -> Nat] /\ \A j \in Logs \ {l} : pos'[j] = pos[j]
  BY <1>2, FilesTypes
<1>5. k > 0 => file'[l][1].date = file[l][1].date /\ file[l][1].date \in Nat \cup {NoEntry}
  BY <1>1, <1>3, FilesTypes DEF Line, NoDate, NoEntry
<1>6. /\ first'[l] = IF k > 0 THEN file[l][1].date ELSE first[l]
      /\ first' \in [Logs -> Nat \cup {NoEntry}]
      /\ \A j \in Logs \ {l} : first'[j] = first[j]
  BY <1>2, <1>5, FilesTypes
<1> QED
  BY <1>1, <1>2, <1>3, <1>4, <1>6, FilesTypes DEF FilesTypeOK, OthersKept

\* A file whose lines are each replaced by some line keeps its length.
LEMMA Rewritten ==
  ASSUME NEW lines \in Seq(Line), NEW f, DOMAIN f = DOMAIN lines,
         f = [i \in DOMAIN f |-> f[i]], \A i \in 1..Len(lines) : f[i] \in Line
  PROVE  f \in Seq(Line) /\ Len(f) = Len(lines)
<1>1. Len(lines) \in Nat /\ DOMAIN f = 1..Len(lines)
  BY LenProperties
<1>2. f \in [1..Len(lines) -> Line]
  BY <1>1
<1>3. f \in Seq(Line)
  BY <1>1, <1>2, SeqDef
<1> QED
  BY <1>1, <1>3, LenProperties

\* n lines of log l go left lines up.
LEMMA ShiftChunkFacts ==
  ASSUME FilesTypeOK, NEW l \in Logs, NEW left \in Nat, NEW moved \in Nat, NEW n \in Nat,
         left + moved + n <= Len(file[l]), ShiftChunk(l, left, moved, n)
  PROVE  /\ FilesTypeOK' /\ UNCHANGED <<now, pos, first>> /\ OthersKept(l)
         /\ Len(file'[l]) = Len(file[l])
         /\ \A i \in 1..Len(file[l]) : file'[l][i] =
              IF moved < i /\ i <= moved + n THEN file[l][i + left] ELSE file[l][i]
<1> DEFINE lines == [i \in DOMAIN file[l] |->
                      IF moved < i /\ i <= moved + n THEN file[l][i + left] ELSE file[l][i]]
<1>1. \A i \in 1..Len(file[l]) : lines[i] \in Line
  BY FilesTypes
<1>2. lines \in Seq(Line) /\ Len(lines) = Len(file[l])
  BY <1>1, FilesTypes, Rewritten
<1>3. file' = [file EXCEPT ![l] = lines] /\ UNCHANGED <<now, pos, first>>
  BY DEF ShiftChunk
<1>4. \A i \in 1..Len(file[l]) : lines[i] =
        IF moved < i /\ i <= moved + n THEN file[l][i + left] ELSE file[l][i]
  BY FilesTypes
<1> HIDE DEF lines
<1>5. file'[l] = lines /\ OthersKept(l) /\ file' \in [Logs -> Seq(Line)]
  BY <1>2, <1>3, FilesTypes DEF OthersKept
<1> QED
  BY <1>2, <1>3, <1>4, <1>5, FilesTypes DEF FilesTypeOK, OthersKept

\* Some lines are written over the last of log l, and the cursor ends up behind.
LEMMA PutBehindFacts ==
  ASSUME FilesTypeOK, NEW l \in Logs, NEW b \in Seq(Line), Len(b) <= Len(file[l]),
         PutBehind(l, b)
  PROVE  LET start == Len(file[l]) - Len(b) IN
         /\ FilesTypeOK' /\ UNCHANGED <<now, first>> /\ OthersKept(l)
         /\ \A j \in Logs \ {l} : pos'[j] = pos[j]
         /\ Len(file'[l]) = Len(file[l]) /\ pos'[l] = Len(file[l])
         /\ \A i \in 1..Len(file[l]) :
              file'[l][i] = IF i > start THEN b[i - start] ELSE file[l][i]
<1> DEFINE start == Len(file[l]) - Len(b)
           lines == [i \in DOMAIN file[l] |-> IF i > start THEN b[i - start] ELSE file[l][i]]
<1>0. Len(b) \in Nat /\ \A i \in 1..Len(b) : b[i] \in Line
  BY LenProperties, ElementOfSeq
<1>1. \A i \in 1..Len(file[l]) : lines[i] \in Line
  BY <1>0, FilesTypes
<1>2. lines \in Seq(Line) /\ Len(lines) = Len(file[l])
  BY <1>1, FilesTypes, Rewritten
<1>3. /\ file' = [file EXCEPT ![l] = lines] /\ UNCHANGED <<now, first>>
      /\ pos' = [pos EXCEPT ![l] = Len(file[l])]
  BY DEF PutBehind
<1>4. \A i \in 1..Len(file[l]) : lines[i] = IF i > start THEN b[i - start] ELSE file[l][i]
  BY FilesTypes
<1> HIDE DEF lines
<1>5. file'[l] = lines /\ OthersKept(l) /\ file' \in [Logs -> Seq(Line)]
  BY <1>2, <1>3, FilesTypes DEF OthersKept
<1>6. /\ pos'[l] = Len(file[l]) /\ pos' \in [Logs -> Nat]
      /\ \A j \in Logs \ {l} : pos'[j] = pos[j]
  BY <1>3, FilesTypes
<1> QED
  BY <1>2, <1>3, <1>4, <1>5, <1>6, FilesTypes DEF FilesTypeOK, OthersKept

-----------------------------------------------------------------------------
(* Types and bounds.                                                        *)

LEMMA DeviceTypes ==
  ASSUME DeviceTypeOK,
         \/ Take \/ Send \/ Close \/ Open \/ UNCHANGED deviceVars
         \/ stream # <<>> /\ stream' = <<Rest(Head(stream))>> \o Tail(stream) /\ UNCHANGED sending
  PROVE  DeviceTypeOK'
<1>1. CASE Take
  BY <1>1, HeadTailProperties DEF Take, DeviceTypeOK
<1>2. CASE Send
  <2>1. PICK message \in Messages : stream' = Pieces(message)
    BY <1>2 DEF Send
  <2>2. message \in Piece \/ message = "long"
    BY DeviceAssumption DEF Piece
  <2>3. <<"head", "tail">> \in Seq(Piece) /\ (message \in Piece => <<message>> \in Seq(Piece))
    BY DEF Piece
  <2>4. Pieces(message) \in Seq(Piece)
    BY <2>2, <2>3 DEF Pieces
  <2> QED
    BY <1>2, <2>1, <2>4 DEF Send, DeviceTypeOK
<1>3. CASE Close \/ Open \/ UNCHANGED deviceVars
  BY <1>3 DEF Close, Open, deviceVars, DeviceTypeOK
<1>4. CASE stream # <<>> /\ stream' = <<Rest(Head(stream))>> \o Tail(stream) /\ UNCHANGED sending
  <2>1. Tail(stream) \in Seq(Piece) /\ <<Rest(Head(stream))>> \in Seq(Piece)
    BY <1>4, HeadTailProperties DEF DeviceTypeOK, Rest, Piece
  <2>2. stream' \in Seq(Piece)
    BY <1>4, <2>1, ConcatProperties
  <2> QED
    BY <1>4, <2>2 DEF DeviceTypeOK
<1> QED
  BY <1>1, <1>2, <1>3, <1>4

LEMMA MeanType ==
  ASSUME NEW vals
  PROVE  Mean(vals) \in Val
BY DEF Mean, Val

\* What GoOn looks for is one of the two logs with a timer.
LEMMA GoOnFacts ==
  ASSUME GoOn, log \in Logs
  PROVE  \/ pc' = "loop" /\ log' = 1
         \/ pc' = "store" /\ log' \in 2..3 /\ log' > log /\ Due(log')
            /\ \A k \in 2..3 : log < k /\ k < log' => ~Due(k)
<1> DEFINE due == {k \in 2..3 : k > log /\ Due(k)}
<1>1. CASE due = {}
  BY <1>1 DEF GoOn
<1>2. CASE due # {}
  <2>1. \E k \in due : \A j \in due : k <= j
    <3>1. due \subseteq {2, 3} /\ 2 <= 3
      OBVIOUS
    <3> QED
      BY <1>2, <3>1
  <2>2. pc' = "store" /\ log' \in due /\ \A j \in due : log' <= j
    BY <1>2, <2>1 DEF GoOn
  <2> QED
    BY <2>2 DEF Logs
<1> QED
  BY <1>1, <1>2

\* The variables of the logger itself.
LocalsOK ==
  /\ pc \in {"off", "prune", "skip_old", "skip_till", "loop", "read", "resync", "store",
             "swap", "shift", "hung"}
  /\ running \in BOOLEAN /\ eof \in BOOLEAN
  /\ value \in Val
  /\ last \in [2..3 -> Nat]
  /\ log \in Logs
  /\ r \in Nat /\ w \in Nat
  /\ buf \in Seq(Line)
  /\ starts \in Nat
  /\ torn \in [Logs -> BOOLEAN]

LEMMA TypeInit ==
  ASSUME Init
  PROVE  TypeOK /\ Bounds
<1>1. DeviceTypeOK
  BY DEF Init, DeviceInit, DeviceTypeOK
<1>2. file \in [Logs -> Seq(Line)] /\ \A l \in Logs : Len(file[l]) \in Nat
  BY FileLoggerAssumption, LenProperties DEF Init
<1>3. FilesTypeOK
  BY <1>2 DEF Init, FilesTypeOK, NoEntry
<1>4. <<>> \in Seq(Line)
  BY EmptySeq
<1>5. /\ pc = "off" /\ value = "none" /\ log = 1 /\ r = 0 /\ w = 0 /\ buf = <<>> /\ starts = 0
      /\ running \in BOOLEAN /\ eof \in BOOLEAN
      /\ last \in [2..3 -> Nat] /\ torn \in [Logs -> BOOLEAN]
  BY DEF Init
<1>6. LocalsOK
  BY <1>4, <1>5 DEF LocalsOK, Logs, Val
<1> QED
  BY <1>1, <1>3, <1>5, <1>6 DEF TypeOK, LocalsOK, Bounds

LEMMA LocalsReset ==
  ASSUME LocalsOK, Locals, starts' \in Nat, torn' \in [Logs -> BOOLEAN],
         pc' \in {"off", "prune"}
  PROVE  LocalsOK'
<1>1. <<>> \in Seq(Line)
  BY EmptySeq
<1>2. /\ value' = "none" /\ log' = 1 /\ r' = 0 /\ w' = 0 /\ buf' = <<>>
      /\ running' \in BOOLEAN /\ eof' \in BOOLEAN /\ last' \in [2..3 -> Nat]
  BY DEF Locals
<1> QED
  BY <1>1, <1>2 DEF LocalsOK, Logs, Val

LEMMA TypeStep ==
  ASSUME TypeOK, Bounds, [Next]_vars
  PROVE  TypeOK' /\ Bounds'
<1>0. FilesTypeOK /\ DeviceTypeOK /\ LocalsOK
  BY DEF TypeOK, LocalsOK
<1>a. /\ now \in Nat /\ file \in [Logs -> Seq(Line)] /\ pos \in [Logs -> Nat]
      /\ first \in [Logs -> Nat \cup {NoEntry}]
      /\ \A l \in Logs : Len(file[l]) \in Nat /\ pos[l] <= Len(file[l])
  BY <1>0, FilesTypes
<1> SUFFICES FilesTypeOK' /\ DeviceTypeOK' /\ LocalsOK' /\ Bounds'
  BY DEF TypeOK, LocalsOK
<1>1. CASE Start
  <2>1. \A l \in Logs : FirstEntry(file[l]) \in Nat \cup {NoEntry}
    <3> SUFFICES ASSUME NEW l \in Logs PROVE FirstEntry(file[l]) \in Nat \cup {NoEntry}
      OBVIOUS
    <3>1. file[l] # <<>> => file[l][1] \in Line
      BY <1>a, EmptySeq, ElementOfSeq
    <3> QED
      BY <3>1 DEF FirstEntry, Line, NoDate, NoEntry
  <2>2. FilesTypeOK'
    BY <1>1, <1>a, <2>1 DEF Start, InitLogs, FilesTypeOK
  <2>3. DeviceTypeOK'
    BY <1>0, <1>1, DeviceTypes DEF Start
  <2>4. LocalsOK'
    BY <1>0, <1>1, LocalsReset DEF Start, LocalsOK
  <2>5. Bounds'
    BY <1>1, <1>a DEF Start, Locals, InitLogs, Bounds, Logs
  <2> QED
    BY <2>2, <2>3, <2>4, <2>5
<1>2. CASE PruneLine
  <2>1. w <= r /\ r + 1 \in 1..Len(file[log]) /\ w \in Nat /\ r \in Nat /\ log \in Logs
    BY <1>0, <1>2, <1>a DEF PruneLine, Bounds, LocalsOK
  <2>2. FilesTypeOK' /\ Len(file'[log]) = Len(file[log])
    <3>1. CASE MoveUp(log, w, r + 1)
      BY <1>0, <2>1, <3>1, MoveUpFacts
    <3>2. CASE UNCHANGED fileVars
      BY <1>0, <3>2 DEF fileVars, FilesTypeOK
    <3> QED
      BY <1>2, <3>1, <3>2 DEF PruneLine
  <2>3. w' \in {w, w + 1} /\ r' = r + 1
    BY <1>2 DEF PruneLine
  <2>4. DeviceTypeOK' /\ LocalsOK'
    BY <1>0, <1>2, <2>1, <2>3, DeviceTypes DEF PruneLine, LocalsOK
  <2>5. Bounds'
    BY <1>2, <1>a, <2>1, <2>2, <2>3 DEF PruneLine, Bounds
  <2> QED
    BY <2>2, <2>4, <2>5
<1>3. CASE PruneDone
  <2>1. w \in 0..Len(file[log]) /\ log \in Logs
    BY <1>0, <1>3, <1>a DEF PruneDone, Bounds, LocalsOK
  <2>2. FilesTypeOK' /\ OthersKept(log)
    BY <1>0, <1>3, <2>1, CutFacts DEF PruneDone
  <2>3. log' \in Logs /\ (pc' = "prune" => log' # log) /\ r' = 0 /\ w' = 0
        /\ pc' \in {"prune", "skip_old"}
    BY <1>3, <2>1 DEF PruneDone, Logs
  <2>4. DeviceTypeOK' /\ LocalsOK'
    BY <1>0, <1>3, <2>3, DeviceTypes DEF PruneDone, LocalsOK
  <2>5. Bounds'
    BY <1>a, <2>2, <2>3 DEF Bounds, OthersKept
  <2> QED
    BY <2>2, <2>4, <2>5
<1>4. CASE SkipOld
  <2>1. DeviceTypeOK'
    BY <1>0, <1>4, DeviceTypes DEF SkipOld
  <2> QED
    BY <1>0, <1>4, <2>1 DEF SkipOld, fileVars, FilesTypeOK, LocalsOK, Bounds, AtEnd, DeviceTypeOK
<1>5. CASE SkipTill
  <2>1. DeviceTypeOK'
    BY <1>0, <1>5, DeviceTypes DEF SkipTill
  <2>2. last' \in [2..3 -> Nat] /\ pc' \in {"skip_till", "resync", "store", "loop", "hung"}
        /\ eof' \in BOOLEAN
    BY <1>0, <1>5, <1>a DEF SkipTill, LocalsOK
  <2> QED
    BY <1>0, <1>5, <2>1, <2>2 DEF SkipTill, fileVars, FilesTypeOK, LocalsOK, Bounds
<1>6. CASE Loop
  BY <1>0, <1>6, DeviceTypes DEF Loop, fileVars, FilesTypeOK, LocalsOK, Bounds, Logs
<1>7. CASE ReadPiece
  <2>1. DeviceTypeOK'
    BY <1>0, <1>7, DeviceTypes DEF ReadPiece
  <2>2. value' \in Val /\ pc' \in {"store", "resync"} /\ log' = 1
    BY <1>0, <1>7 DEF ReadPiece, LocalsOK, Val
  <2> QED
    BY <1>0, <1>7, <2>1, <2>2 DEF ReadPiece, fileVars, FilesTypeOK, LocalsOK, Bounds, Logs
<1>8. CASE ReadEnd
  BY <1>0, <1>8, DeviceTypes DEF ReadEnd, fileVars, FilesTypeOK, LocalsOK, Bounds, Logs
<1>9. CASE StoreReading
  <2>1. FilesTypeOK'
    BY <1>0, <1>9, WriteLogFacts DEF StoreReading, LocalsOK, Logs
  <2>2. pc' \in {"store", "loop"} /\ log' \in Logs
    BY <1>0, <1>9, GoOnFacts DEF StoreReading, LocalsOK, Logs
  <2> QED
    BY <1>0, <1>9, <2>1, <2>2, DeviceTypes DEF StoreReading, LocalsOK, Bounds
<1>10. CASE StoreAverage
  <2> DEFINE matching == MatchingVals(log - 1, Period[log])
  <2>1. log \in Logs /\ log - 1 \in Logs
    BY <1>0, <1>10 DEF StoreAverage, LocalsOK, Logs
  <2>2. ASSUME matching = {} PROVE FilesTypeOK' /\ last' \in [2..3 -> Nat]
    <3>1. LoseCursor(log - 1) /\ UNCHANGED last
      BY <1>10, <2>2 DEF StoreAverage
    <3>2. /\ pos' = [pos EXCEPT ![log - 1] = Len(file[log - 1])]
          /\ UNCHANGED <<now, file, first>>
      BY <3>1 DEF LoseCursor
    <3>3. pos' \in [Logs -> Nat] /\ \A l \in Logs : pos'[l] <= Len(file[l])
      BY <1>a, <2>1, <3>2
    <3>4. FilesTypeOK'
      BY <1>a, <3>2, <3>3 DEF FilesTypeOK
    <3> QED
      BY <1>0, <3>1, <3>4 DEF LocalsOK
  <2>3. ASSUME matching # {} PROVE FilesTypeOK' /\ last' \in [2..3 -> Nat]
    <3>1. WriteLog(log, Mean(matching)) /\ last' = [last EXCEPT ![log] = now]
      BY <1>10, <2>3 DEF StoreAverage
    <3>2. FilesTypeOK'
      <4> HIDE DEF matching
      <4> QED
        BY <1>0, <2>1, <3>1, MeanType, WriteLogFacts
    <3>3. last' \in [2..3 -> Nat]
      BY <1>0, <1>a, <3>1 DEF LocalsOK
    <3> QED
      BY <3>2, <3>3
  <2>4. FilesTypeOK' /\ last' \in [2..3 -> Nat]
    <3> HIDE DEF matching
    <3> QED
      BY <2>2, <2>3
  <2>5. pc' \in {"store", "loop"} /\ log' \in Logs
    BY <1>0, <1>10, GoOnFacts DEF StoreAverage, LocalsOK, Logs
  <2> QED
    BY <1>0, <1>10, <2>4, <2>5, DeviceTypes DEF StoreAverage, LocalsOK, Bounds
<1>11. CASE SwapNothing
  <2>1. CASE log < 3
    <3>1. log' = log + 1 /\ pc' = "swap"
          /\ UNCHANGED <<fileVars, running, eof, value, last, r, w, buf, deviceVars, starts, torn>>
      BY <1>11, <2>1 DEF SwapNothing
    <3> QED
      BY <1>0, <2>1, <3>1, DeviceTypes DEF fileVars, FilesTypeOK, LocalsOK, Bounds, Logs
  <2>2. CASE ~(log < 3)
    <3>1. pc' = "off" /\ CloseLogs /\ Locals /\ UNCHANGED <<deviceVars, starts, torn>>
      BY <1>11, <2>2 DEF SwapNothing
    <3>2. FilesTypeOK'
      BY <1>a, <3>1 DEF CloseLogs, FilesTypeOK, NoEntry
    <3>3. LocalsOK'
      BY <1>0, <3>1, LocalsReset DEF LocalsOK
    <3> QED
      BY <1>0, <3>1, <3>2, <3>3, DeviceTypes DEF Bounds
  <2> QED
    BY <2>1, <2>2
<1>12. CASE SwapStart
  <2>1. log \in Logs /\ pos[log] < Len(file[log])
    BY <1>0, <1>12, <1>a DEF SwapStart, AtFileEnd, LocalsOK
  <2>2. buf' \in Seq(Line) /\ Len(buf') = pos[log]
    <3>1. buf' = SubSeq(file[log], 1, pos[log])
      BY <1>12 DEF SwapStart, Before
    <3>2. \A i \in 1..pos[log] : file[log][i] \in Line
      BY <1>a, <2>1, ElementOfSeq
    <3> QED
      BY <1>a, <2>1, <3>1, <3>2, SubSeqProperties
  <2>3. Bounds'
    BY <1>12, <1>a, <2>1, <2>2 DEF SwapStart, fileVars, Bounds
  <2> QED
    BY <1>0, <1>12, <2>2, <2>3, DeviceTypes DEF SwapStart, fileVars, FilesTypeOK, LocalsOK
<1>13. CASE SwapChunk
  <2> DEFINE n == IF Remaining < Chunk THEN Remaining ELSE Chunk
  <2>1. /\ log \in Logs /\ pos[log] < Len(file[log]) /\ w \in Nat /\ Remaining \in Nat
        /\ Len(buf) = pos[log]
    BY <1>0, <1>13, <1>a DEF SwapChunk, Remaining, Bounds, LocalsOK
  <2>2. n \in Nat /\ pos[log] + w + n <= Len(file[log])
    BY <1>a, <2>1, FileLoggerAssumption DEF Remaining
  <2>3. ShiftChunk(log, pos[log], w, n) /\ w' = w + n
    BY <1>13 DEF SwapChunk
  <2> HIDE DEF n
  <2>4. FilesTypeOK' /\ pos' = pos /\ Len(file'[log]) = Len(file[log])
    BY <1>0, <1>a, <2>1, <2>2, <2>3, ShiftChunkFacts
  <2>5. Bounds'
    BY <1>13, <1>a, <2>1, <2>2, <2>3, <2>4 DEF SwapChunk, Bounds
  <2>6. LocalsOK'
    BY <1>0, <1>13, <2>1, <2>2, <2>3 DEF SwapChunk, LocalsOK
  <2> QED
    BY <1>0, <1>13, <2>4, <2>5, <2>6, DeviceTypes DEF SwapChunk
<1>14. CASE SwapDone
  <2>1. log \in Logs /\ buf \in Seq(Line) /\ Len(buf) <= Len(file[log])
    BY <1>0, <1>14, <1>a DEF SwapDone, Bounds, LocalsOK
  <2>2. FilesTypeOK'
    BY <1>0, <1>14, <2>1, PutBehindFacts DEF SwapDone
  <2>3. LocalsOK'
    <3>1. <<>> \in Seq(Line)
      BY EmptySeq
    <3> QED
      BY <1>0, <1>14, <3>1 DEF SwapDone, LocalsOK
  <2> QED
    BY <1>0, <1>14, <2>2, <2>3, DeviceTypes DEF SwapDone, Bounds
<1>15. CASE Advance
  BY <1>0, <1>15, <1>a, DeviceTypes DEF Advance, loggerVars, FilesTypeOK, LocalsOK, Bounds
<1>16. CASE Interrupt
  BY <1>0, <1>16, DeviceTypes DEF Interrupt, fileVars, FilesTypeOK, LocalsOK, Bounds
<1>17. CASE Crash
  <2>1. FilesTypeOK'
    BY <1>17, <1>a DEF Crash, CloseLogs, FilesTypeOK, NoEntry
  <2>2. torn' \in [Logs -> BOOLEAN]
    BY <1>0, <1>17 DEF Crash, LocalsOK
  <2>3. LocalsOK'
    BY <1>0, <1>17, <2>2, LocalsReset DEF Crash, LocalsOK
  <2> QED
    BY <1>0, <1>17, <2>1, <2>3, DeviceTypes DEF Crash, Bounds
<1>18. CASE EmulatorNext
  <2>1. DeviceTypeOK'
    BY <1>0, <1>18, DeviceTypes DEF EmulatorNext, Emulate
  <2> QED
    BY <1>0, <1>18, <2>1 DEF EmulatorNext, fileVars, loggerVars, FilesTypeOK, LocalsOK, Bounds
<1>19. CASE UNCHANGED vars
  BY <1>0, <1>19, DeviceTypes DEF vars, deviceVars, loggerVars, FilesTypeOK, LocalsOK, Bounds, DeviceTypeOK
<1> QED
  BY <1>1, <1>2, <1>3, <1>4, <1>5, <1>6, <1>7, <1>8, <1>9, <1>10, <1>11, <1>12, <1>13, <1>14,
     <1>15, <1>16, <1>17, <1>18, <1>19 DEF Next, LoggerStep, Ended

\* Every variable keeps its type, whatever the device sends, and however often and
\* wherever the logger is killed.
THEOREM TypeCorrect == Spec => []TypeOK
<1>1. Init => TypeOK /\ Bounds
  BY TypeInit
<1>2. TypeOK /\ Bounds /\ [Next]_vars => (TypeOK /\ Bounds)'
  BY TypeStep
<1> QED
  BY <1>1, <1>2, PTL DEF Spec

-----------------------------------------------------------------------------
\* Where the lines after a step come from: from before, or they are new.
New(line) ==
  /\ pc = "store" /\ line.date = now
  /\ \/ log = 1 /\ line.val = value
     \/ log \in 2..3 /\ line.val = Mean(MatchingVals(log - 1, Period[log]))

LEMMA LinesFrom ==
  ASSUME TypeOK, Bounds, [Next]_vars
  PROVE  /\ \A l \in Logs : \A i \in 1..Len(file'[l]) :
              \/ Among(file'[l][i], file[l]) \/ Among(file'[l][i], buf)
              \/ New(file'[l][i])
         /\ \A i \in 1..Len(buf') : Among(buf'[i], buf) \/ Among(buf'[i], file[log])
<1> DEFINE Files == \A l \in Logs : \A i \in 1..Len(file'[l]) :
                      \/ Among(file'[l][i], file[l]) \/ Among(file'[l][i], buf)
                      \/ New(file'[l][i])
           Buf == \A i \in 1..Len(buf') : Among(buf'[i], buf) \/ Among(buf'[i], file[log])
<1>0. FilesTypeOK /\ LocalsOK
  BY DEF TypeOK, LocalsOK
<1>a. /\ file \in [Logs -> Seq(Line)] /\ pos \in [Logs -> Nat]
      /\ \A l \in Logs : Len(file[l]) \in Nat /\ pos[l] <= Len(file[l])
  BY <1>0, FilesTypes
<1>b. UNCHANGED file => Files
  BY DEF Among
<1>c. buf' \in {buf, <<>>} => Buf
  BY DEF Among
<1>d. ASSUME NEW l \in Logs, OthersKept(l),
             \A i \in 1..Len(file'[l]) : \/ Among(file'[l][i], file[l])
                                          \/ Among(file'[l][i], buf) \/ New(file'[l][i])
      PROVE  Files
  BY <1>d DEF Among, OthersKept
<1>1. CASE PruneLine
  <2>1. w < r + 1 /\ r + 1 \in 1..Len(file[log]) /\ w \in Nat /\ log \in Logs
    BY <1>0, <1>1, <1>a DEF PruneLine, Bounds, LocalsOK
  <2>2. CASE MoveUp(log, w, r + 1)
    <3>1. /\ OthersKept(log) /\ Len(file'[log]) = Len(file[log])
          /\ \A j \in 1..Len(file[log]) :
               file'[log][j] = IF j = w + 1 THEN file[log][r + 1] ELSE file[log][j]
      BY <1>0, <2>1, <2>2, MoveUpFacts
    <3>2. \A i \in 1..Len(file'[log]) : Among(file'[log][i], file[log])
      BY <2>1, <3>1 DEF Among
    <3>3. Files
      BY <1>d, <2>1, <3>1, <3>2
    <3> QED
      BY <1>1, <1>c, <3>3 DEF PruneLine
  <2>3. CASE UNCHANGED fileVars
    BY <1>1, <1>b, <1>c, <2>3 DEF PruneLine, fileVars
  <2> QED
    BY <1>1, <2>2, <2>3 DEF PruneLine
<1>2. CASE PruneDone
  <2>1. w \in 0..Len(file[log]) /\ log \in Logs
    BY <1>0, <1>2, <1>a DEF PruneDone, Bounds, LocalsOK
  <2>2. /\ OthersKept(log) /\ Len(file'[log]) = w
        /\ \A j \in 1..w : file'[log][j] = file[log][j]
    BY <1>0, <1>2, <2>1, CutFacts DEF PruneDone
  <2>3. \A i \in 1..Len(file'[log]) : i \in 1..Len(file[log]) /\ file'[log][i] = file[log][i]
    BY <1>a, <2>1, <2>2
  <2>4. \A i \in 1..Len(file'[log]) : Among(file'[log][i], file[log])
    BY <2>3 DEF Among
  <2>5. Files
    BY <1>d, <2>1, <2>2, <2>4
  <2> QED
    BY <1>2, <1>c, <2>5 DEF PruneDone
<1>3. ASSUME NEW l \in Logs, NEW val \in Val, WriteLog(l, val), UNCHANGED buf,
             New([date |-> now, val |-> val])
      PROVE  Files /\ Buf
  <2>1. /\ OthersKept(l) /\ file'[l][pos'[l]] = [date |-> now, val |-> val]
        /\ \A j \in 1..Len(file'[l]) :
             j # pos'[l] => j <= Len(file[l]) /\ file'[l][j] = file[l][j]
    BY <1>0, <1>3, WriteLogFacts
  <2>2. ASSUME NEW i \in 1..Len(file'[l])
        PROVE  Among(file'[l][i], file[l]) \/ New(file'[l][i])
    <3>1. CASE i = pos'[l]
      BY <1>3, <2>1, <3>1
    <3>2. CASE i # pos'[l]
      BY <1>a, <2>1, <3>2 DEF Among
    <3> QED
      BY <3>1, <3>2
  <2>3. Files
    BY <1>d, <2>1, <2>2
  <2> QED
    BY <1>3, <1>c, <2>3
<1>4. CASE StoreReading
  <2>1. New([date |-> now, val |-> value]) /\ 1 \in Logs /\ value \in Val
    BY <1>0, <1>4 DEF StoreReading, New, LocalsOK, Logs
  <2> QED
    BY <1>3, <1>4, <2>1 DEF StoreReading
<1>5. CASE StoreAverage
  <2> DEFINE matching == MatchingVals(log - 1, Period[log])
  <2>1. CASE matching = {}
    BY <1>5, <1>b, <1>c, <2>1 DEF StoreAverage, LoseCursor
  <2>2. CASE matching # {}
    <3>1. New([date |-> now, val |-> Mean(matching)]) /\ log \in Logs
      BY <1>0, <1>5 DEF StoreAverage, New, LocalsOK, Logs
    <3>2. WriteLog(log, Mean(matching)) /\ UNCHANGED buf
      BY <1>5, <2>2 DEF StoreAverage
    <3> HIDE DEF matching
    <3> QED
      BY <1>3, <3>1, <3>2, MeanType
  <2> QED
    BY <2>1, <2>2
<1>6. CASE SwapNothing
  <2>1. UNCHANGED file /\ buf' \in {buf, <<>>}
    BY <1>6 DEF SwapNothing, CloseLogs, Locals, fileVars
  <2> QED
    BY <1>b, <1>c, <2>1
<1>7. CASE SwapStart
  <2>1. log \in Logs /\ buf' = SubSeq(file[log], 1, pos[log])
    BY <1>0, <1>7 DEF SwapStart, Before, LocalsOK
  <2>2. \A i \in 1..pos[log] : i \in 1..Len(file[log]) /\ file[log][i] \in Line
    BY <1>a, <2>1, ElementOfSeq
  <2>3. Len(buf') = pos[log] /\ \A i \in 1..pos[log] : buf'[i] = file[log][i]
    BY <1>a, <2>1, <2>2, SubSeqProperties
  <2>4. Buf
    BY <2>2, <2>3 DEF Among
  <2> QED
    BY <1>7, <1>b, <2>4 DEF SwapStart, fileVars
<1>8. CASE SwapChunk
  <2> DEFINE n == IF Remaining < Chunk THEN Remaining ELSE Chunk
  <2>1. /\ log \in Logs /\ pos[log] < Len(file[log]) /\ w \in Nat /\ Remaining \in Nat
    BY <1>0, <1>8, <1>a DEF SwapChunk, Remaining, Bounds, LocalsOK
  <2>2. n \in Nat /\ pos[log] + w + n <= Len(file[log])
    BY <1>a, <2>1, FileLoggerAssumption DEF Remaining
  <2>3. ShiftChunk(log, pos[log], w, n) /\ UNCHANGED buf
    BY <1>8 DEF SwapChunk
  <2> HIDE DEF n
  <2>4. /\ OthersKept(log) /\ Len(file'[log]) = Len(file[log])
        /\ \A i \in 1..Len(file[log]) : file'[log][i] =
             IF w < i /\ i <= w + n THEN file[log][i + pos[log]] ELSE file[log][i]
    BY <1>0, <1>a, <2>1, <2>2, <2>3, ShiftChunkFacts
  <2>5. ASSUME NEW i \in 1..Len(file'[log]) PROVE Among(file'[log][i], file[log])
    <3>1. CASE w < i /\ i <= w + n
      <4>1. i + pos[log] \in 1..Len(file[log])
        BY <1>a, <2>1, <2>2, <2>4, <3>1
      <4> QED
        BY <2>4, <3>1, <4>1 DEF Among
    <3>2. CASE ~(w < i /\ i <= w + n)
      BY <2>4, <3>2 DEF Among
    <3> QED
      BY <3>1, <3>2
  <2>6. Files
    BY <1>d, <2>1, <2>4, <2>5
  <2> QED
    BY <1>c, <2>3, <2>6
<1>9. CASE SwapDone
  <2>1. log \in Logs /\ buf \in Seq(Line) /\ Len(buf) <= Len(file[log]) /\ Len(buf) \in Nat
    BY <1>0, <1>9, <1>a, LenProperties DEF SwapDone, Bounds, LocalsOK
  <2> DEFINE start == Len(file[log]) - Len(buf)
  <2>2. /\ OthersKept(log) /\ Len(file'[log]) = Len(file[log])
        /\ \A i \in 1..Len(file[log]) :
             file'[log][i] = IF i > start THEN buf[i - start] ELSE file[log][i]
    BY <1>0, <1>9, <2>1, PutBehindFacts DEF SwapDone
  <2>3. ASSUME NEW i \in 1..Len(file'[log])
        PROVE  Among(file'[log][i], file[log]) \/ Among(file'[log][i], buf)
    <3>1. CASE i > start
      <4>1. i - start \in 1..Len(buf)
        BY <1>a, <2>1, <2>2, <3>1
      <4> QED
        BY <2>2, <3>1, <4>1 DEF Among
    <3>2. CASE ~(i > start)
      BY <2>2, <3>2 DEF Among
    <3> QED
      BY <3>1, <3>2
  <2>4. Files
    BY <1>d, <2>1, <2>2, <2>3
  <2> QED
    BY <1>9, <1>c, <2>4 DEF SwapDone
<1>10. CASE Start \/ Crash
  BY <1>10, <1>b, <1>c DEF Start, Crash, InitLogs, CloseLogs, Locals
<1>11. CASE SkipOld \/ SkipTill \/ Loop \/ ReadPiece \/ ReadEnd \/ Advance \/ Interrupt
            \/ EmulatorNext \/ UNCHANGED vars
  BY <1>11, <1>b, <1>c DEF SkipOld, SkipTill, Loop, ReadPiece, ReadEnd, Advance, Interrupt,
     EmulatorNext, vars, fileVars, loggerVars
<1> QED
  BY <1>1, <1>2, <1>4, <1>5, <1>6, <1>7, <1>8, <1>9, <1>10, <1>11 DEF Next, LoggerStep, Ended

-----------------------------------------------------------------------------
(* Framing.                                                                 *)

LEMMA StreamFacts ==
  ASSUME stream \in Streams, stream # <<>>
  PROVE  /\ Tail(stream) \in {<<>>, <<"tail">>}
         /\ Delimited(Head(stream)) => Tail(stream) = <<>>
         /\ Head(stream) = "tail" => stream = <<"tail">>
         /\ Head(stream) \in {"whole", "noise", "short", "tail", "head"}
         /\ <<Rest(Head(stream))>> \o Tail(stream) \in Streams
<1>1. CASE stream = <<"head", "tail">>
  <2>1. Head(stream) = "head" /\ Tail(stream) = <<"tail">>
    BY <1>1
  <2>2. <<"head">> \o <<"tail">> = <<"head", "tail">>
    <3> DEFINE S == {"head", "tail"}
               both == <<"head">> \o <<"tail">>
    <3>1. <<"head">> \in Seq(S) /\ <<"tail">> \in Seq(S) /\ <<"head", "tail">> \in Seq(S)
      OBVIOUS
    <3>2. both \in Seq(S) /\ Len(both) = 2 /\ both[1] = "head" /\ both[2] = "tail"
      BY <3>1, ConcatProperties
    <3>3. \A i \in 1..2 : both[i] = <<"head", "tail">>[i]
      BY <3>2
    <3> HIDE DEF both
    <3> QED
      BY <3>1, <3>2, <3>3, SeqEqual DEF both
  <2> QED
    BY <2>1, <2>2 DEF Delimited, Rest, Streams
<1>2. ASSUME NEW piece \in {"whole", "noise", "short", "tail"}, stream = <<piece>>
      PROVE  /\ Head(stream) = piece /\ Tail(stream) = <<>>
             /\ <<Rest(piece)>> \o Tail(stream) = <<"tail">>
  <2>1. <<"tail">> \in Seq({"tail"})
    OBVIOUS
  <2>2. <<"tail">> \o <<>> = <<"tail">>
    BY <2>1, ConcatEmptySeq
  <2> QED
    BY <1>2, <2>2 DEF Rest, Delimited
<1>3. stream # <<"head", "tail">> =>
        \E piece \in {"whole", "noise", "short", "tail"} : stream = <<piece>>
  BY DEF Streams
<1> QED
  BY <1>1, <1>2, <1>3 DEF Delimited, Streams

LEMMA FramingInit ==
  ASSUME Init
  PROVE  Framing
<1>1. \A l \in Logs : WholeLines(file[l])
  BY FileLoggerAssumption DEF Init, WholeLines
<1>2. WholeLines(<<>>)
  BY DEF WholeLines
<1> QED
  BY <1>1, <1>2 DEF Init, DeviceInit, Framing, Streams

LEMMA FramingStep ==
  ASSUME TypeOK, Bounds, Framing, [Next]_vars
  PROVE  Framing'
<1>a. /\ stream \in Streams
      /\ pc \in {"loop", "read", "store"} => stream # <<"tail">>
      /\ value # "fragment"
      /\ \A l \in Logs : WholeLines(file[l])
      /\ WholeLines(buf)
      /\ log \in Logs
  BY DEF Framing, TypeOK
<1>b. \A l \in Logs : WholeLines(file'[l])
  <2>1. \A l \in Logs : "fragment" \notin MatchingVals(l, Period[log])
    BY <1>a DEF MatchingVals, Matching, WholeLines
  <2>2. log \in 2..3 => Mean(MatchingVals(log - 1, Period[log])) # "fragment"
    BY <2>1 DEF Mean, Logs
  <2> QED
    BY <1>a, <2>2, LinesFrom DEF WholeLines, Among, New
<1>c. WholeLines(buf')
  BY <1>a, LinesFrom DEF WholeLines, Among
<1> SUFFICES /\ stream' \in Streams
             /\ pc' \in {"loop", "read", "store"} => stream' # <<"tail">>
             /\ value' # "fragment"
  BY <1>b, <1>c DEF Framing, WholeLines
<1>1. CASE SkipOld
  BY <1>1, <1>a, StreamFacts DEF SkipOld, Take, Streams, deviceVars
<1>2. CASE SkipTill
  <2>1. CASE eof \/ AtEnd
    BY <1>2, <1>a, <2>1 DEF SkipTill, deviceVars
  <2>2. CASE ~(eof \/ AtEnd)
    <3>1. stream # <<>> /\ stream' = Tail(stream) /\ value' = value
          /\ (pc' \in {"loop", "store"} => Delimited(Head(stream)))
      BY <1>2, <2>2 DEF SkipTill, Take
    <3>2. stream' \in Streams /\ (pc' \in {"loop", "store"} => stream' # <<"tail">>)
          /\ pc' # "read"
      BY <1>2, <1>a, <2>2, <3>1, StreamFacts DEF Streams, SkipTill
    <3> QED
      BY <1>a, <3>1, <3>2
  <2> QED
    BY <2>1, <2>2
<1>3. CASE ReadPiece
  <2>1. stream # <<>> /\ stream' = Tail(stream) /\ Head(stream) # "tail"
    BY <1>3, <1>a, StreamFacts DEF ReadPiece, Take
  <2>2. value' # "fragment"
    BY <1>3, <1>a, <2>1 DEF ReadPiece
  <2>3. pc' = "store" => Delimited(Head(stream))
    BY <1>3 DEF ReadPiece, Delimited
  <2>4. pc' \in {"store", "resync"}
    BY <1>3 DEF ReadPiece
  <2>5. Tail(stream) \in Streams /\ (pc' = "store" => Tail(stream) = <<>>)
    BY <1>a, <2>1, <2>3, StreamFacts DEF Streams
  <2> QED
    BY <2>1, <2>2, <2>4, <2>5
<1>4. CASE EmulatorNext
  <2>1. stream' \in Streams /\ (stream' # <<"tail">> \/ stream' = stream)
    <3>1. CASE Send
      <4>1. PICK message \in Messages : stream' = Pieces(message)
        BY <3>1 DEF Send
      <4>2. message \in {"whole", "noise", "long", "short"}
        BY DeviceAssumption
      <4> QED
        BY <4>1, <4>2 DEF Pieces, Streams
    <3>2. CASE Close \/ Open
      BY <1>a, <3>2 DEF Close, Open
    <3> QED
      BY <1>4, <3>1, <3>2 DEF EmulatorNext, Emulate
  <2> QED
    BY <1>4, <1>a, <2>1 DEF EmulatorNext, loggerVars
<1>5. CASE Start \/ Crash \/ SwapNothing
  BY <1>5, <1>a DEF Start, Crash, SwapNothing, Locals, deviceVars
<1>6. CASE PruneLine \/ PruneDone \/ SwapStart \/ SwapChunk \/ SwapDone \/ Loop \/ ReadEnd
           \/ StoreReading \/ StoreAverage
  BY <1>6, <1>a DEF PruneLine, PruneDone, SwapStart, SwapChunk, SwapDone, Loop, ReadEnd,
     StoreReading, StoreAverage, deviceVars
<1>7. CASE Advance \/ Interrupt \/ UNCHANGED vars
  BY <1>7, <1>a DEF Advance, Interrupt, vars, deviceVars, loggerVars
<1> QED
  BY <1>1, <1>2, <1>3, <1>4, <1>5, <1>6, <1>7 DEF Next, LoggerStep, Ended

\* No part of a message is ever logged as a reading: whatever is sent, the main loop
\* is between two messages whenever it reads or stores.
THEOREM WholeMessages == Spec => []NoFragmentLogged
<1>1. Init => TypeOK /\ Bounds /\ Framing
  BY TypeInit, FramingInit
<1>2. TypeOK /\ Bounds /\ Framing /\ [Next]_vars => (TypeOK /\ Bounds /\ Framing)'
  BY TypeStep, FramingStep
<1>3. Framing => NoFragmentLogged
  BY DEF Framing, WholeLines, NoFragmentLogged
<1> QED
  BY <1>1, <1>2, <1>3, PTL DEF Spec

-----------------------------------------------------------------------------
(* Dates and timers.                                                        *)

LEMMA PastInit ==
  ASSUME Init
  PROVE  Past
<1>1. \A l \in Logs : PastLines(file[l])
  BY FileLoggerAssumption DEF Init, PastLines
<1>2. PastLines(<<>>)
  BY DEF PastLines
<1> QED
  BY <1>1, <1>2 DEF Init, Past

LEMMA PastStep ==
  ASSUME TypeOK, Bounds, Past, [Next]_vars
  PROVE  Past'
<1>a. /\ \A l \in Logs : PastLines(file[l])
      /\ PastLines(buf) /\ log \in Logs /\ now \in Nat
      /\ \A l \in Logs : \A i \in 1..Len(file[l]) : file[l][i].date \in Int
      /\ \A i \in 1..Len(buf) : buf[i].date \in Int
      /\ last \in [2..3 -> Nat] /\ \A k \in 2..3 : last[k] <= now
  <2>1. \A l \in Logs : \A i \in 1..Len(file[l]) : file[l][i] \in Line
    BY FilesTypes DEF TypeOK
  <2>2. \A i \in 1..Len(buf) : buf[i] \in Line
    BY ElementOfSeq DEF TypeOK
  <2>3. \A line \in Line : line.date \in Int
    BY DEF Line, NoDate
  <2>4. log \in Logs /\ now \in Nat /\ last \in [2..3 -> Nat]
    BY DEF TypeOK, FilesTypeOK
  <2> QED
    BY <2>1, <2>2, <2>3, <2>4 DEF Past
<1>b. now' \in Nat /\ now <= now'
  <2>1. UNCHANGED now \/ Advance
    <3>1. CASE StoreReading
      BY <3>1 DEF StoreReading, WriteLog
    <3>2. CASE StoreAverage
      BY <3>2 DEF StoreAverage, WriteLog, LoseCursor
    <3> QED
      BY <3>1, <3>2 DEF Next, LoggerStep, Start, InitLogs, PruneLine, MoveUp, PruneDone, Cut,
         SkipOld, SkipTill, Loop, ReadPiece, ReadEnd, SwapNothing, CloseLogs, SwapStart,
         SwapChunk, ShiftChunk, SwapDone, PutBehind, Interrupt, Crash, EmulatorNext, Ended,
         vars, fileVars
  <2> QED
    BY <1>a, <2>1 DEF Advance
<1>c. \A l \in Logs : PastLines(file[l])'
  <2> SUFFICES ASSUME NEW l \in Logs, NEW i \in 1..Len(file'[l])
               PROVE  file'[l][i].date <= now'
    BY DEF PastLines
  <2>1. \/ Among(file'[l][i], file[l]) \/ Among(file'[l][i], buf) \/ file'[l][i].date = now
    BY LinesFrom DEF New
  <2>2. file'[l][i].date \in Int /\ file'[l][i].date <= now
    <3>1. CASE Among(file'[l][i], file[l])
      BY <1>a, <3>1 DEF Among, PastLines
    <3>2. CASE Among(file'[l][i], buf)
      BY <1>a, <3>2 DEF Among, PastLines
    <3>3. CASE file'[l][i].date = now
      BY <1>a, <3>3
    <3> QED
      BY <2>1, <3>1, <3>2, <3>3
  <2> QED
    BY <1>a, <1>b, <2>2
<1>d. PastLines(buf)'
  <2> SUFFICES ASSUME NEW i \in 1..Len(buf')
               PROVE  buf'[i].date <= now'
    BY DEF PastLines
  <2>1. Among(buf'[i], buf) \/ Among(buf'[i], file[log])
    BY LinesFrom
  <2>2. buf'[i].date \in Int /\ buf'[i].date <= now
    BY <1>a, <2>1 DEF Among, PastLines
  <2> QED
    BY <1>a, <1>b, <2>2
<1>e. \A k \in 2..3 : last'[k] \in {last[k], 0, now}
  <2>1. CASE Start \/ Crash \/ SwapNothing
    BY <2>1 DEF Start, Crash, SwapNothing, Locals
  <2>2. CASE SkipTill
    BY <2>2 DEF SkipTill
  <2>3. CASE StoreAverage
    BY <1>a, <2>3 DEF StoreAverage
  <2>4. CASE UNCHANGED last
    BY <2>4
  <2> QED
    BY <2>1, <2>2, <2>3, <2>4 DEF Next, LoggerStep, PruneLine, PruneDone, SkipOld, Loop, ReadPiece,
       ReadEnd, StoreReading, SwapStart, SwapChunk, SwapDone, Advance, Interrupt, EmulatorNext,
       Ended, vars, loggerVars
<1>f. \A k \in 2..3 : last'[k] <= now'
  BY <1>a, <1>b, <1>e
<1> QED
  BY <1>c, <1>d, <1>f DEF Past, PastLines

\* The property, by a line it finds.
LEMMA NonEmptyMatching ==
  ASSUME TypeOK, Averages, pc = "store", log \in 2..3
  PROVE  \E i \in 1..Len(file[log - 1]) : i \in Matching(log - 1, Period[log])
<1>1. now \in Nat /\ Period[2] \in Nat
  BY FileLoggerAssumption DEF TypeOK, FilesTypeOK
<1>2. CASE log = 2
  <2>1. PICK i \in 1..Len(file[1]) : file[1][i].date = now
    BY <1>2 DEF Averages, HasDate
  <2>2. i \in Matching(1, Period[2])
    BY <1>1, <2>1 DEF Matching, NoDate
  <2> QED
    BY <1>2, <2>2
<1>3. CASE log = 3
  <2>1. PICK i \in 1..Len(file[2]) : file[2][i].date # NoDate /\ now - file[2][i].date <= Period[3]
    BY <1>3 DEF Averages
  <2>2. i \in Matching(2, Period[3])
    BY <2>1 DEF Matching
  <2> QED
    BY <1>3, <2>2
<1> QED
  BY <1>2, <1>3

LEMMA AveragesStep ==
  ASSUME TypeOK, Bounds, Past, Averages, [Next]_vars
  PROVE  Averages'
<1>0. FilesTypeOK /\ LocalsOK
  BY DEF TypeOK, LocalsOK
<1>a. /\ now \in Nat /\ last \in [2..3 -> Nat] /\ log \in Logs
      /\ \A k \in 2..3 : last[k] <= now
      /\ Period[2] \in Nat /\ Period[3] \in Nat /\ Period[2] <= Period[3]
  BY FileLoggerAssumption DEF TypeOK, FilesTypeOK, Past
<1>b. ASSUME NEW l \in Logs, NEW val \in Val, WriteLog(l, val)
      PROVE  /\ HasDate(file'[l], now) /\ now' = now /\ now # NoDate
             /\ \A k \in Logs \ {l} : file'[k] = file[k]
  <2>1. /\ pos'[l] \in 1..Len(file'[l]) /\ now' = now /\ OthersKept(l)
        /\ file'[l][pos'[l]] = [date |-> now, val |-> val]
    BY <1>0, <1>b, WriteLogFacts
  <2>2. file'[l][pos'[l]].date = now
    BY <2>1
  <2>3. HasDate(file'[l], now)
    BY <2>1, <2>2 DEF HasDate
  <2> QED
    BY <1>a, <2>1, <2>3 DEF OthersKept, NoDate
<1>1. CASE StoreReading
  <2>1. log = 1 /\ pc = "store" /\ WriteLog(1, value) /\ value \in Val /\ 1 \in Logs /\ last' = last
    BY <1>0, <1>1 DEF StoreReading, LocalsOK, Logs
  <2>2. HasDate(file'[1], now) /\ now' = now /\ file'[2] = file[2]
    BY <1>b, <2>1 DEF Logs
  <2>3. last[2] <= last[3] \/ HasDate(file[2], last[2])
    BY <2>1 DEF Averages, Main
  <2>4. pc' \in {"store", "loop"} /\ pc' \notin {"prune", "resync"}
    BY <1>a, <1>1, GoOnFacts DEF StoreReading
  <2>5. ASSUME pc' = "store", log' = 3
        PROVE  \E i \in 1..Len(file[2]) :
                 file[2][i].date # NoDate /\ now - file[2][i].date <= Period[3]
    <3>1. Due(3) /\ ~Due(2)
      BY <1>a, <1>1, <2>1, <2>5, GoOnFacts DEF StoreReading
    <3>2. now - last[3] >= Period[3] /\ now - last[2] < Period[2]
      BY <1>a, <3>1 DEF Due
    <3>3. HasDate(file[2], last[2])
      BY <1>a, <2>3, <3>2
    <3>4. PICK i \in 1..Len(file[2]) : file[2][i].date = last[2]
      BY <3>3 DEF HasDate
    <3>5. file[2][i].date # NoDate /\ now - file[2][i].date <= Period[3]
      BY <1>a, <3>2, <3>4 DEF NoDate
    <3> QED
      BY <3>5
  <2> QED
    BY <2>1, <2>2, <2>3, <2>4, <2>5 DEF Averages, HasDate
<1>2. CASE StoreAverage
  <2> DEFINE matching == MatchingVals(log - 1, Period[log])
  <2>1. log \in 2..3 /\ pc = "store" /\ log - 1 \in Logs
    BY <1>a, <1>2 DEF StoreAverage, Logs
  <2>2. matching # {}
    <3>1. \E i \in 1..Len(file[log - 1]) : i \in Matching(log - 1, Period[log])
      BY <2>1, NonEmptyMatching
    <3> QED
      BY <3>1 DEF MatchingVals
  <2>3. WriteLog(log, Mean(matching)) /\ last' = [last EXCEPT ![log] = now]
    BY <1>2, <2>2 DEF StoreAverage
  <2> HIDE DEF matching
  <2>4. HasDate(file'[log], now) /\ now' = now /\ (log = 3 => file'[2] = file[2]) /\ now # NoDate
    BY <1>a, <1>b, <2>3, MeanType DEF Logs
  <2>5. pc' \in {"store", "loop"} /\ (pc' = "store" => log' = 3 /\ log = 2)
    BY <1>a, <1>2, <2>1, GoOnFacts DEF StoreAverage
  <2>6. last'[2] <= last'[3] \/ HasDate(file'[2], last'[2])
    <3>1. CASE log = 2
      BY <1>a, <2>3, <2>4, <3>1
    <3>2. CASE log = 3
      BY <1>a, <2>3, <3>2
    <3> QED
      BY <2>1, <3>1, <3>2
  <2>7. ASSUME pc' = "store", log' = 3
        PROVE  \E i \in 1..Len(file'[2]) :
                 file'[2][i].date # NoDate /\ now - file'[2][i].date <= Period[3]
    BY <1>a, <2>4, <2>5, <2>7 DEF HasDate
  <2> QED
    BY <2>4, <2>5, <2>6, <2>7 DEF Averages, HasDate
<1>3. CASE SkipTill
  <2>1. /\ pc' \in {"hung", "skip_till", "resync", "store", "loop"}
        /\ pc' = "resync" \/ pc' = "store" => pc = "resync"
        /\ pc \in {"skip_till", "resync"} /\ UNCHANGED <<now, file, log>>
        /\ last' = last \/ (last'[2] = now /\ last'[3] = now)
    BY <1>3 DEF SkipTill, fileVars
  <2>2. log = 1 \/ (pc' # "resync" /\ pc' # "store")
    BY <2>1 DEF Averages
  <2>3. last'[2] <= last'[3] \/ HasDate(file[2], last'[2])
    BY <1>a, <2>1 DEF Averages, Main
  <2> QED
    BY <2>1, <2>2, <2>3 DEF Averages, HasDate
<1>4. CASE PruneDone
  BY <1>a, <1>4 DEF PruneDone, Averages, Main, HasDate
<1>5. CASE PruneLine
  BY <1>5 DEF PruneLine, Averages, Main
<1>6. CASE Start \/ Crash \/ SwapNothing
  BY <1>6 DEF Start, Locals, Crash, SwapNothing, Averages, Main
<1>7. CASE SwapStart \/ SwapChunk \/ SwapDone
  BY <1>7 DEF SwapStart, SwapChunk, SwapDone, Averages, Main
<1>8. CASE SkipOld \/ Loop \/ ReadPiece \/ ReadEnd
  BY <1>8 DEF SkipOld, Loop, ReadPiece, ReadEnd, fileVars, Averages, Main, HasDate
<1>9. CASE Advance
  BY <1>9 DEF Advance, Reading, loggerVars, Averages, Main, HasDate
<1>10. CASE Interrupt \/ EmulatorNext \/ UNCHANGED vars
  BY <1>10 DEF Interrupt, EmulatorNext, vars, fileVars, loggerVars, Averages, Main, HasDate
<1> QED
  BY <1>1, <1>2, <1>3, <1>4, <1>5, <1>6, <1>7, <1>8, <1>9, <1>10 DEF Next, LoggerStep, Ended

\* No average is taken over nothing, however the timers and the readings fall: the
\* return from get_avg_log that leaves the cursor at the end is never taken.
THEOREM AveragesFind == Spec => []AverageFindsEntries
<1> DEFINE Inv == TypeOK /\ Bounds /\ Past /\ Averages
<1>1. Init => Inv
  BY TypeInit, PastInit DEF Init, Averages, Main
<1>2. Inv /\ [Next]_vars => Inv'
  BY TypeStep, PastStep, AveragesStep
<1>3. Inv => AverageFindsEntries
  BY NonEmptyMatching DEF AverageFindsEntries, TypeOK, Logs
<1> QED
  BY <1>1, <1>2, <1>3, PTL DEF Spec

-----------------------------------------------------------------------------
(* First entries.                                                           *)

LEMMA FirstsStep ==
  ASSUME TypeOK, Bounds, Firsts, [Next]_vars
  PROVE  Firsts'
<1>0. FilesTypeOK /\ LocalsOK
  BY DEF TypeOK, LocalsOK
<1>a. /\ now \in Nat /\ file \in [Logs -> Seq(Line)] /\ pos \in [Logs -> Nat] /\ log \in Logs
      /\ first \in [Logs -> Nat \cup {NoEntry}] /\ Keep \in [Logs -> Nat]
      /\ \A l \in Logs : Len(file[l]) \in Nat /\ pos[l] <= Len(file[l])
      /\ \A l \in Logs : \A i \in 1..Len(file[l]) : file[l][i].date \in Nat \cup {NoDate}
  BY <1>0, FilesTypes, LogFileAssumption DEF LocalsOK, Line
<1>b. \A l \in Logs : file[l] = <<>> <=> Len(file[l]) = 0
  BY <1>a, EmptySeq
<1>1. CASE Start
  <2>1. /\ first' = [l \in Logs |-> FirstEntry(file[l])] /\ file' = file
        /\ pc' = "prune" /\ log' = 1 /\ r' = 0 /\ w' = 0
    BY <1>1 DEF Start, InitLogs, Locals
  <2> QED
    BY <2>1 DEF Firsts, Unknown, Main, Logs
<1>2. CASE PruneLine
  <2>1. /\ pc = "prune" /\ pc' = "prune" /\ log' = log /\ r' = r + 1 /\ r \in Nat /\ w \in Nat
        /\ w <= r /\ r + 1 \in 1..Len(file[log])
    BY <1>0, <1>2, <1>a DEF PruneLine, Bounds, LocalsOK
  <2>2. UNCHANGED <<now, pos, first>> /\ OthersKept(log)
    <3>1. CASE MoveUp(log, w, r + 1)
      BY <1>0, <1>a, <2>1, <3>1, MoveUpFacts
    <3>2. CASE UNCHANGED fileVars
      BY <3>2 DEF fileVars, OthersKept
    <3> QED
      BY <1>2, <3>1, <3>2 DEF PruneLine
  <2>3. Unknown(log)'
    <3> SUFFICES ASSUME w' = 0
                 PROVE  first'[log'] = FirstEntry(file'[log']) /\ Expired(log)'
      BY DEF Unknown
    <3>1. w = 0 /\ file' = file /\ ~Fresh(log, file[log][r + 1])
      BY <1>2, <2>1 DEF PruneLine, fileVars
    <3>2. first[log] = FirstEntry(file[log]) /\ (r > 0 => Expired(log))
      BY <1>a, <2>1, <3>1 DEF Firsts, Unknown
    <3>3. CASE r > 0
      BY <2>1, <2>2, <3>1, <3>2, <3>3 DEF Expired
    <3>4. CASE r = 0
      <4>1. first[log] = file[log][1].date /\ ~Fresh(log, file[log][1])
        BY <1>a, <1>b, <2>1, <3>1, <3>2, <3>4 DEF FirstEntry
      <4>2. Expired(log)
        BY <1>a, <4>1 DEF Fresh, Expired, NoDate, NoEntry
      <4> QED
        BY <2>1, <2>2, <3>1, <3>2, <4>2 DEF Expired
    <3> QED
      BY <2>1, <3>3, <3>4
  <2>4. ASSUME NEW l \in Logs, l < log PROVE Known(l)'
    <3>1. Known(l)
      BY <2>1, <2>4 DEF Firsts
    <3>2. file'[l] = file[l]
      BY <1>a, <2>2, <2>4 DEF OthersKept, Logs
    <3> QED
      BY <2>2, <3>1, <3>2 DEF Known, Expired
  <2>5. ASSUME NEW l \in Logs, l > log PROVE first'[l] = FirstEntry(file'[l])
    BY <1>a, <2>1, <2>2, <2>5 DEF Firsts, OthersKept, Logs
  <2> QED
    BY <2>1, <2>3, <2>4, <2>5 DEF Firsts, Main
<1>3. CASE PruneDone
  <2>1. pc = "prune" /\ w \in 0..Len(file[log]) /\ r = Len(file[log])
    BY <1>0, <1>3, <1>a DEF PruneDone, Bounds, LocalsOK
  <2>2. /\ FilesTypeOK' /\ now' = now /\ OthersKept(log)
        /\ \A j \in Logs \ {log} : pos'[j] = pos[j] /\ first'[j] = first[j]
        /\ Len(file'[log]) = w /\ pos'[log] = w
        /\ \A j \in 1..w : file'[log][j] = file[log][j]
        /\ first'[log] = IF w > 0 THEN file[log][1].date ELSE first[log]
    BY <1>0, <1>3, <1>a, <2>1, CutFacts DEF PruneDone
  <2>3. file'[log] = <<>> <=> w = 0
    <3>1. file'[log] \in Seq(Line)
      BY <1>a, <2>2 DEF FilesTypeOK
    <3> QED
      BY <2>1, <2>2, <3>1, EmptySeq
  <2>4. /\ w > 0 => first'[log] = file'[log][1].date /\ pos'[log] > 0
        /\ w = 0 => now - first'[log] > Keep[log] \/ first'[log] = NoEntry
    <3>1. CASE w > 0
      BY <2>1, <2>2, <3>1
    <3>2. CASE w = 0
      <4>1. first'[log] = first[log] /\ first[log] = FirstEntry(file[log])
            /\ (r > 0 => Expired(log))
        BY <1>a, <2>1, <2>2, <3>2 DEF Firsts, Unknown
      <4>2. r = 0 => first[log] = NoEntry
        BY <1>a, <1>b, <2>1, <4>1 DEF FirstEntry
      <4> QED
        BY <1>a, <2>1, <3>2, <4>1, <4>2 DEF Expired
    <3> QED
      BY <2>1, <3>1, <3>2
  <2>5. ASSUME NEW l \in Logs, l <= log PROVE Known(l)'
    <3>1. CASE l = log
      BY <2>1, <2>2, <2>3, <2>4, <3>1 DEF Known, Expired
    <3>2. CASE l # log
      <4>1. l < log
        BY <1>a, <2>5, <3>2 DEF Logs
      <4>2. Known(l)
        BY <2>1, <4>1 DEF Firsts
      <4> QED
        BY <2>2, <3>2, <4>2 DEF Known, Expired, OthersKept
    <3> QED
      BY <3>1, <3>2
  <2>6. ASSUME NEW l \in Logs, l > log
        PROVE  first'[l] = FirstEntry(file'[l])
    BY <2>1, <2>2, <2>6 DEF Firsts, OthersKept, Logs
  <2>7. CASE log < 3
    <3>1. pc' = "prune" /\ log' = log + 1 /\ r' = 0 /\ w' = 0
      BY <1>3, <2>7 DEF PruneDone
    <3> QED
      BY <1>a, <2>5, <2>6, <3>1 DEF Firsts, Unknown, Main, Logs
  <2>8. CASE ~(log < 3)
    <3>1. pc' = "skip_old" /\ log = 3
      BY <1>3, <1>a, <2>8 DEF PruneDone, Logs
    <3> QED
      BY <2>5, <3>1 DEF Firsts, Logs
  <2> QED
    BY <2>7, <2>8
<1>4. ASSUME NEW l \in Logs, NEW val \in Val, WriteLog(l, val), Known(l)
      PROVE  Known(l)' /\ OthersKept(l) /\ now' = now
             /\ \A k \in Logs \ {l} : pos'[k] = pos[k] /\ first'[k] = first[k]
  <2>1. /\ FilesTypeOK' /\ now' = now /\ OthersKept(l)
        /\ \A k \in Logs \ {l} : pos'[k] = pos[k] /\ first'[k] = first[k]
        /\ Len(file'[l]) >= Len(file[l])
        /\ pos'[l] \in 1..Len(file'[l])
        /\ file'[l][pos'[l]] = [date |-> now, val |-> val]
        /\ \A j \in 1..Len(file'[l]) :
             j # pos'[l] => j <= Len(file[l]) /\ file'[l][j] = file[l][j]
        /\ \/ /\ pos[l] = Len(file[l]) /\ Expired(l)
              /\ pos'[l] = 1 /\ first'[l] = now
           \/ /\ ~(pos[l] = Len(file[l]) /\ Expired(l))
              /\ pos'[l] = pos[l] + 1 /\ first'[l] = first[l]
    BY <1>0, <1>4, WriteLogFacts
  <2>2. file'[l] # <<>> /\ pos'[l] > 0
    BY <2>1
  <2>3. first'[l] = file'[l][1].date
    <3>1. CASE pos'[l] = 1 /\ first'[l] = now
      BY <2>1, <3>1
    <3>2. CASE /\ ~(pos[l] = Len(file[l]) /\ Expired(l))
               /\ pos'[l] = pos[l] + 1 /\ first'[l] = first[l]
      <4>1. file[l] # <<>>
        BY <1>4, <1>a, <1>b, <3>2 DEF Known
      <4>2. first[l] = file[l][1].date /\ pos[l] > 0
        BY <1>4, <4>1 DEF Known
      <4>3. 1 \in 1..Len(file'[l]) /\ 1 # pos'[l]
        BY <1>a, <2>1, <3>2, <4>2
      <4> QED
        BY <2>1, <3>2, <4>2, <4>3
    <3> QED
      BY <2>1, <3>1, <3>2
  <2> QED
    BY <2>1, <2>2, <2>3 DEF Known
<1>5. CASE StoreReading
  <2>1. WriteLog(1, value) /\ value \in Val /\ 1 \in Logs /\ (\A l \in Logs : Known(l))
        /\ pc' \in {"store", "loop"}
    BY <1>0, <1>5, <1>a, GoOnFacts DEF StoreReading, LocalsOK, Firsts, Main, Logs
  <2>2. \A l \in Logs : Known(l)'
    BY <1>4, <2>1 DEF Known, Expired, OthersKept
  <2> QED
    BY <2>1, <2>2 DEF Firsts, Main
<1>6. CASE StoreAverage
  <2> DEFINE matching == MatchingVals(log - 1, Period[log])
  <2>1. log \in Logs /\ log - 1 \in Logs /\ (\A l \in Logs : Known(l))
        /\ pc' \in {"store", "loop"}
    BY <1>6, <1>a, GoOnFacts DEF StoreAverage, Firsts, Main, Logs
  <2>2. CASE matching = {}
    <3>1. pos' = [pos EXCEPT ![log - 1] = Len(file[log - 1])] /\ UNCHANGED <<now, file, first>>
      BY <1>6, <2>2 DEF StoreAverage, LoseCursor
    <3>2. \A l \in Logs : Known(l)'
      BY <1>a, <1>b, <2>1, <3>1 DEF Known, Expired
    <3> QED
      BY <2>1, <3>2 DEF Firsts, Main
  <2>3. CASE matching # {}
    <3>1. WriteLog(log, Mean(matching))
      BY <1>6, <2>3 DEF StoreAverage
    <3> HIDE DEF matching
    <3>2. \A l \in Logs : Known(l)'
      BY <1>4, <2>1, <3>1, MeanType DEF Known, Expired, OthersKept
    <3> QED
      BY <2>1, <3>2 DEF Firsts, Main
  <2> QED
    BY <2>2, <2>3
<1>7. CASE Advance
  <2>1. now' = now + 1 /\ UNCHANGED <<file, pos, first, pc, log, w, r>>
    BY <1>7 DEF Advance, loggerVars
  <2>2. ASSUME NEW l \in Logs, Known(l) PROVE Known(l)'
    BY <1>a, <2>1, <2>2 DEF Known, Expired, NoEntry
  <2> QED
    BY <1>7, <2>1, <2>2 DEF Advance, Reading, Firsts, Main
<1>8. CASE Crash \/ SwapNothing \/ SwapStart \/ SwapChunk \/ SwapDone
  BY <1>8 DEF Crash, SwapNothing, SwapStart, SwapChunk, SwapDone, Firsts, Main
<1>9. CASE SkipOld \/ SkipTill \/ Loop \/ ReadPiece \/ ReadEnd
  <2>1. pc \in Main /\ pc' \in Main \cup {"swap"} /\ UNCHANGED fileVars
    BY <1>9 DEF SkipOld, SkipTill, Loop, ReadPiece, ReadEnd, Main
  <2> QED
    BY <2>1 DEF fileVars, Firsts, Known, Expired, Main
<1>10. CASE Interrupt \/ EmulatorNext \/ UNCHANGED vars
  BY <1>10 DEF Interrupt, EmulatorNext, vars, fileVars, loggerVars, Firsts, Known, Unknown,
     Expired
<1> QED
  BY <1>1, <1>2, <1>3, <1>5, <1>6, <1>7, <1>8, <1>9, <1>10 DEF Next, LoggerStep, Ended

\* first_entry_time is the date of the first line whenever write_log may look at it,
\* through pruning, wrapping around, and the return to the beginning of an empty file.
THEOREM FirstIsExact == Spec => []FirstExact
<1> DEFINE Inv == TypeOK /\ Bounds /\ Firsts
<1>1. Init => Inv
  BY TypeInit DEF Init, Firsts, Main
<1>2. Inv /\ [Next]_vars => Inv'
  BY TypeStep, FirstsStep
<1>3. Inv => FirstExact
  BY DEF Firsts, Known, Main, FirstExact
<1> QED
  BY <1>1, <1>2, <1>3, PTL DEF Spec

-----------------------------------------------------------------------------
(* Order: what each write does to it, as facts about sequences.             *)

LEMMA InOrderIsRun ==
  ASSUME NEW lines
  PROVE  InOrder(lines) <=> Run(lines, 1, Len(lines))
BY DEF InOrder, Run, Before2

\* With the cursor at an end of the file, the ring is a line.
LEMMA RingIsLine ==
  ASSUME NEW lines, NEW p, Len(lines) \in Nat, p = 0 \/ p = Len(lines)
  PROVE  Ring(lines, p) <=> InOrder(lines)
<1>1. CASE p = 0
  BY <1>1, InOrderIsRun DEF Ring, Run, NotLater
<1>2. CASE p = Len(lines)
  BY <1>2, InOrderIsRun DEF Ring, Run, NotLater
<1> QED
  BY <1>1, <1>2

\* write_log, at the cursor or, at the end, at the beginning.
LEMMA RingWrite ==
  ASSUME NEW old, NEW new, Len(old) \in Nat, Len(new) \in Nat, Len(new) >= Len(old),
         NEW p \in 0..Len(old), NEW q \in 1..Len(new), q = p + 1 \/ (p = Len(old) /\ q = 1),
         \A j \in 1..Len(new) : j # q => j <= Len(old) /\ new[j] = old[j],
         \A i \in 1..Len(old) : old[i].date <= new[q].date,
         Ring(old, p)
  PROVE  Ring(new, q)
<1>1. Run(new, 1, q)
  <2> SUFFICES ASSUME NEW i \in 1..q, NEW j \in 1..q, i < j
               PROVE  Before2(new[i], new[j])
    BY DEF Run
  <2>1. i # q /\ i \in 1..Len(old) /\ new[i] = old[i]
    OBVIOUS
  <2>2. CASE j = q
    BY <2>1, <2>2 DEF Before2
  <2>3. CASE j # q
    <3>1. i \in 1..p /\ j \in 1..p /\ new[j] = old[j]
      BY <2>3
    <3> QED
      BY <2>1, <3>1 DEF Ring, Run
  <2> QED
    BY <2>2, <2>3
<1>2. Run(new, q + 1, Len(new))
  <2> SUFFICES ASSUME NEW i \in q + 1 .. Len(new), NEW j \in q + 1 .. Len(new), i < j
               PROVE  Before2(new[i], new[j])
    BY DEF Run
  <2>1. i \in 1..Len(old) /\ j \in 1..Len(old) /\ new[i] = old[i] /\ new[j] = old[j]
    OBVIOUS
  <2>2. (i \in 1..p /\ j \in 1..p) \/ (i \in p + 1 .. Len(old) /\ j \in p + 1 .. Len(old))
    BY <2>1
  <2> QED
    BY <2>1, <2>2 DEF Ring, Run
<1>3. NotLater(new, q + 1 .. Len(new), new, 1..q)
  <2> SUFFICES ASSUME NEW i \in q + 1 .. Len(new), NEW j \in 1..q
               PROVE  Before2(new[i], new[j])
    BY DEF NotLater
  <2>1. i \in 1..Len(old) /\ new[i] = old[i]
    OBVIOUS
  <2>2. CASE j = q
    BY <2>1, <2>2 DEF Before2
  <2>3. CASE j # q
    <3>1. j \in 1..p /\ i \in p + 1 .. Len(old) /\ new[j] = old[j]
      BY <2>1, <2>3
    <3> QED
      BY <2>1, <3>1 DEF Ring, NotLater
  <2> QED
    BY <2>2, <2>3
<1> QED
  BY <1>1, <1>2, <1>3 DEF Ring

\* delete_old_entries, one line kept.
LEMMA PrunedMove ==
  ASSUME NEW old, NEW new, Len(old) \in Nat, Len(new) = Len(old),
         NEW k \in Nat, NEW n \in Nat, k <= n, n + 1 <= Len(old),
         \A j \in 1..Len(old) : new[j] = IF j = k + 1 THEN old[n + 1] ELSE old[j],
         Pruned(old, k, n)
  PROVE  Pruned(new, k + 1, n + 1)
<1>1. Run(new, 1, k + 1)
  <2> SUFFICES ASSUME NEW i \in 1..k + 1, NEW j \in 1..k + 1, i < j
               PROVE  Before2(new[i], new[j])
    BY DEF Run
  <2>1. i \in 1..k /\ new[i] = old[i]
    OBVIOUS
  <2>2. CASE j = k + 1
    <3>1. new[j] = old[n + 1] /\ n + 1 \in n + 1 .. Len(old)
      BY <2>2
    <3> QED
      BY <2>1, <3>1 DEF Pruned, NotLater
  <2>3. CASE j # k + 1
    <3>1. j \in 1..k /\ new[j] = old[j]
      BY <2>3
    <3> QED
      BY <2>1, <3>1 DEF Pruned, Run
  <2> QED
    BY <2>2, <2>3
<1>2. \A j \in n + 2 .. Len(new) : j \in n + 1 .. Len(old) /\ new[j] = old[j]
  OBVIOUS
<1>3. Run(new, n + 2, Len(new))
  BY <1>2 DEF Pruned, Run
<1>4. NotLater(new, 1 .. k + 1, new, n + 2 .. Len(new))
  <2> SUFFICES ASSUME NEW i \in 1 .. k + 1, NEW j \in n + 2 .. Len(new)
               PROVE  Before2(new[i], new[j])
    BY DEF NotLater
  <2>1. CASE i = k + 1
    <3>1. new[i] = old[n + 1] /\ n + 1 \in n + 1 .. Len(old) /\ n + 1 < j
      BY <2>1
    <3> QED
      BY <1>2, <3>1 DEF Pruned, Run
  <2>2. CASE i # k + 1
    <3>1. i \in 1..k /\ new[i] = old[i]
      BY <2>2
    <3> QED
      BY <1>2, <3>1 DEF Pruned, NotLater
  <2> QED
    BY <2>1, <2>2
<1> QED
  BY <1>1, <1>3, <1>4 DEF Pruned

\* swap_file_parts, the lines before the cursor taken out, ...
LEMMA ShiftedStart ==
  ASSUME NEW lines, NEW p, NEW b, Len(lines) \in Nat, p \in 0..Len(lines),
         Len(b) = p, \A i \in 1..p : b[i] = lines[i], Ring(lines, p)
  PROVE  Shifted(lines, p, 0, b)
BY DEF Ring, Shifted, Run, NotLater, InOrder, Before2

\* ... a chunk moved up, ...
LEMMA ShiftedMove ==
  ASSUME NEW old, NEW new, NEW b, Len(old) \in Nat, Len(new) = Len(old), Len(b) \in Nat,
         NEW p \in Nat, NEW k \in Nat, NEW n \in Nat, p + k + n <= Len(old),
         \A i \in 1..Len(old) : new[i] = IF k < i /\ i <= k + n THEN old[i + p] ELSE old[i],
         Shifted(old, p, k, b)
  PROVE  Shifted(new, p, k + n, b)
<1> DEFINE from(i) == IF k < i THEN i + p ELSE i
<1>1. \A i \in 1 .. k + n : /\ new[i] = old[from(i)]
                            /\ i <= k => from(i) \in 1..k
                            /\ k < i => from(i) \in p + k + 1 .. Len(old)
  <2> SUFFICES ASSUME NEW i \in 1 .. k + n
               PROVE  /\ new[i] = old[from(i)]
                      /\ i <= k => from(i) \in 1..k
                      /\ k < i => from(i) \in p + k + 1 .. Len(old)
    OBVIOUS
  <2>1. i \in 1..Len(old) /\ i <= k + n
    OBVIOUS
  <2>2. CASE i <= k
    <3>1. ~(k < i)
      BY <2>2
    <3> QED
      BY <2>1, <2>2, <3>1
  <2>3. CASE k < i
    BY <2>1, <2>3
  <2> QED
    BY <2>2, <2>3
<1>2. \A i \in p + (k + n) + 1 .. Len(new) : new[i] = old[i] /\ i \in p + k + 1 .. Len(old)
  OBVIOUS
<1>3. Run(new, 1, k + n)
  <2> SUFFICES ASSUME NEW i \in 1 .. k + n, NEW j \in 1 .. k + n, i < j
               PROVE  Before2(new[i], new[j])
    BY DEF Run
  <2>1. CASE j <= k
    BY <2>1, <1>1 DEF Shifted, Run
  <2>2. CASE i <= k /\ k < j
    <3>1. from(i) \in 1..k /\ from(j) \in p + k + 1 .. Len(old)
          /\ new[i] = old[from(i)] /\ new[j] = old[from(j)]
      BY <2>2, <1>1
    <3> HIDE DEF from
    <3> QED
      BY <3>1 DEF Shifted, NotLater
  <2>3. CASE k < i
    <3>1. from(i) \in p + k + 1 .. Len(old) /\ from(j) \in p + k + 1 .. Len(old)
          /\ from(i) < from(j)
      BY <2>3
    <3> QED
      BY <1>1, <3>1 DEF Shifted, Run
  <2> QED
    BY <2>1, <2>2, <2>3
<1>4. Run(new, p + (k + n) + 1, Len(new))
  BY <1>2 DEF Shifted, Run
<1>5. NotLater(new, 1 .. k + n, new, p + (k + n) + 1 .. Len(new))
  <2> SUFFICES ASSUME NEW i \in 1 .. k + n, NEW j \in p + (k + n) + 1 .. Len(new)
               PROVE  Before2(new[i], new[j])
    BY DEF NotLater
  <2>1. CASE i <= k
    BY <2>1, <1>1, <1>2 DEF Shifted, NotLater
  <2>2. CASE k < i
    <3>1. from(i) \in p + k + 1 .. Len(old) /\ from(i) < j
      BY <2>2
    <3> QED
      BY <1>1, <1>2, <3>1 DEF Shifted, Run
  <2> QED
    BY <2>1, <2>2
<1>6. NotLater(new, 1 .. k + n, b, 1..Len(b))
  <2> SUFFICES ASSUME NEW i \in 1 .. k + n, NEW j \in 1..Len(b)
               PROVE  Before2(new[i], b[j])
    BY DEF NotLater
  <2>1. CASE i <= k
    BY <2>1, <1>1 DEF Shifted, NotLater
  <2>2. CASE k < i
    <3>1. from(i) \in p + k + 1 .. Len(old) /\ new[i] = old[from(i)]
      BY <2>2, <1>1
    <3> HIDE DEF from
    <3> QED
      BY <3>1 DEF Shifted, NotLater
  <2> QED
    BY <2>1, <2>2
<1>7. NotLater(new, p + (k + n) + 1 .. Len(new), b, 1..Len(b))
  BY <1>2 DEF Shifted, NotLater
<1> QED
  BY <1>3, <1>4, <1>5, <1>6, <1>7 DEF Shifted

\* ... and those taken out put behind.
LEMMA ShiftedEnd ==
  ASSUME NEW old, NEW new, NEW b, Len(old) \in Nat, Len(new) = Len(old),
         NEW p \in Nat, Len(b) = p, p <= Len(old),
         \A i \in 1..Len(old) :
           new[i] = IF i > Len(old) - p THEN b[i - (Len(old) - p)] ELSE old[i],
         Shifted(old, p, Len(old) - p, b)
  PROVE  InOrder(new)
<1> DEFINE start == Len(old) - p
<1> SUFFICES ASSUME NEW i \in 1..Len(new), NEW j \in 1..Len(new), i < j
             PROVE  Before2(new[i], new[j])
  BY DEF InOrder, Before2
<1>1. CASE j <= start
  BY <1>1 DEF Shifted, Run
<1>2. CASE i <= start /\ j > start
  <2>1. new[i] = old[i] /\ new[j] = b[j - start] /\ j - start \in 1..Len(b) /\ i \in 1..start
    BY <1>2
  <2> QED
    BY <2>1 DEF Shifted, NotLater
<1>3. CASE i > start
  <2>1. new[i] = b[i - start] /\ new[j] = b[j - start]
        /\ i - start \in 1..Len(b) /\ j - start \in 1..Len(b) /\ i - start < j - start
    BY <1>3
  <2> QED
    BY <2>1 DEF Shifted, InOrder, Before2
<1> QED
  BY <1>1, <1>2, <1>3

LEMMA OrderInit ==
  ASSUME Init
  PROVE  Order
BY FileLoggerAssumption DEF Init, Order, OrderOf, Main

LEMMA OrderStep ==
  ASSUME TypeOK, Bounds, Past, Averages, Order, [Next]_vars
  PROVE  Order'
<1>0. FilesTypeOK /\ LocalsOK
  BY DEF TypeOK, LocalsOK
<1>a. /\ file \in [Logs -> Seq(Line)] /\ pos \in [Logs -> Nat] /\ log \in Logs
      /\ r \in Nat /\ w \in Nat /\ buf \in Seq(Line) /\ Len(buf) \in Nat
      /\ \A l \in Logs : Len(file[l]) \in Nat /\ pos[l] <= Len(file[l])
  BY <1>0, FilesTypes, LenProperties DEF LocalsOK
<1>b. /\ \A l \in Logs : ~torn[l] => OrderOf(l)
      /\ pc \in {"swap", "shift"} => \A l \in Logs : l < log => pos[l] = Len(file[l])
  BY DEF Order
<1>c. ASSUME NEW l \in Logs, pc \in Main \cup {"swap"}, ~torn[l]
      PROVE  Ring(file[l], pos[l])
  BY <1>b, <1>c DEF OrderOf
<1>1. CASE Start
  <2>1. /\ file' = file /\ pos' = [l \in Logs |-> 0] /\ torn' = torn /\ pc = "off"
        /\ pc' = "prune" /\ log' = 1 /\ r' = 0 /\ w' = 0
    BY <1>1 DEF Start, InitLogs, Locals
  <2>2. ASSUME NEW l \in Logs, ~torn[l]
        PROVE  OrderOf(l)'
    <3>1. InOrder(file[l])
      BY <1>b, <2>1, <2>2 DEF OrderOf
    <3>2. Pruned(file[l], 0, 0)
      BY <1>a, <3>1, InOrderIsRun DEF Pruned, Run, NotLater
    <3> QED
      BY <2>1, <3>1, <3>2 DEF OrderOf, Main, Logs
  <2> QED
    BY <2>1, <2>2 DEF Order
<1>2. CASE PruneLine
  <2>1. /\ pc = "prune" /\ pc' = "prune" /\ log' = log /\ r' = r + 1 /\ torn' = torn
        /\ w <= r /\ r + 1 \in 1..Len(file[log])
    BY <1>2, <1>a DEF PruneLine, Bounds
  <2>2. OthersKept(log) /\ pos' = pos
    <3>1. CASE MoveUp(log, w, r + 1)
      <4>1. w < r + 1
        BY <1>a, <2>1
      <4> QED
        BY <1>0, <1>a, <2>1, <3>1, <4>1, MoveUpFacts
    <3>2. CASE UNCHANGED fileVars
      BY <3>2 DEF fileVars, OthersKept
    <3> QED
      BY <1>2, <3>1, <3>2 DEF PruneLine
  <2>3. Pruned(file[log], w, r) => Pruned(file'[log], w', r')
    <3>1. CASE w' = w + 1 /\ MoveUp(log, w, r + 1)
      <4>1. /\ Len(file'[log]) = Len(file[log])
            /\ \A j \in 1..Len(file[log]) :
                 file'[log][j] = IF j = w + 1 THEN file[log][r + 1] ELSE file[log][j]
        BY <1>0, <1>a, <2>1, <3>1, MoveUpFacts
      <4>2. r + 1 <= Len(file[log])
        BY <1>a, <2>1
      <4> QED
        BY <1>a, <2>1, <3>1, <4>1, <4>2, PrunedMove
    <3>2. CASE w' = w /\ UNCHANGED fileVars
      <4>1. \A i \in r + 2 .. Len(file[log]) : i \in r + 1 .. Len(file[log])
        BY <1>a
      <4> QED
        BY <1>a, <2>1, <3>2, <4>1 DEF fileVars, Pruned, Run, NotLater
    <3> QED
      BY <1>2, <3>1, <3>2 DEF PruneLine
  <2>4. ASSUME NEW l \in Logs, ~torn[l]
        PROVE  OrderOf(l)'
    <3>1. CASE l = log
      BY <1>a, <1>b, <2>1, <2>2, <2>3, <2>4, <3>1 DEF OrderOf, Main
    <3>2. CASE l # log
      BY <1>a, <1>b, <2>1, <2>2, <2>4, <3>2 DEF OrderOf, Main, OthersKept
    <3> QED
      BY <3>1, <3>2
  <2> QED
    BY <2>1, <2>4 DEF Order
<1>3. CASE PruneDone
  <2>1. pc = "prune" /\ w \in 0..Len(file[log]) /\ r = Len(file[log]) /\ torn' = torn
    BY <1>3, <1>a DEF PruneDone, Bounds
  <2>2. /\ OthersKept(log) /\ \A j \in Logs \ {log} : pos'[j] = pos[j]
        /\ Len(file'[log]) = w /\ pos'[log] = w
        /\ \A j \in 1..w : file'[log][j] = file[log][j]
    BY <1>0, <1>3, <1>a, <2>1, CutFacts DEF PruneDone
  <2>3. ASSUME NEW l \in Logs, l <= log, ~torn[l]
        PROVE  InOrder(file'[l]) /\ pos'[l] = Len(file'[l])
    <3>1. CASE l = log
      <4>1. Run(file[log], 1, w)
        BY <1>b, <2>1, <2>3, <3>1 DEF OrderOf, Pruned
      <4>2. Run(file'[log], 1, Len(file'[log]))
        BY <2>1, <2>2, <4>1 DEF Run
      <4> QED
        BY <2>2, <3>1, <4>2, InOrderIsRun
    <3>2. CASE l # log
      <4>1. l < log /\ file'[l] = file[l] /\ pos'[l] = pos[l]
        BY <1>a, <2>2, <2>3, <3>2 DEF OthersKept, Logs
      <4> QED
        BY <1>b, <2>1, <2>3, <4>1 DEF OrderOf
    <3> QED
      BY <3>1, <3>2
  <2>4. ASSUME NEW l \in Logs, l > log, ~torn[l]
        PROVE  /\ InOrder(file'[l]) /\ pos'[l] = 0 /\ Pruned(file'[l], 0, 0)
    <3>1. InOrder(file'[l]) /\ pos'[l] = 0 /\ file'[l] = file[l]
      BY <1>a, <1>b, <2>1, <2>2, <2>4 DEF OrderOf, OthersKept, Logs
    <3>2. Pruned(file'[l], 0, 0)
      BY <1>a, <3>1, InOrderIsRun DEF Pruned, Run, NotLater
    <3> QED
      BY <3>1, <3>2
  <2>5. CASE log < 3
    <3>1. pc' = "prune" /\ log' = log + 1 /\ r' = 0 /\ w' = 0
      BY <1>3, <2>5 DEF PruneDone
    <3>2. ASSUME NEW l \in Logs, ~torn[l] PROVE OrderOf(l)'
      BY <1>a, <2>3, <2>4, <3>1, <3>2 DEF OrderOf, Main, Logs
    <3> QED
      BY <2>1, <3>1, <3>2 DEF Order
  <2>6. CASE ~(log < 3)
    <3>1. pc' = "skip_old" /\ log = 3
      BY <1>3, <1>a, <2>6 DEF PruneDone, Logs
    <3>2. ASSUME NEW l \in Logs, ~torn[l] PROVE OrderOf(l)'
      <4>1. InOrder(file'[l]) /\ pos'[l] = Len(file'[l]) /\ Len(file'[l]) \in Nat
        <5>1. InOrder(file'[l]) /\ pos'[l] = Len(file'[l])
          BY <2>3, <3>1, <3>2 DEF Logs
        <5>2. l = log \/ file'[l] = file[l]
          BY <2>2 DEF OthersKept
        <5>3. Len(file'[log]) \in Nat /\ Len(file[l]) \in Nat
          BY <1>a, <2>2
        <5> QED
          BY <5>1, <5>2, <5>3
      <4>2. Ring(file'[l], pos'[l])
        BY <4>1, RingIsLine
      <4> QED
        BY <3>1, <4>2 DEF OrderOf
    <3> QED
      BY <2>1, <3>1, <3>2 DEF Order
  <2> QED
    BY <2>5, <2>6
<1>4. ASSUME NEW l \in Logs, NEW val \in Val, WriteLog(l, val), pc \in Main, pc' \in Main,
             torn' = torn
      PROVE  Order'
  <2>1. /\ FilesTypeOK' /\ OthersKept(l) /\ \A k \in Logs \ {l} : pos'[k] = pos[k]
        /\ Len(file'[l]) >= Len(file[l]) /\ pos'[l] \in 1..Len(file'[l])
        /\ file'[l][pos'[l]] = [date |-> now, val |-> val]
        /\ \A j \in 1..Len(file'[l]) :
             j # pos'[l] => j <= Len(file[l]) /\ file'[l][j] = file[l][j]
        /\ pos'[l] = pos[l] + 1 \/ (pos[l] = Len(file[l]) /\ pos'[l] = 1)
    BY <1>0, <1>4, WriteLogFacts
  <2>2. Len(file'[l]) \in Nat
    BY <2>1, LenProperties DEF FilesTypeOK
  <2>3. \A i \in 1..Len(file[l]) : file[l][i].date <= file'[l][pos'[l]].date
    BY <2>1 DEF Past, PastLines
  <2>4. Ring(file[l], pos[l]) => Ring(file'[l], pos'[l])
    <3> DEFINE old == file[l]
               new == file'[l]
               p   == pos[l]
               q   == pos'[l]
    <3>1. /\ Len(old) \in Nat /\ Len(new) \in Nat /\ Len(new) >= Len(old)
          /\ p \in 0..Len(old) /\ q \in 1..Len(new) /\ (q = p + 1 \/ (p = Len(old) /\ q = 1))
          /\ \A j \in 1..Len(new) : j # q => j <= Len(old) /\ new[j] = old[j]
          /\ \A i \in 1..Len(old) : old[i].date <= new[q].date
      <4>1. Len(old) \in Nat /\ p \in 0..Len(old) /\ Len(new) \in Nat
        BY <1>a, <2>2
      <4> QED
        BY <2>1, <2>3, <4>1
    <3> HIDE DEF old, new, p, q
    <3>2. Ring(old, p) => Ring(new, q)
      BY <3>1, RingWrite
    <3> QED
      BY <3>2 DEF old, new, p, q
  <2>5. ASSUME NEW k \in Logs, ~torn[k] PROVE OrderOf(k)'
    <3>1. Ring(file'[k], pos'[k])
      BY <1>4, <1>c, <2>1, <2>4, <2>5 DEF OthersKept
    <3> QED
      BY <1>4, <3>1 DEF OrderOf, Main
  <2> QED
    BY <1>4, <2>5 DEF Order, Main
<1>5. CASE StoreReading
  <2>1. /\ WriteLog(1, value) /\ value \in Val /\ 1 \in Logs /\ torn' = torn
        /\ pc \in Main /\ pc' \in Main
    BY <1>0, <1>5, <1>a, GoOnFacts DEF StoreReading, LocalsOK, Main, Logs
  <2> QED
    BY <1>4, <2>1
<1>6. CASE StoreAverage
  <2> DEFINE matching == MatchingVals(log - 1, Period[log])
  <2>1. log \in 2..3 /\ torn' = torn /\ pc = "store" /\ pc \in Main /\ pc' \in Main
    BY <1>6, <1>a, GoOnFacts DEF StoreAverage, Main, Logs
  <2>2. matching # {}
    BY <2>1, NonEmptyMatching DEF MatchingVals
  <2>3. WriteLog(log, Mean(matching))
    BY <1>6, <2>2 DEF StoreAverage
  <2> HIDE DEF matching
  <2> QED
    BY <1>4, <1>a, <2>1, <2>3, MeanType
<1>7. CASE SwapNothing
  <2>1. pc = "swap" /\ pos[log] = Len(file[log]) /\ torn' = torn
    BY <1>7 DEF SwapNothing, AtFileEnd
  <2>2. CASE log < 3
    <3>1. log' = log + 1 /\ pc' = "swap" /\ file' = file /\ pos' = pos
      BY <1>7, <2>1, <2>2 DEF SwapNothing, fileVars
    <3>2. ASSUME NEW l \in Logs, ~torn[l] PROVE OrderOf(l)'
      BY <1>c, <2>1, <3>1, <3>2 DEF OrderOf, Main
    <3>3. \A l \in Logs : l < log' => pos'[l] = Len(file'[l])
      BY <1>a, <1>b, <2>1, <3>1 DEF Logs
    <3> QED
      BY <2>1, <3>2, <3>3 DEF Order
  <2>3. CASE ~(log < 3)
    <3>1. pc' = "off" /\ file' = file /\ log = 3
      BY <1>7, <1>a, <2>3 DEF SwapNothing, CloseLogs, Logs
    <3>2. ASSUME NEW l \in Logs, ~torn[l] PROVE OrderOf(l)'
      <4>1. pos[l] = Len(file[l]) /\ Ring(file[l], pos[l])
        BY <1>b, <1>c, <2>1, <3>1, <3>2 DEF Logs
      <4>2. InOrder(file[l])
        BY <1>a, <4>1, RingIsLine
      <4> QED
        BY <3>1, <4>2 DEF OrderOf, Main
    <3> QED
      BY <2>1, <3>1, <3>2 DEF Order
  <2> QED
    BY <2>2, <2>3
<1>8. CASE SwapStart
  <2>1. /\ pc = "swap" /\ pc' = "shift" /\ file' = file /\ pos' = pos /\ log' = log /\ w' = 0
        /\ torn' = torn /\ buf' = SubSeq(file[log], 1, pos[log])
    BY <1>8 DEF SwapStart, fileVars, Before
  <2>2. Len(buf') = pos[log] /\ \A i \in 1..pos[log] : buf'[i] = file[log][i]
    <3>1. \A i \in 1..pos[log] : file[log][i] \in Line
      BY <1>a, ElementOfSeq
    <3> QED
      BY <1>a, <2>1, <3>1, SubSeqProperties
  <2>3. ASSUME NEW l \in Logs, ~torn[l] PROVE OrderOf(l)'
    <3>1. Ring(file[l], pos[l]) /\ pos[l] \in 0..Len(file[l])
      BY <1>a, <1>c, <2>1, <2>3
    <3>2. l = log => Shifted(file[l], pos[l], 0, buf')
      BY <1>a, <2>2, <3>1, ShiftedStart
    <3> QED
      BY <2>1, <3>1, <3>2 DEF OrderOf, Main
  <2> QED
    BY <1>b, <2>1, <2>3 DEF Order
<1>9. CASE SwapChunk
  <2> DEFINE n == IF Remaining < Chunk THEN Remaining ELSE Chunk
  <2>1. /\ pos[log] < Len(file[log]) /\ Remaining \in Nat
    BY <1>9, <1>a DEF SwapChunk, Remaining, Bounds
  <2>2. n \in Nat /\ pos[log] + w + n <= Len(file[log])
    BY <1>a, <2>1, FileLoggerAssumption DEF Remaining
  <2>3. /\ ShiftChunk(log, pos[log], w, n) /\ w' = w + n
        /\ pc = "shift" /\ UNCHANGED <<pc, log, buf, torn>>
    BY <1>9 DEF SwapChunk
  <2> HIDE DEF n
  <2>4. /\ OthersKept(log) /\ pos' = pos /\ Len(file'[log]) = Len(file[log])
        /\ \A i \in 1..Len(file[log]) : file'[log][i] =
             IF w < i /\ i <= w + n THEN file[log][i + pos[log]] ELSE file[log][i]
    BY <1>0, <1>a, <2>2, <2>3, ShiftChunkFacts
  <2>5. Shifted(file[log], pos[log], w, buf) => Shifted(file'[log], pos[log], w + n, buf)
    BY <1>a, <2>2, <2>4, ShiftedMove
  <2>6. ASSUME NEW l \in Logs, ~torn[l] PROVE OrderOf(l)'
    <3>1. CASE l = log
      BY <1>b, <2>3, <2>4, <2>5, <2>6, <3>1 DEF OrderOf, Main
    <3>2. CASE l # log
      BY <1>b, <2>3, <2>4, <2>6, <3>2 DEF OrderOf, Main, OthersKept
    <3> QED
      BY <3>1, <3>2
  <2>7. \A l \in Logs : l < log' => pos'[l] = Len(file'[l])
    BY <1>a, <1>b, <2>3, <2>4 DEF OthersKept, Logs
  <2> QED
    BY <2>3, <2>6, <2>7 DEF Order
<1>10. CASE SwapDone
  <2>1. /\ pc = "shift" /\ pc' = "swap" /\ UNCHANGED <<log, torn>> /\ PutBehind(log, buf)
        /\ Len(buf) = pos[log] /\ w = Len(file[log]) - pos[log]
    BY <1>10, <1>a DEF SwapDone, Remaining, Bounds
  <2>2. /\ OthersKept(log) /\ \A j \in Logs \ {log} : pos'[j] = pos[j]
        /\ Len(file'[log]) = Len(file[log]) /\ pos'[log] = Len(file[log])
        /\ \A i \in 1..Len(file[log]) : file'[log][i] =
             IF i > Len(file[log]) - Len(buf)
               THEN buf[i - (Len(file[log]) - Len(buf))] ELSE file[log][i]
    BY <1>0, <1>a, <2>1, PutBehindFacts
  <2>3. Shifted(file[log], pos[log], w, buf) => InOrder(file'[log])
    <3> DEFINE old == file[log]
               new == file'[log]
               p   == pos[log]
    <3>1. /\ Len(old) \in Nat /\ Len(new) = Len(old)
          /\ p \in Nat /\ Len(buf) = p /\ p <= Len(old) /\ w = Len(old) - p
          /\ \A i \in 1..Len(old) :
               new[i] = IF i > Len(old) - p THEN buf[i - (Len(old) - p)] ELSE old[i]
      BY <1>a, <2>1, <2>2
    <3> HIDE DEF old, new, p
    <3>2. Shifted(old, p, Len(old) - p, buf) => InOrder(new)
      BY <3>1, ShiftedEnd
    <3> QED
      BY <3>1, <3>2 DEF old, new, p
  <2>4. ASSUME NEW l \in Logs, ~torn[l] PROVE OrderOf(l)'
    <3>1. CASE l = log
      <4>1. InOrder(file'[l])
        BY <1>b, <2>1, <2>3, <2>4, <3>1 DEF OrderOf
      <4>2. Ring(file'[l], pos'[l])
        BY <1>a, <2>2, <3>1, <4>1, RingIsLine
      <4> QED
        BY <2>1, <4>2 DEF OrderOf, Main
    <3>2. CASE l # log
      BY <1>b, <2>1, <2>2, <2>4, <3>2 DEF OrderOf, Main, OthersKept
    <3> QED
      BY <3>1, <3>2
  <2>5. \A l \in Logs : l < log' => pos'[l] = Len(file'[l])
    BY <1>a, <1>b, <2>1, <2>2 DEF OthersKept, Logs
  <2> QED
    BY <2>1, <2>4, <2>5 DEF Order
<1>11. CASE Crash
  <2>1. /\ pc' = "off" /\ file' = file
        /\ torn' = [l \in Logs |-> torn[l] \/ OutOfOrder(l)]
    BY <1>11 DEF Crash, CloseLogs
  <2>2. ASSUME NEW l \in Logs, ~torn'[l] PROVE InOrder(file[l])
    <3>1. OrderOf(l) /\ (pos[l] = 0 \/ pos[l] = Len(file[l]))
          /\ (pc = "prune" /\ l = log => w = 0 \/ r <= w)
      <4>1. ~torn[l] /\ ~OutOfOrder(l)
        BY <2>1, <2>2
      <4> QED
        BY <1>a, <1>b, <4>1 DEF OutOfOrder
    <3>2. CASE pc = "off"
      BY <3>1, <3>2 DEF OrderOf
    <3>3. CASE pc = "prune"
      <4>1. CASE l = log /\ w # 0
        <5>1. w = r /\ Pruned(file[l], w, r)
          BY <1>a, <3>1, <3>3, <4>1 DEF OrderOf, Bounds
        <5>2. \A i \in 1..Len(file[l]) : i \in 1..w \/ i \in w + 1 .. Len(file[l])
          BY <1>a
        <5>3. Run(file[l], 1, Len(file[l]))
          <6> SUFFICES ASSUME NEW i \in 1..Len(file[l]), NEW j \in 1..Len(file[l]), i < j
                       PROVE  Before2(file[l][i], file[l][j])
            BY DEF Run
          <6> QED
            BY <1>a, <5>1, <5>2 DEF Pruned, Run, NotLater
        <5> QED
          BY <5>3, InOrderIsRun
      <4>2. CASE l = log /\ w = 0
        BY <3>1, <3>3, <4>2 DEF OrderOf, Pruned
      <4>3. CASE l # log
        BY <1>a, <3>1, <3>3, <4>3 DEF OrderOf, Logs
      <4> QED
        BY <4>1, <4>2, <4>3
    <3>4. CASE pc = "shift" /\ l = log
      <4>1. pos[l] = 0 /\ Shifted(file[l], pos[l], w, buf)
        BY <1>a, <3>1, <3>4 DEF OrderOf, Bounds
      <4>2. \A i \in 1..Len(file[l]) : i \in 1..w \/ i \in w + 1 .. Len(file[l])
        BY <1>a
      <4>3. /\ Run(file[l], 1, w) /\ Run(file[l], w + 1, Len(file[l]))
            /\ NotLater(file[l], 1..w, file[l], w + 1 .. Len(file[l]))
        <5>1. 0 + w + 1 = w + 1
          BY <1>a
        <5> QED
          BY <4>1, <5>1 DEF Shifted
      <4>4. Run(file[l], 1, Len(file[l]))
        <5> SUFFICES ASSUME NEW i \in 1..Len(file[l]), NEW j \in 1..Len(file[l]), i < j
                     PROVE  Before2(file[l][i], file[l][j])
          BY DEF Run
        <5>1. CASE i \in 1..w /\ j \in 1..w
          BY <4>3, <5>1 DEF Run
        <5>2. CASE i \in 1..w /\ j \in w + 1 .. Len(file[l])
          BY <4>3, <5>2 DEF NotLater
        <5>3. CASE i \in w + 1 .. Len(file[l]) /\ j \in w + 1 .. Len(file[l])
          BY <4>3, <5>3 DEF Run
        <5> QED
          BY <1>a, <4>2, <5>1, <5>2, <5>3
      <4> QED
        BY <4>4, InOrderIsRun
    <3>5. CASE pc \in Main \cup {"swap"} \/ (pc = "shift" /\ l # log)
      <4>1. Ring(file[l], pos[l])
        BY <3>1, <3>5 DEF OrderOf
      <4> QED
        BY <1>a, <3>1, <4>1, RingIsLine
    <3> QED
      BY <1>0, <3>2, <3>3, <3>4, <3>5 DEF LocalsOK, Main
  <2> QED
    BY <2>1, <2>2 DEF Order, OrderOf, Main
<1>12. CASE SkipOld \/ SkipTill \/ Loop \/ ReadPiece \/ ReadEnd
  <2>1. /\ pc \in Main /\ pc' \in Main \cup {"swap"} /\ (pc' = "swap" => log' = 1)
        /\ file' = file /\ pos' = pos /\ torn' = torn
    BY <1>12 DEF SkipOld, SkipTill, Loop, ReadPiece, ReadEnd, fileVars, Main
  <2>2. ASSUME NEW l \in Logs, ~torn[l] PROVE OrderOf(l)'
    BY <1>c, <2>1, <2>2 DEF OrderOf, Main
  <2> QED
    BY <2>1, <2>2 DEF Order, Main, Logs
<1>13. CASE Advance \/ Interrupt \/ EmulatorNext \/ UNCHANGED vars
  <2>1. UNCHANGED <<file, pos, pc, log, w, r, buf, torn>>
    BY <1>13 DEF Advance, Interrupt, EmulatorNext, vars, fileVars, loggerVars
  <2>2. ASSUME NEW l \in Logs, OrderOf(l) PROVE OrderOf(l)'
    BY <2>1, <2>2 DEF OrderOf
  <2> QED
    BY <1>b, <2>1, <2>2 DEF Order
<1> QED
  BY <1>1, <1>2, <1>3, <1>5, <1>6, <1>7, <1>8, <1>9, <1>10, <1>11, <1>12, <1>13
     DEF Next, LoggerStep, Ended

\* The files of a logger that is not there are in the order of their dates, however
\* often they have wrapped around, unless the logger was killed while one was not.
THEOREM OrderAtRest == Spec => []InDateOrder
<1> DEFINE Inv == TypeOK /\ Bounds /\ Past /\ Averages /\ Order
<1>1. Init => Inv
  BY TypeInit, PastInit, OrderInit DEF Init, Averages, Main
<1>2. Inv /\ [Next]_vars => Inv'
  BY TypeStep, PastStep, AveragesStep, OrderStep
<1>3. Inv => InDateOrder
  BY DEF Order, OrderOf, InDateOrder
<1> QED
  BY <1>1, <1>2, <1>3, PTL DEF Spec

=============================================================================
