-------------------------- MODULE TempKioskProofs ---------------------------
(***************************************************************************)
(* Theorems about the logger and the server together, for every value of   *)
(* the constants.  The server never disturbs the logger, so that what is   *)
(* proved of the logger alone holds beside a server; what the server reads *)
(* and sends is described by two recursive functions, which are shown to   *)
(* be what they should by induction over their argument.                   *)
(***************************************************************************)
EXTENDS TempKiosk, TempLoggerProofs, FiniteSetTheorems, FunctionTheorems,
        WellFoundedInduction

(* Induction and recursion over the natural numbers.                        *)

Below == {pair \in Nat \X Nat : pair[1] < pair[2]}

LEMMA BelowIsWellFounded == IsWellFoundedOn(Below, Nat)
  BY NatLessThanWellFounded DEF OpToRel, Below

\* Induction, for a set of numbers.
LEMMA SetInduction ==
  ASSUME NEW S, 0 \in S, \A n \in Nat : n \in S => n + 1 \in S
  PROVE  Nat \subseteq S
<1> SUFFICES ASSUME Nat \ S # {} PROVE FALSE
  OBVIOUS
<1>1. PICK x \in Nat \ S : \A y \in Nat \ S : <<y, x>> \notin Below
  BY BelowIsWellFounded, WFMin
<1>2. x # 0 /\ x - 1 \in Nat
  BY <1>1
<1>3. <<x - 1, x>> \in Below
  BY <1>2 DEF Below
<1>4. x - 1 \in S
  BY <1>1, <1>2, <1>3
<1>5. x - 1 + 1 \in S
  BY <1>2, <1>4
<1> QED
  BY <1>1, <1>2, <1>5

\* f is made of base and step, over 0..N.
Recursion(f, N, base, step) ==
  \A n \in 0..N : f[n] = IF n = 0 THEN base ELSE step[<<f[n - 1], n>>]

\* There is such a function, with its values in a set S that each step stays in.
LEMMA PrimitiveRecursion ==
  ASSUME NEW N \in Nat, NEW S, NEW base \in S, NEW step \in [S \X Nat -> S]
  PROVE  \E f \in [0..N -> S] : Recursion(f, N, base, step)
<1> DEFINE Upto(f, m) ==
             \A n \in 0..m : f[n] = IF n = 0 THEN base ELSE step[<<f[n - 1], n>>]
           Good == {m \in Nat : \E f \in [0..m -> S] : Upto(f, m)}
<1>1. 0 \in Good
  <2> DEFINE f == [n \in 0..0 |-> base]
  <2>1. f \in [0..0 -> S] /\ Upto(f, 0)
    OBVIOUS
  <2> QED
    BY <2>1
<1>2. \A m \in Nat : m \in Good => m + 1 \in Good
  <2> TAKE m \in Nat
  <2> HAVE m \in Good
  <2>1. PICK f \in [0..m -> S] : Upto(f, m)
    OBVIOUS
  <2> DEFINE g == [n \in 0..m + 1 |-> IF n = m + 1 THEN step[<<f[m], m + 1>>] ELSE f[n]]
  <2>2. step[<<f[m], m + 1>>] \in S
    BY <2>1
  <2>3. g \in [0..m + 1 -> S]
    BY <2>1, <2>2
  <2>4. \A n \in 0..m : g[n] = f[n]
    BY <2>1
  <2>5. g[m + 1] = step[<<g[m], m + 1>>]
    <3>1. g[m + 1] = step[<<f[m], m + 1>>]
      OBVIOUS
    <3>2. g[m] = f[m]
      BY <2>4
    <3> HIDE DEF g
    <3> QED
      BY <3>1, <3>2
  <2>6. Upto(g, m + 1)
    <3> SUFFICES ASSUME NEW n \in 0..m + 1
                 PROVE  g[n] = IF n = 0 THEN base ELSE step[<<g[n - 1], n>>]
      OBVIOUS
    <3>1. CASE n = m + 1
      BY <2>5, <3>1
    <3>2. CASE n \in 0..m
      <4>1. n # 0 => n - 1 \in 0..m
        BY <3>2
      <4> HIDE DEF g
      <4> QED
        BY <2>1, <2>4, <3>2, <4>1
    <3> QED
      BY <3>1, <3>2
  <2> HIDE DEF g
  <2> QED
    BY <2>3, <2>6
<1> HIDE DEF Good
<1>3. N \in Good
  BY <1>1, <1>2, SetInduction
<1> QED
  BY <1>3 DEF Good, Recursion

-----------------------------------------------------------------------------
(* What a select returns.                                                   *)

\* How many of the first n places are in a set of places.
Among(places, n) == Cardinality(places \cap (1..n))

LEMMA AmongGrows ==
  ASSUME NEW places, NEW n \in Nat
  PROVE  /\ Among(places, n) \in Nat /\ Among(places, n) <= n
         /\ Among(places, 0) = 0
         /\ Among(places, n + 1) = Among(places, n) + (IF n + 1 \in places THEN 1 ELSE 0)
<1> DEFINE H == places \cap (1..n)
<1>1. IsFiniteSet(1..n) /\ Cardinality(1..n) = n
  BY FS_Interval
<1>2. H \subseteq 1..n
  OBVIOUS
<1>3. IsFiniteSet(H) /\ Cardinality(H) <= n /\ Cardinality(H) \in Nat
  BY <1>1, <1>2, FS_Subset, FS_CardinalityType
<1>4. n + 1 \notin H
  OBVIOUS
<1>5. places \cap (1..n + 1) = IF n + 1 \in places THEN H \cup {n + 1} ELSE H
  OBVIOUS
<1>6. places \cap (1..0) = {}
  OBVIOUS
<1> HIDE DEF H
<1>7. Cardinality(H \cup {n + 1}) = Cardinality(H) + 1
  BY <1>3, <1>4, FS_AddElement
<1>8. Among(places, n) = Cardinality(H)
  BY DEF Among, H
<1>9. Among(places, n + 1) = Cardinality(H) + (IF n + 1 \in places THEN 1 ELSE 0)
  <2>1. CASE n + 1 \in places
    BY <1>5, <1>7, <2>1 DEF Among
  <2>2. CASE n + 1 \notin places
    BY <1>3, <1>5, <2>2 DEF Among
  <2> QED
    BY <2>1, <2>2
<1>10. Among(places, 0) = 0
  BY <1>6, FS_EmptySet DEF Among
<1> QED
  BY <1>3, <1>8, <1>9, <1>10

\* The places of a table where a row matches.
Hits(table, from, to) == {i \in DOMAIN table : Between(table[i], from, to)}

\* A select returns rows of the table, one for each place where one matches.
LEMMA MatchingFacts ==
  ASSUME NEW S, NEW table \in Seq(S), NEW from, NEW to
  PROVE  /\ Matching(table, from, to) \in Seq(S)
         /\ Len(Matching(table, from, to)) = Cardinality(Hits(table, from, to))
         /\ Len(Matching(table, from, to)) <= Len(table)
<1> DEFINE L == Len(table)
           H == Hits(table, from, to)
           Also(f, n) == IF Between(table[n], from, to) THEN Append(f[n - 1], table[n])
                                                        ELSE f[n - 1]
           Is(f) == f = [n \in 0..L |-> IF n = 0 THEN <<>> ELSE Also(f, n)]
<1>0. L \in Nat /\ \A i \in 1..L : table[i] \in S
  BY LenProperties, ElementOfSeq
<1> DEFINE f == CHOOSE f : Is(f)
<1>1. Matching(table, from, to) = f[L]
  BY DEF Matching
<1>h. /\ \A i \in 1..L : i \in H <=> Between(table[i], from, to)
      /\ H \cap (1..L) = H
  BY LenProperties DEF Hits
<1> HIDE DEF f, L, H
<1>2. \E g : Is(g)
  <2> DEFINE step == [pair \in Seq(S) \X Nat |->
               IF pair[2] \in 1..L /\ Between(table[pair[2]], from, to)
               THEN Append(pair[1], table[pair[2]]) ELSE pair[1]]
  <2>1. step \in [Seq(S) \X Nat -> Seq(S)]
    <3> SUFFICES ASSUME NEW pair \in Seq(S) \X Nat
                 PROVE  step[pair] \in Seq(S)
      OBVIOUS
    <3>1. pair[1] \in Seq(S)
      OBVIOUS
    <3>2. ASSUME pair[2] \in 1..L PROVE Append(pair[1], table[pair[2]]) \in Seq(S)
      BY <1>0, <3>1, <3>2, AppendProperties
    <3> QED
      BY <3>1, <3>2
  <2>2. <<>> \in Seq(S)
    OBVIOUS
  <2>3. \A s \in Seq(S), n \in 1..L :
          step[<<s, n>>] = IF Between(table[n], from, to) THEN Append(s, table[n]) ELSE s
    BY <1>0
  <2> HIDE DEF step
  <2>4. PICK g \in [0..L -> Seq(S)] :
          \A n \in 0..L : g[n] = IF n = 0 THEN <<>> ELSE step[<<g[n - 1], n>>]
    <3> DEFINE T == Seq(S)
               none == <<>>
    <3>1. L \in Nat /\ none \in T /\ step \in [T \X Nat -> T]
      BY <1>0, <2>1, <2>2
    <3> HIDE DEF T, none
    <3>2. \E g \in [0..L -> T] : Recursion(g, L, none, step)
      BY <3>1, PrimitiveRecursion
    <3> QED
      BY <3>2 DEF T, none, Recursion
  <2>5. ASSUME NEW n \in 0..L, n # 0 PROVE g[n] = Also(g, n)
    <3>1. n \in 1..L /\ n - 1 \in 0..L
      BY <1>0, <2>5
    <3>2. g[n - 1] \in Seq(S)
      BY <3>1
    <3> QED
      BY <2>3, <2>4, <2>5, <3>1, <3>2
  <2>6. \A n \in 0..L : g[n] = IF n = 0 THEN <<>> ELSE Also(g, n)
    BY <2>4, <2>5
  <2> HIDE DEF Also
  <2>7. g = [n \in 0..L |-> IF n = 0 THEN <<>> ELSE Also(g, n)]
    BY <2>4, <2>6
  <2> QED
    BY <2>7
<1>3. f = [n \in 0..L |-> IF n = 0 THEN <<>> ELSE Also(f, n)]
  BY <1>2 DEF f
<1>4. f[0] = <<>> /\ \A n \in 1..L : f[n] = Also(f, n)
  <2> HIDE DEF Also
  <2> QED
    BY <1>0, <1>3
<1> DEFINE Good == {n \in Nat : n <= L =>
             f[n] \in Seq(S) /\ Len(f[n]) = Among(H, n)}
<1>5. 0 \in Good
  <2>1. f[0] \in Seq(S) /\ Len(f[0]) = 0
    BY <1>4
  <2>2. Among(H, 0) = 0
    BY AmongGrows
  <2> QED
    BY <2>1, <2>2
<1>6. \A n \in Nat : n \in Good => n + 1 \in Good
  <2> SUFFICES ASSUME NEW n \in Nat, n \in Good, n + 1 <= L
               PROVE  /\ f[n + 1] \in Seq(S)
                      /\ Len(f[n + 1]) = Among(H, n + 1)
    OBVIOUS
  <2>1. n + 1 \in 1..L /\ n <= L
    BY <1>0
  <2>2. f[n] \in Seq(S) /\ Len(f[n]) = Among(H, n)
    BY <2>1
  <2>3. f[n + 1] = IF Between(table[n + 1], from, to) THEN Append(f[n], table[n + 1])
                                                      ELSE f[n]
    BY <1>0, <1>4, <2>1
  <2>4. Among(H, n + 1) =
          Among(H, n)
            + (IF Between(table[n + 1], from, to) THEN 1 ELSE 0)
    BY <1>h, <2>1, AmongGrows
  <2>5. table[n + 1] \in S
    BY <1>0, <2>1
  <2>6. Len(f[n]) \in Nat /\ Append(f[n], table[n + 1]) \in Seq(S)
        /\ Len(Append(f[n], table[n + 1])) = Len(f[n]) + 1
    BY <2>2, <2>5, AppendProperties, LenProperties
  <2> QED
    BY <2>2, <2>3, <2>4, <2>6
<1> HIDE DEF Good
<1>7. L \in Good
  BY <1>0, <1>5, <1>6, SetInduction
<1>8. Among(H, L) = Cardinality(H)
  BY <1>h DEF Among
<1>9. Among(H, L) <= L
  BY <1>0, AmongGrows
<1> QED
  BY <1>0, <1>1, <1>7, <1>8, <1>9 DEF Good, H, L

\* A row taken out of a table is one match less at most.
LEMMA MatchesFall ==
  ASSUME NEW S, NEW table \in Seq(S), NEW i \in 1..Len(table), NEW from, NEW to
  PROVE  Len(Matching(RemoveAt(table, i), from, to)) <= Len(Matching(table, from, to))
<1> DEFINE rest == RemoveAt(table, i)
           H == Hits(table, from, to)
           R == Hits(rest, from, to)
           back == [j \in R |-> IF j < i THEN j ELSE j + 1]
<1>1. /\ rest \in Seq(S) /\ Len(rest) = Len(table) - 1 /\ Len(table) \in Nat
      /\ \A j \in 1..Len(rest) : rest[j] = IF j < i THEN table[j] ELSE table[j + 1]
  <2>1. Len(table) \in Nat
    BY LenProperties
  <2>2. /\ rest \in Seq(S) /\ Len(rest) = Len(table) - 1
        /\ \A j \in 1 .. Len(table) - 1 : rest[j] = IF j < i THEN table[j] ELSE table[j + 1]
    BY RemoveAtFacts
  <2> HIDE DEF rest
  <2> QED
    BY <2>1, <2>2
<1>2. R \subseteq 1..Len(rest) /\ H \subseteq 1..Len(table)
  BY <1>1, LenProperties DEF Hits
<1>3. back \in [R -> H]
  BY <1>1, <1>2, LenProperties DEF Hits
<1>4. \A j, k \in R : back[j] = back[k] => j = k
  BY <1>2
<1>5. IsFiniteSet(H)
  <2>1. IsFiniteSet(1..Len(table))
    BY <1>1, FS_Interval
  <2> QED
    BY <1>2, <2>1, FS_Subset
<1> HIDE DEF H, R, back
<1>6. Cardinality(R) <= Cardinality(H)
  <2>1. back \in Injection(R, H)
    BY <1>3, <1>4, Fun_IsInj
  <2> QED
    BY <1>5, <2>1, FS_Injection
<1> HIDE DEF rest
<1>7. Len(Matching(rest, from, to)) = Cardinality(R)
  BY <1>1, MatchingFacts DEF R
<1>8. Len(Matching(table, from, to)) = Cardinality(H)
  BY MatchingFacts DEF H
<1> QED
  BY <1>6, <1>7, <1>8 DEF rest

-----------------------------------------------------------------------------
(* The length of the answer.                                                *)

\* Each entry that is not nulled takes 50 bytes, the first of them 49.
LEMMA PrintedLength ==
  ASSUME NEW S, NEW entries \in Seq(S)
  PROVE  LET c == CountNotNull(entries)
         IN  c \in Nat /\ Printed(entries) = 11 + (IF c = 0 THEN 0 ELSE 50 * c - 1)
<1> DEFINE L == Len(entries)
           C == {i \in DOMAIN entries : ~IsNull(entries[i])}
           Also(f, n) == IF IsNull(entries[n]) THEN f[n - 1]
                         ELSE (IF f[n - 1] = 9 THEN 9 ELSE f[n - 1] + 1) + 49
           Is(f) == f = [n \in 0..L |-> IF n = 0 THEN 9 ELSE Also(f, n)]
           f == CHOOSE f : Is(f)
           Length(c) == 9 + (IF c = 0 THEN 0 ELSE 50 * c - 1)
<1>0. L \in Nat
  BY LenProperties
<1>1. Printed(entries) = f[L] + 2
  BY DEF Printed
<1>h. /\ \A i \in 1..L : i \in C <=> ~IsNull(entries[i])
      /\ C \cap (1..L) = C
  BY LenProperties
<1>c. CountNotNull(entries) = Cardinality(C)
  BY DEF CountNotNull
<1> HIDE DEF f, L, C
<1>2. \E g : Is(g)
  <2> DEFINE step == [pair \in Int \X Nat |->
               IF IsNull(entries[pair[2]]) THEN pair[1]
               ELSE (IF pair[1] = 9 THEN 9 ELSE pair[1] + 1) + 49]
  <2>1. step \in [Int \X Nat -> Int]
    OBVIOUS
  <2>2. \A k \in Int, n \in Nat :
          step[<<k, n>>] = IF IsNull(entries[n]) THEN k
                           ELSE (IF k = 9 THEN 9 ELSE k + 1) + 49
    OBVIOUS
  <2> HIDE DEF step
  <2>3. PICK g \in [0..L -> Int] : Recursion(g, L, 9, step)
    <3>1. 9 \in Int
      OBVIOUS
    <3> QED
      BY <1>0, <2>1, <3>1, PrimitiveRecursion
  <2>4. ASSUME NEW n \in 0..L, n # 0 PROVE g[n] = Also(g, n)
    <3>1. n \in Nat /\ n - 1 \in 0..L
      BY <1>0, <2>4
    <3>2. g[n - 1] \in Int
      BY <3>1
    <3>3. g[n] = step[<<g[n - 1], n>>]
      BY <2>3, <2>4 DEF Recursion
    <3> QED
      BY <2>2, <3>1, <3>2, <3>3
  <2>5. g[0] = 9
    <3>1. 0 \in 0..L
      BY <1>0
    <3> QED
      BY <2>3, <3>1 DEF Recursion
  <2> HIDE DEF Also
  <2>6. g = [n \in 0..L |-> IF n = 0 THEN 9 ELSE Also(g, n)]
    BY <2>4, <2>5
  <2> QED
    BY <2>6
<1>3. f = [n \in 0..L |-> IF n = 0 THEN 9 ELSE Also(f, n)]
  BY <1>2 DEF f
<1>4. f[0] = 9 /\ \A n \in 1..L : f[n] = Also(f, n)
  <2> HIDE DEF Also
  <2> QED
    BY <1>0, <1>3
<1> DEFINE Good == {n \in Nat : n <= L => f[n] = Length(Among(C, n))}
<1>5. 0 \in Good
  BY <1>4, AmongGrows
<1>6. \A n \in Nat : n \in Good => n + 1 \in Good
  <2> SUFFICES ASSUME NEW n \in Nat, n \in Good, n + 1 <= L
               PROVE  f[n + 1] = Length(Among(C, n + 1))
    OBVIOUS
  <2>1. n + 1 \in 1..L /\ n <= L
    BY <1>0
  <2>2. f[n] = Length(Among(C, n))
    BY <2>1
  <2>3. f[n + 1] = IF n + 1 \in C THEN (IF f[n] = 9 THEN 9 ELSE f[n] + 1) + 49 ELSE f[n]
    BY <1>4, <1>h, <2>1
  <2>4. /\ Among(C, n) \in Nat
        /\ Among(C, n + 1) = Among(C, n) + (IF n + 1 \in C THEN 1 ELSE 0)
    BY AmongGrows
  <2>5. \A c \in Nat : Length(c + 1) = (IF Length(c) = 9 THEN 9 ELSE Length(c) + 1) + 49
    OBVIOUS
  <2> HIDE DEF Length
  <2>6. CASE n + 1 \in C
    BY <2>2, <2>3, <2>4, <2>5, <2>6
  <2>7. CASE n + 1 \notin C
    BY <2>2, <2>3, <2>4, <2>7
  <2> QED
    BY <2>6, <2>7
<1> HIDE DEF Good
<1>7. L \in Good
  BY <1>0, <1>5, <1>6, SetInduction
<1>8. Among(C, L) = Cardinality(C) /\ Among(C, L) \in Nat
  BY <1>0, <1>h, AmongGrows DEF Among
<1> QED
  BY <1>0, <1>1, <1>c, <1>7, <1>8 DEF Good

\* A step of either program is one of the logger's, or leaves its state alone.
LEMMA ServerReadsOnly ==
  ASSUME [Next]_vars
  PROVE  [LoggerNext]_loggerState
<1>1. CASE Logging
  BY <1>1 DEF Logging
<1>2. CASE Serving
  <2>1. UNCHANGED rows
    BY <1>2 DEF Serving, ServerNext, ServerStep, Accept, Receive, Reject, Count, Fetch, ReadFails,
       Respond, Abort, StopServer, InterruptServer
  <2> QED
    BY <1>2, <2>1 DEF Serving, loggerState
<1>3. CASE Stopped \/ UNCHANGED vars
  BY <1>3 DEF Stopped, vars, loggerState
<1> QED
  BY <1>1, <1>2, <1>3 DEF Next

\* Beside a server the logger is still the logger: the server changes neither a table
\* nor anything else the logger looks at.
THEOREM LoggerUndisturbed == Spec => LoggerSpec
<1>1. Init => LoggerInit
  BY DEF Init
<1>2. [Next]_vars => [LoggerNext]_loggerState
  BY ServerReadsOnly
<1> QED
  BY <1>1, <1>2, PTL DEF Spec, LoggerSpec

\* Nothing is due when the next reading is waited for, whatever the server does.
THEOREM NothingIsLateBeside == ASSUME Calm PROVE Spec => []NoBacklog
  BY LoggerUndisturbed, NothingIsLate, PTL

\* The reading that makes an average due is part of it, whatever the server does.
THEOREM ReadingCountsBeside == ASSUME Calm PROVE Spec => []AverageIncludesReading
  BY LoggerUndisturbed, ReadingCounts, PTL

-----------------------------------------------------------------------------
(* The types of the server.                                                 *)

\* Arrays, and those nothing has been stored in yet.
Array == [size : Nat, items : Seq(Row)]
Blank == {array \in Array : array.items = <<>>}

\* The logs that are still to be read have arrays that can be counted for.
ServerTypes ==
  /\ ServerTypeOK
  /\ spc \in {"count", "fetch"} => \A l \in Logs : l >= at => arrays[l] \in Blank

LEMMA EmptyIsBlank == EmptyArray \in Blank
<1>1. <<>> \in Seq(Row)
  OBVIOUS
<1> QED
  BY <1>1 DEF EmptyArray, Blank, Array

LEMMA ServerTypesInit == ServerInit => ServerTypes
  BY EmptyIsBlank DEF ServerInit, ServerTypes, ServerTypeOK, Blank, Array, Logs

LEMMA SelectedType ==
  ASSUME RowsTypeOK, NEW l \in Logs, NEW from, NEW to
  PROVE  Selected(l, from, to) \in Seq(Row) /\ Len(Selected(l, from, to)) \in Nat
<1>1. rows[l] \in Seq(Row)
  BY DEF RowsTypeOK
<1>2. Matching(rows[l], from, to) \in Seq(Row)
  BY <1>1, MatchingFacts
<1> QED
  BY <1>2, LenProperties DEF Selected

\* Every step keeps them: a read stores one array, which is Failed or has a size.
LEMMA ServerTypesStep ==
  ASSUME LoggerTypeOK, ServerTypes, [Next]_vars
  PROVE  ServerTypes'
<1>0. /\ spc \in {"listen", "recv", "count", "fetch", "respond", "done", "aborted"}
      /\ serving \in BOOLEAN /\ range \in Ranges /\ at \in 1..3
      /\ DOMAIN arrays = Logs /\ reply \in {"none", "400", "413", "500", "200"}
      /\ \A l \in Logs : arrays[l] = Failed
                         \/ (arrays[l].size \in Nat /\ arrays[l].items \in Seq(Row))
      /\ spc \in {"count", "fetch"} => \A l \in Logs : l >= at => arrays[l] \in Blank
  BY DEF ServerTypes, ServerTypeOK, Logs
<1>n. ASSUME NextArray
      PROVE  (spc' = "count" /\ at' = at + 1 /\ at < 3) \/ (spc' = "respond" /\ at' = at)
  BY <1>n DEF NextArray
<1>1. CASE Receive
  BY <1>0, <1>1, EmptyIsBlank DEF Receive, ServerTypes, ServerTypeOK, Blank, Array, Logs
<1>2. CASE Count
  <2> DEFINE n == Len(Selected(at, range.from, range.to))
  <2>1. /\ spc = "count" /\ spc' = "fetch" /\ UNCHANGED <<serving, range, at, reply>>
        /\ arrays' = [arrays EXCEPT ![at].size = n]
    BY <1>2 DEF Count
  <2>2. n \in Nat
    BY <1>0, SelectedType DEF LoggerTypeOK, Logs
  <2>3. arrays[at] \in Blank
    BY <1>0, <2>1 DEF Logs
  <2> HIDE DEF n
  <2>4. arrays'[at] \in Blank /\ \A l \in Logs \ {at} : arrays'[l] = arrays[l]
    BY <1>0, <2>1, <2>2, <2>3 DEF Blank, Array, Logs
  <2>5. DOMAIN arrays' = Logs
    BY <1>0, <2>1
  <2>6. \A l \in Logs : arrays'[l] = Failed
                         \/ (arrays'[l].size \in Nat /\ arrays'[l].items \in Seq(Row))
    BY <1>0, <2>4 DEF Blank, Array
  <2>7. \A l \in Logs : l >= at => arrays'[l] \in Blank
    BY <1>0, <2>1, <2>4
  <2> QED
    BY <1>0, <2>1, <2>5, <2>6, <2>7 DEF ServerTypes, ServerTypeOK, Logs
<1>3. CASE Fetch
  <2> DEFINE s == Selected(at, range.from, range.to)
  <2>1. /\ spc = "fetch" /\ UNCHANGED <<serving, range, reply>> /\ NextArray
        /\ arrays' = [arrays EXCEPT ![at].items = s]
    BY <1>3 DEF Fetch
  <2>2. s \in Seq(Row)
    BY <1>0, SelectedType DEF LoggerTypeOK, Logs
  <2>3. arrays[at] \in Blank
    BY <1>0, <2>1 DEF Logs
  <2> HIDE DEF s
  <2>4. arrays'[at] \in Array /\ \A l \in Logs \ {at} : arrays'[l] = arrays[l]
    BY <1>0, <2>1, <2>2, <2>3 DEF Blank, Array, Logs
  <2>5. DOMAIN arrays' = Logs
    BY <1>0, <2>1
  <2>6. \A l \in Logs : arrays'[l] = Failed
                         \/ (arrays'[l].size \in Nat /\ arrays'[l].items \in Seq(Row))
    BY <1>0, <2>4 DEF Array
  <2>7. \A l \in Logs : l > at => arrays'[l] \in Blank
    <3> SUFFICES ASSUME NEW l \in Logs, l > at PROVE arrays'[l] \in Blank
      OBVIOUS
    <3>1. l # at /\ l >= at
      BY <1>0 DEF Logs
    <3> QED
      BY <1>0, <2>1, <2>4, <3>1
  <2>8. (spc' = "count" /\ at' = at + 1 /\ at < 3) \/ (spc' = "respond" /\ at' = at)
    BY <1>n, <2>1
  <2>9. spc' \in {"count", "fetch"} => \A l \in Logs : l >= at' => arrays'[l] \in Blank
    BY <1>0, <2>7, <2>8 DEF Logs
  <2> QED
    BY <1>0, <2>1, <2>5, <2>6, <2>8, <2>9 DEF ServerTypes, ServerTypeOK, Logs
<1>4. CASE ReadFails
  <2>1. /\ spc \in {"count", "fetch"} /\ UNCHANGED <<serving, range, reply>> /\ NextArray
        /\ arrays' = [arrays EXCEPT ![at] = Failed]
    BY <1>4 DEF ReadFails
  <2>2. /\ DOMAIN arrays' = Logs /\ arrays'[at] = Failed
        /\ \A l \in Logs \ {at} : arrays'[l] = arrays[l]
    BY <1>0, <2>1 DEF Logs
  <2>3. \A l \in Logs : arrays'[l] = Failed
                         \/ (arrays'[l].size \in Nat /\ arrays'[l].items \in Seq(Row))
    BY <1>0, <2>2
  <2>4. \A l \in Logs : l > at => arrays'[l] \in Blank
    <3> SUFFICES ASSUME NEW l \in Logs, l > at PROVE arrays'[l] \in Blank
      OBVIOUS
    <3>1. l # at /\ l >= at
      BY <1>0 DEF Logs
    <3> QED
      BY <1>0, <2>1, <2>2, <3>1
  <2>5. (spc' = "count" /\ at' = at + 1 /\ at < 3) \/ (spc' = "respond" /\ at' = at)
    BY <1>n, <2>1
  <2>6. spc' \in {"count", "fetch"} => \A l \in Logs : l >= at' => arrays'[l] \in Blank
    BY <1>0, <2>4, <2>5 DEF Logs
  <2> QED
    BY <1>0, <2>1, <2>2, <2>3, <2>5, <2>6 DEF ServerTypes, ServerTypeOK, Logs
<1>5. CASE Respond
  BY <1>0, <1>5, EmptyIsBlank DEF Respond, ServerTypes, ServerTypeOK, Blank, Array
<1>6. CASE Accept \/ Reject \/ Abort \/ StopServer \/ InterruptServer
  BY <1>0, <1>6 DEF Accept, Reject, Abort, StopServer, InterruptServer, ServerTypes,
     ServerTypeOK, Logs
<1>7. CASE UNCHANGED serverVars
  BY <1>0, <1>7 DEF serverVars, ServerTypes, ServerTypeOK, Logs
<1> QED
  BY <1>1, <1>2, <1>3, <1>4, <1>5, <1>6, <1>7
     DEF Next, vars, Logging, Serving, Stopped, ServerNext, ServerStep

LEMMA ServerTypesKept == Spec => [](LoggerTypeOK /\ ServerTypes)
<1>1. Spec => []LoggerTypeOK
  BY LoggerUndisturbed, LoggerTypes, PTL
<1>2. Init => ServerTypes
  BY ServerTypesInit DEF Init
<1>3. LoggerTypeOK /\ ServerTypes /\ [Next]_vars => ServerTypes'
  BY ServerTypesStep
<1> QED
  BY <1>1, <1>2, <1>3, PTL DEF Spec

\* No variable of either program leaves its type, whatever fails, whatever an earlier
\* session left in the tables and whatever clients ask for.
THEOREM KioskTypes == Spec => []TypeOK
<1>1. LoggerTypeOK /\ ServerTypes => TypeOK
  BY DEF ServerTypes, TypeOK
<1> QED
  BY <1>1, ServerTypesKept, PTL

\* What is sent of an array are rows, as many as it has room for.
LEMMA RoomIsRows ==
  ASSUME NEW array, array.size \in Nat, array.items \in Seq(Row), array.size <= Len(array.items)
  PROVE  Room(array) \in Seq(Row)
<1> DEFINE items == array.items
           size == array.size
<1>1. /\ items \in Seq(Row) /\ size \in Int /\ Len(items) \in Nat
      /\ \A i \in 1..size : items[i] \in Row
  BY LenProperties, ElementOfSeq
<1> HIDE DEF items, size
<1>2. SubSeq(items, 1, size) \in Seq(Row)
  BY <1>1, SubSeqProperties
<1> QED
  BY <1>2 DEF Room, items, size

\* An answer with an entry in it has the length that was announced for it and that
\* memory was asked for, however many entries are nulled, and whether or not a row more
\* was fetched than an array has room for.
THEOREM LengthsAgree == Spec => []EntriesAnnounced
<1>1. LoggerTypeOK /\ ServerTypes => EntriesAnnounced
  <2> SUFFICES ASSUME ServerTypes, Filled, CountNotNull(Sent) > 0
               PROVE  Printed(Sent) = JsonSize(Sent)
    BY DEF EntriesAnnounced
  <2>1. \A l \in Logs : Room(arrays[l]) \in Seq(Row)
    BY RoomIsRows DEF ServerTypes, ServerTypeOK, Filled
  <2>2. Room(arrays[1]) \o Room(arrays[2]) \in Seq(Row)
    BY <2>1, ConcatProperties DEF Logs
  <2>3. Sent \in Seq(Row)
    BY <2>1, <2>2, ConcatProperties DEF Sent, Logs
  <2> DEFINE entries == Sent
             c == CountNotNull(entries)
  <2> HIDE DEF entries
  <2>4. c \in Nat /\ Printed(entries) = 11 + (IF c = 0 THEN 0 ELSE 50 * c - 1)
    BY <2>3, PrintedLength DEF entries
  <2>5. JsonSize(entries) = 11 + 50 * c - 1
    BY DEF JsonSize
  <2>6. c > 0
    BY DEF entries
  <2> HIDE DEF c
  <2>7. Printed(entries) = JsonSize(entries)
    BY <2>4, <2>5, <2>6
  <2> QED
    BY <2>7 DEF entries
<1> QED
  BY <1>1, ServerTypesKept, PTL

-----------------------------------------------------------------------------
(* An array that turns out too small.                                       *)

\* What was made for no rows gets one, at most; any other array is large enough.
Within(array) ==
  array # Failed /\ Len(array.items) > array.size => array.size = 0 /\ Len(array.items) = 1

\* Since it was counted, its log has only lost rows, or has been emptied.
Counted ==
  spc = "fetch" =>
    Len(rows[at]) <= 1 \/ Len(Selected(at, range.from, range.to)) <= arrays[at].size

OverrunInv == Counted /\ \A l \in Logs : Within(arrays[l])

LEMMA BlankIsWithin == \A array \in Blank : Within(array)
  BY DEF Blank, Array, Within

\* A step of the logger takes rows from a log, or leaves it with one at most.
LEMMA LogShrinks ==
  ASSUME Tidy, Tidy', [LoggerNext]_loggerState, NEW l \in Logs, NEW from, NEW to
  PROVE  \/ Len(rows'[l]) <= 1
         \/ /\ Len(Matching(rows'[l], from, to)) <= Len(Matching(rows[l], from, to))
            /\ Len(rows'[l]) <= Len(rows[l])
<1>0. /\ rows \in [Logs -> Seq(Whole)] /\ rows[l] \in Seq(Whole)
      /\ Len(rows[l]) \in Nat /\ Len(Matching(rows[l], from, to)) \in Nat
      /\ LoggerTypeOK
  <2>1. rows \in [Logs -> Seq(Whole)] /\ rows[l] \in Seq(Whole) /\ LoggerTypeOK
    BY DEF Tidy, TypeInv
  <2>2. Matching(rows[l], from, to) \in Seq(Whole)
    BY <2>1, MatchingFacts
  <2> QED
    BY <2>1, <2>2, LenProperties
<1>1. CASE PruneRow
  <2> DEFINE c == cursor + 1
  <2>1. c \in 1..Len(rows[log]) /\ Delete(log, c) /\ log \in Logs
    BY <1>0, <1>1, LenProperties DEF PruneRow, More, Tidy, TypeInv, LoggerTypeOK, Logs
  <2> HIDE DEF c
  <2>2. CASE l = log
    <3>1. rows'[l] = RemoveAt(rows[l], c) /\ Len(rows'[l]) = Len(rows[l]) - 1
      BY <1>0, <2>1, <2>2, DeleteRows
    <3>2. Len(Matching(RemoveAt(rows[l], c), from, to)) <= Len(Matching(rows[l], from, to))
      BY <1>0, <2>1, <2>2, MatchesFall
    <3> QED
      BY <1>0, <3>1, <3>2
  <2>3. CASE l # log
    <3>1. rows'[l] = rows[l]
      BY <1>0, <2>1, <2>3, DeleteRows
    <3> QED
      BY <1>0, <3>1
  <2> QED
    BY <2>2, <2>3
<1>2. CASE InsertRow
  <2>1. lpc' \in {"loop", "average"}
    BY <1>0, <1>2, GoOnFacts DEF InsertRow
  <2> QED
    BY <2>1 DEF Tidy, OneRowEach
<1>3. CASE UNCHANGED rows
  BY <1>0, <1>3
<1> QED
  BY <1>1, <1>2, <1>3 DEF LoggerNext, LoggerStep, PruneFails, PruneDone, SkipOld, Loop, Read,
     Average, AverageFails, InsertFails, Advance, InterruptLogger, loggerState

LEMMA OverrunStep ==
  ASSUME ServerTypes, Tidy, Tidy', OverrunInv, [Next]_vars
  PROVE  OverrunInv'
<1>0. /\ DOMAIN arrays = Logs /\ at \in Logs /\ RowsTypeOK
      /\ spc \in {"count", "fetch"} => arrays[at] \in Blank
      /\ \A l \in Logs : Within(arrays[l])
      /\ Counted
  BY DEF ServerTypes, ServerTypeOK, Tidy, TypeInv, LoggerTypeOK, OverrunInv, Logs
<1>n. ASSUME NextArray PROVE spc' # "fetch"
  BY <1>n DEF NextArray
<1>1. CASE UNCHANGED serverVars
  <2>1. [LoggerNext]_loggerState
    BY ServerReadsOnly
  <2>2. UNCHANGED <<spc, range, at, arrays>>
    BY <1>1 DEF serverVars
  <2>3. Counted'
    <3> SUFFICES ASSUME spc = "fetch"
                 PROVE  \/ Len(rows'[at]) <= 1
                        \/ Len(Matching(rows'[at], range.from, range.to)) <= arrays[at].size
      BY <2>2 DEF Counted, Selected
    <3> DEFINE before == Len(Matching(rows[at], range.from, range.to))
               after == Len(Matching(rows'[at], range.from, range.to))
    <3>1. Len(rows[at]) <= 1 \/ before <= arrays[at].size
      BY <1>0 DEF Counted, Selected
    <3>2. Len(rows'[at]) <= 1 \/ (after <= before /\ Len(rows'[at]) <= Len(rows[at]))
      BY <1>0, <2>1, LogShrinks
    <3>3. /\ before \in Nat /\ after \in Nat /\ arrays[at].size \in Nat
          /\ Len(rows[at]) \in Nat /\ Len(rows'[at]) \in Nat
      <4>1. rows[at] \in Seq(Row) /\ rows'[at] \in Seq(Row)
        BY <1>0 DEF RowsTypeOK, Tidy, TypeInv, LoggerTypeOK
      <4>2. /\ Matching(rows[at], range.from, range.to) \in Seq(Row)
            /\ Matching(rows'[at], range.from, range.to) \in Seq(Row)
        BY <4>1, MatchingFacts
      <4> QED
        BY <1>0, <4>1, <4>2, LenProperties DEF Blank, Array
    <3> HIDE DEF before, after
    <3> QED
      BY <3>1, <3>2, <3>3 DEF after
  <2> QED
    BY <1>0, <2>2, <2>3 DEF OverrunInv
<1>2. CASE Count
  <2> DEFINE n == Len(Selected(at, range.from, range.to))
  <2>1. /\ spc = "count" /\ UNCHANGED <<rows, range, at>>
        /\ arrays' = [arrays EXCEPT ![at].size = n]
    BY <1>2 DEF Count
  <2>2. n \in Nat
    BY <1>0, SelectedType
  <2>3. n = n' /\ Selected(at, range.from, range.to)' = Selected(at, range.from, range.to)
    BY <2>1 DEF Selected
  <2> HIDE DEF n
  <2>4. arrays'[at] \in Blank /\ arrays'[at].size = n
        /\ \A l \in Logs \ {at} : arrays'[l] = arrays[l]
    BY <1>0, <2>1, <2>2 DEF Blank, Array
  <2>5. \A l \in Logs : Within(arrays'[l])
    BY <1>0, <2>4, BlankIsWithin
  <2>6. Counted'
    BY <2>1, <2>2, <2>3, <2>4 DEF Counted, n
  <2> QED
    BY <2>5, <2>6 DEF OverrunInv
<1>3. CASE Fetch
  <2> DEFINE s == Selected(at, range.from, range.to)
             size == arrays[at].size
  <2>1. /\ spc = "fetch" /\ NextArray
        /\ arrays' = [arrays EXCEPT ![at].items = s]
    BY <1>3 DEF Fetch
  <2>2. s \in Seq(Row) /\ Len(s) \in Nat
    BY <1>0, SelectedType
  <2>3. arrays[at] \in Blank /\ size \in Nat
    BY <1>0, <2>1 DEF Blank, Array
  <2>4. Len(s) <= 1 \/ Len(s) <= size
    <3>1. rows[at] \in Seq(Row) /\ Len(rows[at]) \in Nat
      BY <1>0, LenProperties DEF RowsTypeOK
    <3>2. Len(s) <= Len(rows[at])
      BY <3>1, MatchingFacts DEF Selected
    <3>3. Len(rows[at]) <= 1 \/ Len(s) <= size
      BY <1>0, <2>1 DEF Counted
    <3> HIDE DEF s, size
    <3> QED
      BY <2>2, <2>3, <3>1, <3>2, <3>3
  <2> HIDE DEF s
  <2>5. /\ arrays'[at].items = s /\ arrays'[at].size = size
        /\ \A l \in Logs \ {at} : arrays'[l] = arrays[l]
    BY <1>0, <2>1, <2>3 DEF Blank, Array
  <2> HIDE DEF size
  <2>6. Within(arrays'[at])
    <3>1. Len(s) > size => size = 0 /\ Len(s) = 1
      <4>1. \A a, b \in Nat : (a <= 1 \/ a <= b) /\ a > b => b = 0 /\ a = 1
        OBVIOUS
      <4> QED
        BY <2>2, <2>3, <2>4, <4>1
    <3> QED
      BY <2>5, <3>1 DEF Within
  <2>7. \A l \in Logs : Within(arrays'[l])
    BY <1>0, <2>5, <2>6
  <2> QED
    BY <1>n, <2>1, <2>7 DEF OverrunInv, Counted
<1>4. CASE ReadFails
  <2>1. NextArray /\ arrays' = [arrays EXCEPT ![at] = Failed]
    BY <1>4 DEF ReadFails
  <2>2. \A l \in Logs : Within(arrays'[l])
    BY <1>0, <2>1 DEF Within
  <2> QED
    BY <1>n, <2>1, <2>2 DEF OverrunInv, Counted
<1>5. CASE Receive \/ Respond
  <2>1. spc' # "fetch" /\ \A l \in Logs : arrays'[l] = EmptyArray
    BY <1>5 DEF Receive, Respond
  <2> QED
    BY <2>1, EmptyIsBlank, BlankIsWithin DEF OverrunInv, Counted
<1>6. CASE Accept \/ Reject \/ Abort \/ StopServer
  <2>1. spc' # "fetch" /\ UNCHANGED arrays
    BY <1>6 DEF Accept, Reject, Abort, StopServer
  <2> QED
    BY <1>0, <2>1 DEF OverrunInv, Counted
<1>7. CASE InterruptServer
  <2>1. UNCHANGED <<rows, spc, range, at, arrays>>
    BY <1>7 DEF InterruptServer
  <2> QED
    BY <1>0, <2>1 DEF OverrunInv, Counted, Selected
<1> QED
  BY <1>1, <1>2, <1>3, <1>4, <1>5, <1>6, <1>7
     DEF Next, vars, Logging, Serving, Stopped, ServerNext, ServerStep

\* While the logger deletes what it finds, an array that is overrun was made for no rows
\* and gets one: the server never writes further past the end of an array.
THEOREM OverrunBounded == ASSUME Thorough PROVE Spec => []OverrunByOne
<1>1. Spec => []Tidy
  BY LoggerUndisturbed, TidyKept, PTL
<1>2. Init => OverrunInv
  BY EmptyIsBlank, BlankIsWithin DEF Init, ServerInit, OverrunInv, Counted
<1>3. ServerTypes /\ Tidy /\ Tidy' /\ OverrunInv /\ [Next]_vars => OverrunInv'
  BY OverrunStep
<1>4. OverrunInv => OverrunByOne
  BY DEF OverrunInv, Within, OverrunByOne
<1> QED
  BY <1>1, <1>2, <1>3, <1>4, ServerTypesKept, PTL DEF Spec

=============================================================================
