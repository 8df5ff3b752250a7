-------------------------- MODULE FileQueueProofs ---------------------------
(***************************************************************************)
(* The logger over files implements LogQueue, whatever the device sends    *)
(* and wherever it is killed, and prunes a file without ever losing a line *)
(* that is to stay.                                                        *)
(*                                                                         *)
(* Each of the three shapes of a log, a ring, a file being pruned and a    *)
(* file being swapped, is a sequence given line by line; every write is    *)
(* an equation between two of them.                                        *)
(***************************************************************************)
EXTENDS FileLoggerProofs

\* The shapes of Entries.
RingOf(lines, p)        == SubSeq(lines, p + 1, Len(lines)) \o SubSeq(lines, 1, p)
PrunedOf(lines, k, n)   == SubSeq(lines, 1, k) \o SubSeq(lines, n + 1, Len(lines))
ShiftedOf(lines, p, k, b) ==
  SubSeq(lines, 1, k) \o SubSeq(lines, p + k + 1, Len(lines)) \o b

\* Part of a file.
LEMMA Part ==
  ASSUME NEW lines \in Seq(Line), NEW a \in 1 .. Len(lines) + 1, NEW b \in a - 1 .. Len(lines)
  PROVE  /\ SubSeq(lines, a, b) \in Seq(Line)
         /\ Len(SubSeq(lines, a, b)) = b - a + 1
         /\ \A i \in 1 .. b - a + 1 : SubSeq(lines, a, b)[i] = lines[a + i - 1]
<1>1. Len(lines) \in Nat /\ \A i \in a..b : lines[i] \in Line
  BY LenProperties, ElementOfSeq
<1>2. a \in Int /\ b \in Int
  BY <1>1
<1> QED
  BY <1>1, <1>2, SubSeqProperties

LEMMA RingLines ==
  ASSUME NEW lines \in Seq(Line), NEW p \in 0..Len(lines)
  PROVE  /\ RingOf(lines, p) \in Seq(Line) /\ Len(RingOf(lines, p)) = Len(lines)
         /\ \A i \in 1..Len(lines) :
              RingOf(lines, p)[i] = IF i <= Len(lines) - p THEN lines[p + i]
                                                           ELSE lines[i - (Len(lines) - p)]
<1> DEFINE x == SubSeq(lines, p + 1, Len(lines))
           y == SubSeq(lines, 1, p)
<1>0. Len(lines) \in Nat
  BY LenProperties
<1>1. /\ x \in Seq(Line) /\ Len(x) = Len(lines) - p
      /\ \A i \in 1 .. Len(lines) - p : x[i] = lines[p + i]
  BY <1>0, Part
<1>2. y \in Seq(Line) /\ Len(y) = p /\ \A i \in 1..p : y[i] = lines[i]
  BY <1>0, Part
<1> HIDE DEF x, y
<1>3. /\ x \o y \in Seq(Line) /\ Len(x \o y) = Len(lines)
      /\ \A i \in 1..Len(lines) :
           (x \o y)[i] = IF i <= Len(lines) - p THEN x[i] ELSE y[i - (Len(lines) - p)]
  <2>1. /\ x \o y \in Seq(Line) /\ Len(x \o y) = Len(x) + Len(y)
        /\ \A i \in 1 .. Len(x) + Len(y) :
             (x \o y)[i] = IF i <= Len(x) THEN x[i] ELSE y[i - Len(x)]
    BY <1>1, <1>2, ConcatProperties
  <2> QED
    BY <1>0, <1>1, <1>2, <2>1
<1>4. \A i \in 1..Len(lines) :
        (x \o y)[i] = IF i <= Len(lines) - p THEN lines[p + i] ELSE lines[i - (Len(lines) - p)]
  BY <1>0, <1>1, <1>2, <1>3
<1> QED
  BY <1>3, <1>4 DEF RingOf, x, y

LEMMA PrunedLines ==
  ASSUME NEW lines \in Seq(Line), NEW n \in 0..Len(lines), NEW k \in 0..n
  PROVE  /\ PrunedOf(lines, k, n) \in Seq(Line)
         /\ Len(PrunedOf(lines, k, n)) = k + Len(lines) - n
         /\ \A i \in 1 .. k + Len(lines) - n :
              PrunedOf(lines, k, n)[i] = IF i <= k THEN lines[i] ELSE lines[n + i - k]
<1> DEFINE x == SubSeq(lines, 1, k)
           y == SubSeq(lines, n + 1, Len(lines))
<1>0. Len(lines) \in Nat
  BY LenProperties
<1>1. x \in Seq(Line) /\ Len(x) = k /\ \A i \in 1..k : x[i] = lines[i]
  BY <1>0, Part
<1>2. /\ y \in Seq(Line) /\ Len(y) = Len(lines) - n
      /\ \A i \in 1 .. Len(lines) - n : y[i] = lines[n + i]
  BY <1>0, Part
<1> HIDE DEF x, y
<1>3. /\ x \o y \in Seq(Line) /\ Len(x \o y) = k + (Len(lines) - n)
      /\ \A i \in 1 .. k + (Len(lines) - n) : (x \o y)[i] = IF i <= k THEN x[i] ELSE y[i - k]
  <2>1. /\ x \o y \in Seq(Line) /\ Len(x \o y) = Len(x) + Len(y)
        /\ \A i \in 1 .. Len(x) + Len(y) :
             (x \o y)[i] = IF i <= Len(x) THEN x[i] ELSE y[i - Len(x)]
    BY <1>1, <1>2, ConcatProperties
  <2> QED
    BY <1>0, <1>1, <1>2, <2>1
<1>4. ASSUME NEW i \in 1 .. k + Len(lines) - n
      PROVE  (x \o y)[i] = IF i <= k THEN lines[i] ELSE lines[n + i - k]
  <2>1. i \in Nat /\ i \in 1 .. k + (Len(lines) - n) /\ k \in Nat
    BY <1>0
  <2>2. CASE i <= k
    BY <1>1, <1>3, <2>1, <2>2
  <2>3. CASE ~(i <= k)
    <3>1. i - k \in 1 .. Len(lines) - n /\ n + (i - k) = n + i - k
      BY <1>0, <2>1, <2>3
    <3> QED
      BY <1>2, <1>3, <2>1, <2>3, <3>1
  <2> QED
    BY <2>2, <2>3
<1> QED
  BY <1>3, <1>4 DEF PrunedOf, x, y

\* The same, as a property of a sequence.
IsPruned(s, lines, k, n) ==
  /\ s \in Seq(Line) /\ Len(s) = k + Len(lines) - n
  /\ \A i \in 1 .. k + Len(lines) - n : s[i] = IF i <= k THEN lines[i] ELSE lines[n + i - k]

LEMMA PrunedIs ==
  ASSUME NEW lines \in Seq(Line), NEW n \in 0..Len(lines), NEW k \in 0..n
  PROVE  IsPruned(PrunedOf(lines, k, n), lines, k, n)
BY PrunedLines DEF IsPruned

LEMMA ShiftedLines ==
  ASSUME NEW lines \in Seq(Line), NEW p \in 0..Len(lines), NEW k \in 0 .. Len(lines) - p,
         NEW b \in Seq(Line), Len(b) = p
  PROVE  /\ ShiftedOf(lines, p, k, b) \in Seq(Line)
         /\ Len(ShiftedOf(lines, p, k, b)) = Len(lines)
         /\ \A i \in 1..Len(lines) :
              ShiftedOf(lines, p, k, b)[i] =
                IF i <= k THEN lines[i]
                ELSE IF i <= Len(lines) - p THEN lines[p + i] ELSE b[i - (Len(lines) - p)]
<1> DEFINE x == SubSeq(lines, 1, k)
           y == SubSeq(lines, p + k + 1, Len(lines))
<1>0. Len(lines) \in Nat
  BY LenProperties
<1>1. x \in Seq(Line) /\ Len(x) = k /\ \A i \in 1..k : x[i] = lines[i]
  BY <1>0, Part
<1>2. /\ y \in Seq(Line) /\ Len(y) = Len(lines) - p - k
      /\ \A i \in 1 .. Len(lines) - p - k : y[i] = lines[p + k + i]
  BY <1>0, Part
<1> HIDE DEF x, y
<1>3. /\ x \o y \in Seq(Line) /\ Len(x \o y) = Len(lines) - p
      /\ \A i \in 1 .. Len(lines) - p : (x \o y)[i] = IF i <= k THEN x[i] ELSE y[i - k]
  <2>1. /\ x \o y \in Seq(Line) /\ Len(x \o y) = Len(x) + Len(y)
        /\ \A i \in 1 .. Len(x) + Len(y) :
             (x \o y)[i] = IF i <= Len(x) THEN x[i] ELSE y[i - Len(x)]
    BY <1>1, <1>2, ConcatProperties
  <2> QED
    BY <1>0, <1>1, <1>2, <2>1
<1>4. \A i \in 1 .. Len(lines) - p : (x \o y)[i] = IF i <= k THEN lines[i] ELSE lines[p + i]
  BY <1>0, <1>1, <1>2, <1>3
<1> DEFINE z == x \o y
<1>5. z \in Seq(Line) /\ Len(z) = Len(lines) - p
  BY <1>3
<1> HIDE DEF z
<1>6. /\ z \o b \in Seq(Line) /\ Len(z \o b) = Len(lines)
      /\ \A i \in 1..Len(lines) :
           (z \o b)[i] = IF i <= Len(lines) - p THEN z[i] ELSE b[i - (Len(lines) - p)]
  <2>1. /\ z \o b \in Seq(Line) /\ Len(z \o b) = Len(z) + Len(b)
        /\ \A i \in 1 .. Len(z) + Len(b) :
             (z \o b)[i] = IF i <= Len(z) THEN z[i] ELSE b[i - Len(z)]
    BY <1>5, ConcatProperties
  <2> QED
    BY <1>0, <1>5, <2>1
<1>7. \A i \in 1..Len(lines) :
        (z \o b)[i] = IF i <= k THEN lines[i]
                      ELSE IF i <= Len(lines) - p THEN lines[p + i] ELSE b[i - (Len(lines) - p)]
  BY <1>0, <1>4, <1>6 DEF z
<1> QED
  BY <1>6, <1>7 DEF ShiftedOf, x, y, z

\* The same, as a property of a sequence.
IsShifted(s, lines, p, k, b) ==
  /\ s \in Seq(Line) /\ Len(s) = Len(lines)
  /\ \A i \in 1..Len(lines) :
       s[i] = IF i <= k THEN lines[i]
              ELSE IF i <= Len(lines) - p THEN lines[p + i] ELSE b[i - (Len(lines) - p)]

LEMMA ShiftedIs ==
  ASSUME NEW lines \in Seq(Line), NEW p \in 0..Len(lines), NEW k \in 0 .. Len(lines) - p,
         NEW b \in Seq(Line), Len(b) = p
  PROVE  IsShifted(ShiftedOf(lines, p, k, b), lines, p, k, b)
BY ShiftedLines DEF IsShifted

-----------------------------------------------------------------------------
(* What the writes do to the shapes.                                        *)

\* A ring whose cursor is at either end is the file.
LEMMA RingWhole ==
  ASSUME NEW lines \in Seq(Line), NEW p \in {0, Len(lines)}
  PROVE  RingOf(lines, p) = lines
<1>1. Len(lines) \in Nat /\ p \in 0..Len(lines)
  BY LenProperties
<1> DEFINE s == RingOf(lines, p)
<1>2. /\ s \in Seq(Line) /\ Len(s) = Len(lines)
      /\ \A i \in 1..Len(lines) :
           s[i] = IF i <= Len(lines) - p THEN lines[p + i] ELSE lines[i - (Len(lines) - p)]
  BY <1>1, RingLines
<1> HIDE DEF s
<1>3. ASSUME NEW i \in 1..Len(lines) PROVE s[i] = lines[i]
  <2>1. CASE p = 0
    <3>1. i <= Len(lines) - p /\ p + i = i
      BY <1>1, <2>1
    <3> QED
      BY <1>2, <3>1
  <2>2. CASE p = Len(lines)
    <3>1. ~(i <= Len(lines) - p) /\ i - (Len(lines) - p) = i
      BY <1>1, <2>2
    <3> QED
      BY <1>2, <3>1
  <2> QED
    BY <2>1, <2>2
<1> QED
  BY <1>2, <1>3, SeqEqual DEF s

LEMMA PrunedWhole ==
  ASSUME NEW lines \in Seq(Line)
  PROVE  PrunedOf(lines, 0, 0) = lines
<1>1. Len(lines) \in Nat
  BY LenProperties
<1> QED
  BY <1>1, PrunedLines, SeqEqual

\* A line that stays goes to the end of those.
LEMMA PrunedKeeps ==
  ASSUME NEW old \in Seq(Line), NEW new \in Seq(Line),
         NEW n \in Nat, NEW k \in 0..n, n + 1 <= Len(old), n + 1 <= Len(new)
  PROVE  Len(new) = Len(old) /\ (\A j \in 1..Len(old) :
                                   new[j] = IF j = k + 1 THEN old[n + 1] ELSE old[j]) =>
           PrunedOf(new, k + 1, n + 1) = PrunedOf(old, k, n)
<1> DEFINE a == PrunedOf(new, k + 1, n + 1)
           b == PrunedOf(old, k, n)
<1>0. Len(old) \in Nat /\ Len(new) \in Nat /\ k \in Nat
  BY LenProperties
<1>1. /\ b \in Seq(Line) /\ Len(b) = k + Len(old) - n
      /\ \A i \in 1 .. k + Len(old) - n : b[i] = IF i <= k THEN old[i] ELSE old[n + i - k]
  <2>1. n \in 0..Len(old)
    BY <1>0
  <2>2. IsPruned(b, old, k, n)
    BY <2>1, PrunedIs
  <2> QED
    BY <2>2 DEF IsPruned
<1>2. /\ a \in Seq(Line) /\ Len(a) = k + 1 + Len(new) - (n + 1)
      /\ \A i \in 1 .. k + 1 + Len(new) - (n + 1) :
           a[i] = IF i <= k + 1 THEN new[i] ELSE new[n + 1 + i - (k + 1)]
  <2>1. n + 1 \in 0..Len(new) /\ k + 1 \in 0 .. n + 1
    BY <1>0
  <2>2. IsPruned(a, new, k + 1, n + 1)
    BY <2>1, PrunedIs
  <2> HIDE DEF a
  <2> QED
    BY <2>2 DEF IsPruned
<1> HIDE DEF a, b
<1> HAVE /\ Len(new) = Len(old)
         /\ \A j \in 1..Len(old) : new[j] = IF j = k + 1 THEN old[n + 1] ELSE old[j]
<1>3. Len(a) = Len(b) /\ Len(b) \in Nat
  BY <1>0, <1>1, <1>2
<1>4. ASSUME NEW i \in 1..Len(a) PROVE a[i] = b[i]
  <2>1. i \in 1 .. k + Len(old) - n /\ i \in Nat
    BY <1>0, <1>1, <1>3
  <2>2. a[i] = IF i <= k + 1 THEN new[i] ELSE new[n + i - k]
    BY <1>0, <1>2, <2>1
  <2>3. b[i] = IF i <= k THEN old[i] ELSE old[n + i - k]
    BY <1>1, <2>1
  <2>4. CASE i <= k
    BY <1>0, <2>1, <2>2, <2>3, <2>4
  <2>5. CASE i = k + 1
    BY <1>0, <2>1, <2>2, <2>3, <2>5
  <2>6. CASE i > k + 1
    <3>1. n + i - k \in 1..Len(old) /\ n + i - k # k + 1
      BY <1>0, <2>1, <2>6
    <3> QED
      BY <1>0, <2>1, <2>2, <2>3, <2>6, <3>1
  <2> QED
    BY <1>0, <2>1, <2>4, <2>5, <2>6
<1> QED
  BY <1>1, <1>2, <1>3, <1>4, SeqEqual DEF a, b

\* A sequence without one of its elements.
LEMMA RemovedLines ==
  ASSUME NEW b \in Seq(Line), NEW c \in 1..Len(b)
  PROVE  /\ Queue!RemoveAt(b, c) \in Seq(Line) /\ Len(Queue!RemoveAt(b, c)) = Len(b) - 1
         /\ \A i \in 1 .. Len(b) - 1 :
              Queue!RemoveAt(b, c)[i] = IF i < c THEN b[i] ELSE b[i + 1]
<1> DEFINE x == SubSeq(b, 1, c - 1)
           y == SubSeq(b, c + 1, Len(b))
<1>0. Len(b) \in Nat /\ c \in Nat
  BY LenProperties
<1>1. x \in Seq(Line) /\ Len(x) = c - 1 /\ \A i \in 1 .. c - 1 : x[i] = b[i]
  <2>1. 1 \in 1 .. Len(b) + 1 /\ c - 1 \in 1 - 1 .. Len(b)
    BY <1>0
  <2>2. /\ x \in Seq(Line) /\ Len(x) = (c - 1) - 1 + 1
        /\ \A i \in 1 .. (c - 1) - 1 + 1 : x[i] = b[1 + i - 1]
    BY <2>1, Part
  <2> QED
    BY <1>0, <2>2
<1>2. /\ y \in Seq(Line) /\ Len(y) = Len(b) - c
      /\ \A i \in 1 .. Len(b) - c : y[i] = b[c + i]
  <2>1. c + 1 \in 1 .. Len(b) + 1 /\ Len(b) \in c + 1 - 1 .. Len(b)
    BY <1>0
  <2>2. /\ y \in Seq(Line) /\ Len(y) = Len(b) - (c + 1) + 1
        /\ \A i \in 1 .. Len(b) - (c + 1) + 1 : y[i] = b[c + 1 + i - 1]
    BY <2>1, Part
  <2> QED
    BY <1>0, <2>2
<1> HIDE DEF x, y
<1>3. /\ x \o y \in Seq(Line) /\ Len(x \o y) = Len(x) + Len(y)
      /\ \A i \in 1 .. Len(x) + Len(y) :
           (x \o y)[i] = IF i <= Len(x) THEN x[i] ELSE y[i - Len(x)]
  BY <1>1, <1>2, ConcatProperties
<1>4. Len(x \o y) = Len(b) - 1
  BY <1>0, <1>1, <1>2, <1>3
<1>5. ASSUME NEW i \in 1 .. Len(b) - 1
      PROVE  (x \o y)[i] = IF i < c THEN b[i] ELSE b[i + 1]
  <2>1. i \in 1 .. Len(x) + Len(y) /\ i \in Nat
    BY <1>0, <1>1, <1>2
  <2>2. CASE i < c
    BY <1>0, <1>1, <1>3, <2>1, <2>2
  <2>3. CASE ~(i < c)
    <3>1. (x \o y)[i] = y[i - (c - 1)]
      BY <1>0, <1>1, <1>3, <2>1, <2>3
    <3>2. i - (c - 1) \in 1 .. Len(b) - c /\ c + (i - (c - 1)) = i + 1
      BY <1>0, <2>1, <2>3
    <3> QED
      BY <1>2, <2>3, <3>1, <3>2
  <2> QED
    BY <2>2, <2>3
<1>6. Queue!RemoveAt(b, c) = x \o y
  BY DEF Queue!RemoveAt, x, y
<1> QED
  BY <1>3, <1>4, <1>5, <1>6

\* One that goes leaves the queue.
LEMMA PrunedDrops ==
  ASSUME NEW lines \in Seq(Line), NEW n \in Nat, NEW k \in 0..n, n + 1 <= Len(lines)
  PROVE  /\ k + 1 \in 1..Len(PrunedOf(lines, k, n))
         /\ PrunedOf(lines, k, n)[k + 1] = lines[n + 1]
         /\ PrunedOf(lines, k, n + 1) = Queue!RemoveAt(PrunedOf(lines, k, n), k + 1)
<1> DEFINE a == PrunedOf(lines, k, n + 1)
           b == PrunedOf(lines, k, n)
<1>0. Len(lines) \in Nat /\ k \in Nat
  BY LenProperties
<1>1. /\ b \in Seq(Line) /\ Len(b) = k + Len(lines) - n
      /\ \A i \in 1 .. k + Len(lines) - n : b[i] = IF i <= k THEN lines[i] ELSE lines[n + i - k]
  <2>1. n \in 0..Len(lines)
    BY <1>0
  <2> QED
    BY <2>1, PrunedLines
<1>2. /\ a \in Seq(Line) /\ Len(a) = k + Len(lines) - (n + 1)
      /\ \A i \in 1 .. k + Len(lines) - (n + 1) :
           a[i] = IF i <= k THEN lines[i] ELSE lines[n + 1 + i - k]
  <2>1. n + 1 \in 0..Len(lines) /\ k \in 0 .. n + 1
    BY <1>0
  <2> QED
    BY <2>1, PrunedLines
<1> HIDE DEF a, b
<1>3. Len(b) \in Nat /\ k + 1 \in 1..Len(b) /\ Len(a) = Len(b) - 1
  BY <1>0, <1>1, <1>2
<1>4. b[k + 1] = lines[n + 1]
  <2>1. k + 1 \in 1 .. k + Len(lines) - n /\ ~(k + 1 <= k) /\ n + (k + 1) - k = n + 1
    BY <1>0
  <2>2. b[k + 1] = lines[n + (k + 1) - k]
    BY <1>1, <2>1
  <2> QED
    BY <2>1, <2>2
<1> DEFINE c == Queue!RemoveAt(b, k + 1)
<1>5. /\ c \in Seq(Line) /\ Len(c) = Len(b) - 1
      /\ \A i \in 1 .. Len(b) - 1 : c[i] = IF i < k + 1 THEN b[i] ELSE b[i + 1]
  BY <1>1, <1>3, RemovedLines
<1> HIDE DEF c
<1>6. ASSUME NEW i \in 1..Len(a) PROVE a[i] = c[i]
  <2>1. /\ i \in Nat /\ i \in 1 .. k + Len(lines) - (n + 1) /\ i \in 1 .. Len(b) - 1
        /\ i \in 1 .. k + Len(lines) - n /\ i + 1 \in 1 .. k + Len(lines) - n
    BY <1>0, <1>1, <1>2, <1>3
  <2>2. CASE i <= k
    <3>1. a[i] = lines[i] /\ b[i] = lines[i] /\ i < k + 1
      BY <1>0, <1>1, <1>2, <2>1, <2>2
    <3> QED
      BY <1>5, <2>1, <3>1
  <2>3. CASE ~(i <= k)
    <3>1. ~(i + 1 <= k) /\ ~(i < k + 1) /\ n + (i + 1) - k = n + 1 + i - k
      BY <1>0, <2>1, <2>3
    <3>2. a[i] = lines[n + 1 + i - k] /\ b[i + 1] = lines[n + (i + 1) - k]
      BY <1>1, <1>2, <2>1, <2>3, <3>1
    <3> QED
      BY <1>5, <2>1, <3>1, <3>2
  <2> QED
    BY <2>2, <2>3
<1>7. a = c
  BY <1>2, <1>3, <1>5, <1>6, SeqEqual
<1> QED
  BY <1>3, <1>4, <1>7 DEF a, b, c

\* When the file has been cut off it holds what stays.
LEMMA PrunedEnd ==
  ASSUME NEW old \in Seq(Line), NEW new \in Seq(Line), NEW k \in 0..Len(old),
         Len(new) = k, \A i \in 1..k : new[i] = old[i]
  PROVE  RingOf(new, k) = PrunedOf(old, k, Len(old))
<1> DEFINE n == Len(old)
           a == PrunedOf(old, k, n)
<1>0. n \in Nat /\ k \in Nat /\ k + n - n = k /\ n \in 0..Len(old) /\ k \in 0..n
  BY LenProperties
<1>1. RingOf(new, k) = new
  BY RingWhole
<1>2. /\ a \in Seq(Line) /\ Len(a) = k + Len(old) - n
      /\ \A i \in 1 .. k + Len(old) - n : a[i] = IF i <= k THEN old[i] ELSE old[n + i - k]
  <2> HIDE DEF n
  <2> QED
    BY <1>0, PrunedLines
<1>3. Len(a) = k /\ \A i \in 1..k : a[i] = old[i]
  BY <1>0, <1>2
<1> HIDE DEF a
<1>4. new = a
  BY <1>0, <1>2, <1>3, SeqEqual
<1> QED
  BY <1>1, <1>4 DEF a

\* A queue without its oldest entry, and with a new one.
LEMMA PushedLines ==
  ASSUME NEW s \in Seq(Line), Len(s) > 0, NEW line \in Line
  PROVE  LET pushed == Append(SubSeq(s, 2, Len(s)), line) IN
         /\ pushed \in Seq(Line) /\ Len(pushed) = Len(s)
         /\ \A i \in 1..Len(s) : pushed[i] = IF i < Len(s) THEN s[i + 1] ELSE line
         /\ SubSeq(s, 2, Len(s)) # s
<1> DEFINE x == SubSeq(s, 2, Len(s))
<1>0. Len(s) \in Nat
  BY LenProperties
<1>1. x \in Seq(Line) /\ Len(x) = Len(s) - 1 /\ \A i \in 1 .. Len(s) - 1 : x[i] = s[i + 1]
  <2>1. 2 \in 1 .. Len(s) + 1 /\ Len(s) \in 2 - 1 .. Len(s)
    BY <1>0
  <2>2. /\ x \in Seq(Line) /\ Len(x) = Len(s) - 2 + 1
        /\ \A i \in 1 .. Len(s) - 2 + 1 : x[i] = s[2 + i - 1]
    BY <2>1, Part
  <2> QED
    BY <1>0, <2>2
<1> HIDE DEF x
<1>2. /\ Append(x, line) \in Seq(Line) /\ Len(Append(x, line)) = Len(x) + 1
      /\ \A i \in 1..Len(x) : Append(x, line)[i] = x[i]
      /\ Append(x, line)[Len(x) + 1] = line
  BY <1>1, AppendProperties
<1>3. Len(x) + 1 = Len(s) /\ x # s
  BY <1>0, <1>1
<1>4. \A i \in 1..Len(s) : Append(x, line)[i] = IF i < Len(s) THEN s[i + 1] ELSE line
  BY <1>0, <1>1, <1>2, <1>3
<1> QED
  BY <1>2, <1>3, <1>4 DEF x

\* A line written into a ring is the last entry; unless it makes the file longer,
\* it takes the place of the first.
LEMMA RingPush ==
  ASSUME NEW old \in Seq(Line), NEW new \in Seq(Line), Len(new) >= Len(old),
         NEW p \in 0..Len(old), NEW q \in 1..Len(new), NEW line \in Line,
         q = p + 1 \/ (p = Len(old) /\ q = 1), new[q] = line,
         \A j \in 1..Len(new) : j # q => j <= Len(old) /\ new[j] = old[j]
  PROVE  LET s == RingOf(old, p) IN
         /\ p = Len(old) /\ q = p + 1 => RingOf(new, q) = Append(s, line)
         /\ ~(p = Len(old) /\ q = p + 1) =>
              /\ Len(s) > 0
              /\ RingOf(new, q) = Append(SubSeq(s, 2, Len(s)), line)
<1> DEFINE m == Len(old)
           n == Len(new)
           s == RingOf(old, p)
           t == RingOf(new, q)
<1>0. m \in Nat /\ n \in Nat /\ p \in Nat /\ q \in Nat
  BY LenProperties
<1>1. /\ s \in Seq(Line) /\ Len(s) = m
      /\ \A i \in 1..m : s[i] = IF i <= m - p THEN old[p + i] ELSE old[i - (m - p)]
  BY RingLines
<1>2. /\ t \in Seq(Line) /\ Len(t) = n
      /\ \A i \in 1..n : t[i] = IF i <= n - q THEN new[q + i] ELSE new[i - (n - q)]
  <2>1. q \in 0..Len(new)
    BY <1>0
  <2> QED
    BY <2>1, RingLines
<1>a. n >= m /\ q \in 1..n /\ p \in 0..m /\ \A j \in 1..n : j # q => j <= m /\ new[j] = old[j]
  OBVIOUS
<1> HIDE DEF m, n, s, t
<1>3. CASE p = m /\ q = p + 1
  <2>1. s = old /\ t = new
    <3>1. n = q
      <4>1. n # q => n <= m
        BY <1>0, <1>a
      <4> QED
        BY <1>0, <1>3, <1>a, <4>1
    <3> QED
      BY <1>3, <3>1, RingWhole DEF s, t, m, n
  <2>2. n = m + 1
    <3>1. n # q => n <= m
      BY <1>0, <1>a
    <3> QED
      BY <1>0, <1>3, <1>a, <3>1
  <2>3. /\ Append(old, line) \in Seq(Line) /\ Len(Append(old, line)) = m + 1
        /\ \A i \in 1..m : Append(old, line)[i] = old[i]
        /\ Append(old, line)[m + 1] = line
    BY AppendProperties DEF m
  <2>4. \A i \in 1..n : new[i] = Append(old, line)[i]
    BY <1>0, <1>3, <1>a, <2>2, <2>3
  <2>5. new = Append(old, line)
    BY <2>2, <2>3, <2>4, SeqEqual DEF n
  <2> QED
    BY <1>3, <2>1, <2>5 DEF s, t, m
<1>4. CASE ~(p = m /\ q = p + 1)
  <2>1. n = m /\ m > 0
    <3>1. n # q => n <= m
      BY <1>0, <1>a
    <3>2. q = p + 1 \/ (p = m /\ q = 1)
      BY DEF m
    <3> QED
      BY <1>0, <1>4, <1>a, <3>1, <3>2
  <2> DEFINE pushed == Append(SubSeq(s, 2, Len(s)), line)
  <2>2. /\ pushed \in Seq(Line) /\ Len(pushed) = m
        /\ \A i \in 1..m : pushed[i] = IF i < m THEN s[i + 1] ELSE line
    BY <1>1, <2>1, PushedLines
  <2> HIDE DEF pushed
  <2>3. ASSUME NEW i \in 1..n PROVE t[i] = pushed[i]
    <3>0. i \in Nat /\ i \in 1..m
      BY <1>0, <2>1
    <3>1. CASE i = n
      <4>1. t[i] = new[q]
        <5>1. i - (n - q) = q
          BY <1>0, <3>0, <3>1
        <5>2. ~(i <= n - q)
          BY <1>0, <1>a, <3>0, <3>1
        <5> QED
          BY <1>2, <5>1, <5>2
      <4> QED
        BY <1>0, <2>1, <2>2, <3>0, <3>1, <4>1
    <3>2. CASE i < n /\ i <= n - q
      <4>1. t[i] = new[q + i] /\ q + i \in 1..n /\ q + i # q
        BY <1>0, <1>2, <1>a, <3>0, <3>2
      <4>2. t[i] = old[q + i]
        BY <1>a, <4>1
      <4>3. pushed[i] = s[i + 1] /\ i + 1 \in 1..m
        BY <1>0, <2>1, <2>2, <3>0, <3>2
      <4>4. s[i + 1] = old[q + i]
        <5>1. CASE q = p + 1
          <6>1. i + 1 <= m - p /\ p + (i + 1) = q + i
            BY <1>0, <2>1, <3>0, <3>2, <5>1
          <6>2. s[i + 1] = old[p + (i + 1)]
            BY <1>1, <4>3, <6>1
          <6> QED
            BY <6>1, <6>2
        <5>2. CASE p = m /\ q = 1
          <6>1. ~(i + 1 <= m - p) /\ (i + 1) - (m - p) = q + i
            BY <1>0, <3>0, <5>2
          <6>2. s[i + 1] = old[(i + 1) - (m - p)]
            BY <1>1, <4>3, <6>1
          <6> QED
            BY <6>1, <6>2
        <5> QED
          BY <5>1, <5>2 DEF m
      <4> QED
        BY <4>2, <4>3, <4>4
    <3>3. CASE i < n /\ ~(i <= n - q)
      <4>1. t[i] = new[i - (n - q)] /\ i - (n - q) \in 1..n /\ i - (n - q) # q
        BY <1>0, <1>2, <1>a, <3>0, <3>3
      <4>2. t[i] = old[i - (n - q)]
        BY <1>a, <4>1
      <4>3. pushed[i] = s[i + 1] /\ i + 1 \in 1..m
        BY <1>0, <2>1, <2>2, <3>0, <3>3
      <4>4. q = p + 1
        <5>1. q # 1
          BY <1>0, <3>0, <3>3
        <5> QED
          BY <5>1
      <4>5. ~(i + 1 <= m - p) /\ (i + 1) - (m - p) = i - (n - q)
        BY <1>0, <2>1, <3>0, <3>3, <4>4
      <4>6. s[i + 1] = old[(i + 1) - (m - p)]
        BY <1>1, <4>3, <4>5
      <4> QED
        BY <4>2, <4>3, <4>5, <4>6
    <3> QED
      BY <1>0, <3>0, <3>1, <3>2, <3>3
  <2>4. t = pushed
    BY <1>2, <2>1, <2>2, <2>3, SeqEqual
  <2> QED
    BY <1>1, <1>4, <2>1, <2>4 DEF s, t, m, pushed
<1> QED
  BY <1>3, <1>4 DEF m

\* The swap starts with the lines before the cursor in the buffer, ...
LEMMA SwapStarts ==
  ASSUME NEW lines \in Seq(Line), NEW p \in 0..Len(lines)
  PROVE  ShiftedOf(lines, p, 0, SubSeq(lines, 1, p)) = RingOf(lines, p)
<1> DEFINE b == SubSeq(lines, 1, p)
           s == RingOf(lines, p)
           t == ShiftedOf(lines, p, 0, b)
<1>0. Len(lines) \in Nat /\ p \in Nat
  BY LenProperties
<1>1. b \in Seq(Line) /\ Len(b) = p /\ \A i \in 1..p : b[i] = lines[i]
  BY <1>0, Part
<1>2. /\ s \in Seq(Line) /\ Len(s) = Len(lines)
      /\ \A i \in 1..Len(lines) :
           s[i] = IF i <= Len(lines) - p THEN lines[p + i] ELSE lines[i - (Len(lines) - p)]
  BY RingLines
<1>3. /\ t \in Seq(Line) /\ Len(t) = Len(lines)
      /\ \A i \in 1..Len(lines) :
           t[i] = IF i <= 0 THEN lines[i]
                  ELSE IF i <= Len(lines) - p THEN lines[p + i] ELSE b[i - (Len(lines) - p)]
  <2>1. 0 \in 0 .. Len(lines) - p
    BY <1>0
  <2> HIDE DEF b
  <2> QED
    BY <1>1, <2>1, ShiftedLines
<1> HIDE DEF b, s, t
<1>4. ASSUME NEW i \in 1..Len(lines) PROVE t[i] = s[i]
  <2>0. i \in Nat /\ ~(i <= 0)
    BY <1>0
  <2>1. CASE i <= Len(lines) - p
    BY <1>2, <1>3, <2>0, <2>1
  <2>2. CASE ~(i <= Len(lines) - p)
    <3>1. i - (Len(lines) - p) \in 1..p
      BY <1>0, <2>0, <2>2
    <3> QED
      BY <1>1, <1>2, <1>3, <2>0, <2>2, <3>1
  <2> QED
    BY <2>1, <2>2
<1>5. t = s
  BY <1>2, <1>3, <1>4, SeqEqual
<1> QED
  BY <1>5 DEF b, s, t

\* Lines k + 1 to q have gone p lines up.
GoneUp(new, old, p, k, q) ==
  \A i \in 1..Len(old) : new[i] = IF k < i /\ i <= q THEN old[i + p] ELSE old[i]

\* ... goes on with the others, a chunk at a time, ...
LEMMA SwapGoesOn ==
  ASSUME NEW old \in Seq(Line), NEW new \in Seq(Line), Len(new) = Len(old),
         NEW p \in 0..Len(old), NEW k \in Nat, NEW q \in Nat, k <= q, p + q <= Len(old),
         NEW b \in Seq(Line), Len(b) = p,
         GoneUp(new, old, p, k, q)
  PROVE  ShiftedOf(new, p, q, b) = ShiftedOf(old, p, k, b)
<1> DEFINE m == Len(old)
           s == ShiftedOf(old, p, k, b)
           t == ShiftedOf(new, p, q, b)
<1>0. m \in Nat /\ p \in Nat /\ k <= q /\ p + q <= m
  BY LenProperties
<1>1. /\ s \in Seq(Line) /\ Len(s) = m
      /\ \A i \in 1..m : s[i] = IF i <= k THEN old[i]
                                ELSE IF i <= m - p THEN old[p + i] ELSE b[i - (m - p)]
  <2>1. k \in 0 .. Len(old) - p
    BY <1>0
  <2>2. IsShifted(s, old, p, k, b)
    BY <2>1, ShiftedIs
  <2> QED
    BY <2>2 DEF IsShifted
<1>2. /\ t \in Seq(Line) /\ Len(t) = m
      /\ \A i \in 1..m : t[i] = IF i <= q THEN new[i]
                                ELSE IF i <= m - p THEN new[p + i] ELSE b[i - (m - p)]
  <2>1. q \in 0 .. Len(new) - p /\ p \in 0..Len(new)
    BY <1>0
  <2>2. IsShifted(t, new, p, q, b)
    BY <2>1, ShiftedIs
  <2> HIDE DEF t
  <2> QED
    BY <2>2 DEF IsShifted
<1>a. \A i \in 1..m : new[i] = IF k < i /\ i <= q THEN old[i + p] ELSE old[i]
  BY DEF GoneUp
<1> HIDE DEF m, s, t
<1>3. ASSUME NEW i \in 1..m PROVE t[i] = s[i]
  <2>0. i \in Nat
    BY <1>0
  <2>1. CASE i <= k
    <3>1. i <= q /\ ~(k < i /\ i <= q)
      BY <1>0, <2>0, <2>1
    <3>2. new[i] = old[i]
      BY <1>a, <3>1
    <3> QED
      BY <1>1, <1>2, <2>1, <3>1, <3>2
  <2>2. CASE k < i /\ i <= q
    <3>1. i <= m - p /\ ~(i <= k) /\ i + p = p + i
      BY <1>0, <2>0, <2>2
    <3>2. t[i] = new[i] /\ new[i] = old[i + p]
      BY <1>2, <1>a, <2>2
    <3>3. s[i] = old[p + i]
      BY <1>1, <3>1
    <3> QED
      BY <3>1, <3>2, <3>3
  <2>3. CASE q < i /\ i <= m - p
    <3>1. p + i \in 1..m /\ ~(p + i <= q)
      BY <1>0, <2>0, <2>3
    <3>2. new[p + i] = old[p + i]
      BY <1>a, <3>1
    <3> QED
      BY <1>0, <1>1, <1>2, <2>0, <2>3, <3>2
  <2>4. CASE q < i /\ ~(i <= m - p)
    BY <1>0, <1>1, <1>2, <2>0, <2>4
  <2> QED
    BY <1>0, <2>0, <2>1, <2>2, <2>3, <2>4
<1>4. t = s
  BY <1>1, <1>2, <1>3, SeqEqual
<1> QED
  BY <1>4 DEF s, t

\* ... and ends with the buffer behind them.
LEMMA SwapEnds ==
  ASSUME NEW old \in Seq(Line), NEW new \in Seq(Line), Len(new) = Len(old),
         NEW b \in Seq(Line), Len(b) <= Len(old),
         \A i \in 1..Len(old) : new[i] = IF i > Len(old) - Len(b)
                                           THEN b[i - (Len(old) - Len(b))] ELSE old[i]
  PROVE  RingOf(new, Len(new)) = ShiftedOf(old, Len(b), Len(old) - Len(b), b)
<1> DEFINE m == Len(old)
           p == Len(b)
           k == m - p
           s == ShiftedOf(old, p, k, b)
<1>0. m \in Nat /\ p \in Nat /\ k \in Nat
  BY LenProperties
<1>1. /\ s \in Seq(Line) /\ Len(s) = m
      /\ \A i \in 1..m : s[i] = IF i <= k THEN old[i]
                                ELSE IF i <= m - p THEN old[p + i] ELSE b[i - (m - p)]
  <2>1. p \in 0..Len(old) /\ k \in 0 .. Len(old) - p /\ Len(b) = p
    BY <1>0
  <2> HIDE DEF k, p, m
  <2>2. /\ s \in Seq(Line) /\ Len(s) = Len(old)
        /\ \A i \in 1..Len(old) :
             s[i] = IF i <= k THEN old[i]
                    ELSE IF i <= Len(old) - p THEN old[p + i] ELSE b[i - (Len(old) - p)]
    BY <2>1, ShiftedLines
  <2> QED
    BY <2>2 DEF m
<1>2. RingOf(new, Len(new)) = new
  BY RingWhole
<1>a. \A i \in 1..m : new[i] = IF i > m - p THEN b[i - (m - p)] ELSE old[i]
  OBVIOUS
<1> HIDE DEF m, p, s
<1>3. ASSUME NEW i \in 1..m PROVE new[i] = s[i]
  <2>1. i \in Nat /\ (i <= k <=> ~(i > m - p)) /\ (i <= m - p <=> ~(i > m - p))
    BY <1>0
  <2> QED
    BY <1>1, <1>a, <2>1
<1>4. new = s
  BY <1>1, <1>3, SeqEqual DEF m
<1> QED
  BY <1>2, <1>4 DEF s, m, p

-----------------------------------------------------------------------------
(* Where the cursors are, and what becomes of the lines written over.       *)

AllFresh(l) == \A i \in 1..Len(file[l]) : Fresh(l, file[l][i])

\* The first k lines stay; each of the next, to the n-th, goes or is a copy.
Sifted(l, k, n) ==
  /\ \A i \in 1..k : Fresh(l, file[l][i])
  /\ \A i \in k + 1 .. n : Fresh(l, file[l][i]) => \E j \in 1..k : file[l][j] = file[l][i]

\* Of the lines to be written over, those from before the cursor are in the buffer
\* and the others have been copied.
Copied(lines, p, k, b) ==
  \A i \in k + 1 .. Len(lines) :
    /\ i <= p => b[i] = lines[i]
    /\ p < i /\ i <= p + k => lines[i - p] = lines[i]

Places ==
  /\ pc = "off" => \A l \in Logs : pos[l] = 0
  /\ pc = "prune" =>
       \A l \in Logs :
         /\ l < log => AllFresh(l) /\ pos[l] = Len(file[l])
         /\ l = log => Sifted(l, w, r)
         /\ l > log => pos[l] = 0
  /\ pc = "shift" => Copied(file[log], pos[log], w, buf)

LEMMA PlacesInit ==
  ASSUME Init
  PROVE  Places
BY DEF Init, Places

LEMMA PlacesStep ==
  ASSUME TypeOK, Bounds, Places, [Next]_vars
  PROVE  Places'
<1>0. FilesTypeOK /\ LocalsOK
  BY DEF TypeOK, LocalsOK
<1>a. /\ file \in [Logs -> Seq(Line)] /\ pos \in [Logs -> Nat] /\ log \in Logs
      /\ r \in Nat /\ w \in Nat /\ buf \in Seq(Line) /\ Len(buf) \in Nat
      /\ \A l \in Logs : Len(file[l]) \in Nat /\ pos[l] <= Len(file[l])
  BY <1>0, FilesTypes, LenProperties DEF LocalsOK
<1>1. CASE Start
  BY <1>1, <1>a DEF Start, InitLogs, Locals, Places, Sifted, Logs
<1>2. CASE PruneLine
  <2>1. /\ pc = "prune" /\ pc' = "prune" /\ log' = log /\ r' = r + 1
        /\ w <= r /\ r + 1 \in 1..Len(file[log]) /\ Sifted(log, w, r)
    BY <1>2, <1>a DEF PruneLine, Bounds, Places
  <2>2. /\ OthersKept(log) /\ UNCHANGED <<now, pos>> /\ Len(file'[log]) = Len(file[log])
        /\ Sifted(log, w, r)'
    <3>1. CASE Fresh(log, file[log][r + 1])
      <4>1. w' = w + 1 /\ MoveUp(log, w, r + 1)
        BY <1>2, <3>1 DEF PruneLine
      <4>2. /\ OthersKept(log) /\ UNCHANGED <<now, pos>> /\ Len(file'[log]) = Len(file[log])
            /\ \A j \in 1..Len(file[log]) :
                 file'[log][j] = IF j = w + 1 THEN file[log][r + 1] ELSE file[log][j]
        BY <1>0, <1>a, <2>1, <4>1, MoveUpFacts
      <4>3. ASSUME NEW line PROVE Fresh(log, line)' = Fresh(log, line)
        BY <2>1, <4>2 DEF Fresh
      <4>4. \A i \in 1 .. w + 1 : Fresh(log, file'[log][i])
        <5> SUFFICES ASSUME NEW i \in 1 .. w + 1 PROVE Fresh(log, file'[log][i])
          OBVIOUS
        <5>1. i \in 1..Len(file[log]) /\ (i = w + 1 \/ i \in 1..w)
          BY <1>a, <2>1
        <5> QED
          BY <1>a, <2>1, <3>1, <4>2, <5>1 DEF Sifted
      <4>5. ASSUME NEW i \in w + 2 .. r + 1, Fresh(log, file'[log][i])
            PROVE  \E j \in 1 .. w + 1 : file'[log][j] = file'[log][i]
        <5>1. i \in 1..Len(file[log]) /\ i # w + 1 /\ file'[log][i] = file[log][i]
          BY <1>a, <2>1, <4>2
        <5>2. CASE i = r + 1
          <6>1. w + 1 \in 1..Len(file[log]) /\ w + 1 \in 1 .. w + 1
            BY <1>a, <2>1
          <6>2. file'[log][w + 1] = file[log][r + 1]
            BY <4>2, <6>1
          <6> QED
            BY <5>1, <5>2, <6>1, <6>2
        <5>3. CASE i # r + 1
          <6>1. i \in w + 1 .. r
            BY <1>a, <5>3
          <6>2. PICK j \in 1..w : file[log][j] = file[log][i]
            BY <2>1, <4>5, <5>1, <6>1 DEF Sifted
          <6>3. j \in 1..Len(file[log]) /\ j # w + 1 /\ j \in 1 .. w + 1
            BY <1>a, <2>1
          <6>4. file'[log][j] = file[log][j]
            BY <4>2, <6>3
          <6> QED
            BY <5>1, <6>2, <6>3, <6>4
        <5> QED
          BY <5>2, <5>3
      <4>6. w + 1 + 1 = w + 2
        BY <1>a
      <4> QED
        BY <2>1, <4>1, <4>2, <4>3, <4>4, <4>5, <4>6 DEF Sifted
    <3>2. CASE ~Fresh(log, file[log][r + 1])
      <4>1. w' = w /\ UNCHANGED <<now, file, pos, first>>
        BY <1>2, <3>2 DEF PruneLine, fileVars
      <4>2. \A i \in w + 1 .. r + 1 : i \in w + 1 .. r \/ i = r + 1
        BY <1>a
      <4> QED
        BY <2>1, <3>2, <4>1, <4>2 DEF Sifted, Fresh, OthersKept
    <3> QED
      BY <3>1, <3>2
  <2>3. ASSUME NEW l \in Logs
        PROVE  /\ l < log => AllFresh(l)' /\ pos'[l] = Len(file'[l])
               /\ l > log => pos'[l] = 0
    <3>1. l < log => AllFresh(l) /\ pos[l] = Len(file[l]) /\ file'[l] = file[l]
      <4>1. l < log => l # log
        BY <1>a DEF Logs
      <4> QED
        BY <2>1, <2>2, <4>1 DEF Places, OthersKept
    <3>2. l > log => pos[l] = 0
      BY <2>1 DEF Places
    <3> QED
      BY <2>2, <3>1, <3>2 DEF AllFresh, Fresh
  <2> QED
    BY <2>1, <2>2, <2>3 DEF Places
<1>3. CASE PruneDone
  <2>1. /\ pc = "prune" /\ w \in 0..Len(file[log]) /\ r = Len(file[log]) /\ Sifted(log, w, r)
    BY <1>3, <1>a DEF PruneDone, Bounds, Places
  <2>2. /\ OthersKept(log) /\ now' = now /\ \A j \in Logs \ {log} : pos'[j] = pos[j]
        /\ Len(file'[log]) = w /\ pos'[log] = w
        /\ \A j \in 1..w : file'[log][j] = file[log][j]
    BY <1>0, <1>3, <1>a, <2>1, CutFacts DEF PruneDone
  <2>3. ASSUME NEW l \in Logs, l <= log PROVE AllFresh(l)' /\ pos'[l] = Len(file'[l])
    <3>1. CASE l = log
      BY <2>1, <2>2, <3>1 DEF AllFresh, Sifted, Fresh
    <3>2. CASE l # log
      <4>1. l < log /\ file'[l] = file[l]
        BY <1>a, <2>2, <2>3, <3>2 DEF OthersKept, Logs
      <4> QED
        BY <2>1, <2>2, <4>1 DEF AllFresh, Places, Fresh
    <3> QED
      BY <3>1, <3>2
  <2>4. CASE log < 3
    <3>1. pc' = "prune" /\ log' = log + 1 /\ r' = 0 /\ w' = 0
      BY <1>3, <2>4 DEF PruneDone
    <3>2. ASSUME NEW l \in Logs
          PROVE  /\ l < log' => AllFresh(l)' /\ pos'[l] = Len(file'[l])
                 /\ l = log' => Sifted(l, w, r)'
                 /\ l > log' => pos'[l] = 0
      <4>1. Sifted(l, w, r)'
        BY <3>1 DEF Sifted
      <4>2. l < log' => l <= log
        BY <1>a, <3>1 DEF Logs
      <4>3. l > log' => l > log /\ l # log
        BY <1>a, <3>1 DEF Logs
      <4> QED
        BY <2>1, <2>2, <2>3, <4>1, <4>2, <4>3 DEF Places
    <3> QED
      BY <3>1, <3>2 DEF Places
  <2>5. CASE ~(log < 3)
    <3>1. pc' = "skip_old"
      BY <1>3, <2>5 DEF PruneDone
    <3> QED
      BY <3>1 DEF Places
  <2> QED
    BY <2>4, <2>5
<1>4. CASE SwapNothing
  <2>1. pc' = "swap" \/ (pc' = "off" /\ CloseLogs)
    BY <1>4 DEF SwapNothing
  <2> QED
    BY <2>1 DEF Places, CloseLogs
<1>5. CASE SwapStart
  <2>1. /\ pc' = "shift" /\ w' = 0 /\ file' = file /\ pos' = pos /\ log' = log
        /\ buf' = SubSeq(file[log], 1, pos[log])
    BY <1>5 DEF SwapStart, fileVars, Before
  <2>2. \A i \in 1..pos[log] : buf'[i] = file[log][i]
    BY <1>a, <2>1, Part
  <2>3. Copied(file[log], pos[log], 0, buf')
    BY <1>a, <2>2 DEF Copied
  <2> QED
    BY <2>1, <2>3 DEF Places
<1>6. CASE SwapChunk
  <2> DEFINE n == IF Remaining < Chunk THEN Remaining ELSE Chunk
             p == pos[log]
             m == Len(file[log])
  <2>1. p < m /\ Remaining \in Nat
    BY <1>6, <1>a DEF SwapChunk, Remaining, Bounds
  <2>2. n \in Nat /\ p + w + n <= m
    BY <1>a, <2>1, FileLoggerAssumption DEF Remaining
  <2>3. /\ ShiftChunk(log, p, w, n) /\ w' = w + n
        /\ pc = "shift" /\ UNCHANGED <<pc, log, buf>>
    BY <1>6 DEF SwapChunk
  <2> HIDE DEF n
  <2>4. /\ pos' = pos /\ Len(file'[log]) = m
        /\ \A i \in 1..m : file'[log][i] =
             IF w < i /\ i <= w + n THEN file[log][i + p] ELSE file[log][i]
    BY <1>0, <1>a, <2>2, <2>3, ShiftChunkFacts
  <2>5. Copied(file[log], p, w, buf) /\ m \in Nat /\ p \in Nat
    BY <1>a, <2>3 DEF Places
  <2> HIDE DEF m, p
  <2>6. ASSUME NEW i \in w + n + 1 .. m
        PROVE  /\ i <= p => buf[i] = file'[log][i]
               /\ p < i /\ i <= p + (w + n) => file'[log][i - p] = file'[log][i]
    <3>1. /\ i \in w + 1 .. m /\ i \in 1..m /\ i \in Nat
          /\ ~(w < i /\ i <= w + n)
      BY <1>a, <2>2, <2>5
    <3>2. file'[log][i] = file[log][i]
      BY <2>4, <3>1
    <3>3. i <= p => buf[i] = file[log][i]
      BY <2>5, <3>1 DEF Copied, m
    <3>4. CASE p < i /\ i <= p + w
      <4>1. file[log][i - p] = file[log][i]
        BY <2>5, <3>1, <3>4 DEF Copied, m
      <4>2. i - p \in 1..m /\ ~(w < i - p)
        BY <1>a, <2>2, <2>5, <3>1, <3>4
      <4>3. file'[log][i - p] = file[log][i - p]
        BY <2>4, <4>2
      <4> QED
        BY <2>5, <3>1, <3>2, <3>4, <4>1, <4>3
    <3>5. CASE p + w < i /\ i <= p + (w + n)
      <4>1. i - p \in 1..m /\ w < i - p /\ i - p <= w + n /\ (i - p) + p = i
        BY <1>a, <2>2, <2>5, <3>1, <3>5
      <4>2. file'[log][i - p] = file[log][(i - p) + p]
        BY <2>4, <4>1
      <4>3. ~(i <= p)
        BY <1>a, <2>5, <3>1, <3>5
      <4> QED
        BY <3>2, <4>1, <4>2, <4>3
    <3> QED
      BY <1>a, <2>2, <2>5, <3>1, <3>2, <3>3, <3>4, <3>5
  <2>7. Copied(file'[log], p, w + n, buf)
    BY <2>4, <2>6 DEF Copied
  <2> QED
    BY <2>3, <2>4, <2>7 DEF Places, p
<1>7. CASE SwapDone
  BY <1>7 DEF SwapDone, Places
<1>8. CASE Crash
  BY <1>8 DEF Crash, CloseLogs, Places
<1>9. CASE SkipOld \/ SkipTill \/ Loop \/ ReadPiece \/ ReadEnd
  BY <1>9 DEF SkipOld, SkipTill, Loop, ReadPiece, ReadEnd, Places
<1>10. CASE StoreReading \/ StoreAverage
  <2>1. pc' \in {"loop", "store"}
    BY <1>10, <1>a, GoOnFacts DEF StoreReading, StoreAverage
  <2> QED
    BY <2>1 DEF Places
<1>11. CASE Advance
  BY <1>11 DEF Advance, Reading, loggerVars, Places
<1>12. CASE Interrupt \/ EmulatorNext \/ UNCHANGED vars
  <2>1. UNCHANGED <<fileVars, pc, log, w, r, buf>>
    BY <1>12 DEF Interrupt, EmulatorNext, vars, fileVars, loggerVars
  <2> QED
    BY <2>1 DEF fileVars, Places, AllFresh, Sifted, Fresh
<1> QED
  BY <1>1, <1>2, <1>3, <1>4, <1>5, <1>6, <1>7, <1>8, <1>9, <1>10, <1>11, <1>12
     DEF Next, LoggerStep, Ended

\* While a log is pruned a line that is to stay is in the file after every write.
LEMMA StepKeeps ==
  ASSUME TypeOK, Bounds, Places, Next,
         NEW l \in Logs, NEW i \in 1..Len(file[l]), pc = "prune", Fresh(l, file[l][i])
  PROVE  Among(file[l][i], file'[l])
<1>0. FilesTypeOK /\ LocalsOK
  BY DEF TypeOK, LocalsOK
<1>a. /\ file \in [Logs -> Seq(Line)] /\ log \in Logs /\ r \in Nat /\ w \in Nat
      /\ \A k \in Logs : Len(file[k]) \in Nat
  BY <1>0, FilesTypes, LenProperties DEF LocalsOK
<1>b. file'[l] = file[l] => Among(file[l][i], file'[l])
  BY DEF Among
<1>1. CASE PruneLine
  <2>1. /\ pc = "prune" /\ w <= r /\ r + 1 \in 1..Len(file[log]) /\ Sifted(log, w, r)
    BY <1>1, <1>a DEF PruneLine, Bounds, Places
  <2>2. CASE MoveUp(log, w, r + 1) /\ l = log
    <3>1. /\ Len(file'[log]) = Len(file[log])
          /\ \A j \in 1..Len(file[log]) :
               file'[log][j] = IF j = w + 1 THEN file[log][r + 1] ELSE file[log][j]
      <4>1. /\ w < r + 1 /\ MoveUp(log, w, r + 1)
            /\ log \in Logs /\ w \in Nat /\ r + 1 \in 1..Len(file[log])
        BY <1>a, <2>1, <2>2
      <4> QED
        BY <1>0, <4>1, MoveUpFacts
    <3>2. CASE i # w + 1 \/ w = r
      <4>1. file'[l][i] = file[l][i]
        BY <2>2, <3>1, <3>2
      <4> QED
        BY <2>2, <3>1, <4>1 DEF Among
    <3>3. CASE i = w + 1 /\ w # r
      <4>1. i \in w + 1 .. r
        BY <1>a, <2>1, <3>3
      <4>2. PICK j \in 1..w : file[log][j] = file[log][i]
        BY <2>1, <2>2, <4>1 DEF Sifted
      <4>3. j \in 1..Len(file[log]) /\ j # w + 1
        BY <1>a, <2>1
      <4>4. file'[log][j] = file[log][j]
        BY <3>1, <4>3
      <4> QED
        BY <2>2, <3>1, <4>2, <4>3, <4>4 DEF Among
    <3> QED
      BY <3>2, <3>3
  <2>3. CASE MoveUp(log, w, r + 1) /\ l # log
    BY <1>0, <1>a, <1>b, <2>1, <2>3, MoveUpFacts DEF OthersKept
  <2>4. CASE UNCHANGED fileVars
    BY <1>b, <2>4 DEF fileVars
  <2> QED
    BY <1>1, <2>2, <2>3, <2>4 DEF PruneLine
<1>2. CASE PruneDone
  <2>1. /\ pc = "prune" /\ w \in 0..Len(file[log]) /\ r = Len(file[log]) /\ Sifted(log, w, r)
    BY <1>2, <1>a DEF PruneDone, Bounds, Places
  <2>2. /\ OthersKept(log)
        /\ Len(file'[log]) = w /\ \A j \in 1..w : file'[log][j] = file[log][j]
    BY <1>0, <1>2, <1>a, <2>1, CutFacts DEF PruneDone
  <2>3. CASE l # log
    BY <1>b, <2>2, <2>3 DEF OthersKept
  <2>4. CASE l = log /\ i \in 1..w
    BY <2>2, <2>4 DEF Among
  <2>5. CASE l = log /\ i \notin 1..w
    <3>1. i \in w + 1 .. r
      BY <1>a, <2>1, <2>5
    <3>2. PICK j \in 1..w : file[log][j] = file[log][i]
      BY <2>1, <2>5, <3>1 DEF Sifted
    <3> QED
      BY <2>2, <2>5, <3>2 DEF Among
  <2> QED
    BY <2>3, <2>4, <2>5
<1>3. CASE \/ Start \/ SkipOld \/ SkipTill \/ Loop \/ ReadPiece \/ ReadEnd \/ StoreReading
           \/ StoreAverage \/ SwapNothing \/ SwapStart \/ SwapChunk \/ SwapDone
           \/ Advance \/ Interrupt \/ Crash \/ EmulatorNext \/ Ended
  <2>1. file' = file
    BY <1>3 DEF Start, SkipOld, SkipTill, Loop, ReadPiece, ReadEnd, StoreReading, StoreAverage,
                SwapNothing, SwapStart, SwapChunk, SwapDone, Advance, Interrupt, Crash, CloseLogs,
                EmulatorNext, Ended, fileVars, vars
  <2> QED
    BY <1>b, <2>1
<1> QED
  BY <1>1, <1>2, <1>3 DEF Next, LoggerStep

\* However far a log has been pruned, a line that is to stay is in its file: it is
\* written further up before what is behind it is cut off.
THEOREM LinesKept == Spec => PrunedLinesStay
<1> DEFINE Inv == TypeOK /\ Bounds /\ Past /\ Averages /\ Places
<1>1. Init => Inv
  BY TypeInit, PastInit, PlacesInit DEF Init, Averages, Main
<1>2. Inv /\ [Next]_vars => Inv'
  BY TypeStep, PastStep, AveragesStep, PlacesStep
<1>3. Inv /\ [Next]_vars =>
        [\A l \in Logs : \A i \in 1..Len(file[l]) :
           pc = "prune" /\ Fresh(l, file[l][i]) => Among(file[l][i], file'[l])]_vars
  BY StepKeeps
<1> QED
  BY <1>1, <1>2, <1>3, PTL DEF Spec, PrunedLinesStay

-----------------------------------------------------------------------------
(* The mapping, step by step.                                               *)

Ents == [l \in Logs |-> Entries(l)]

LEMMA EntriesAre ==
  ASSUME NEW l \in Logs
  PROVE  /\ Entries(l) = IF pc = "prune" /\ l = log THEN PrunedOf(file[l], w, r)
                         ELSE IF pc = "shift" /\ l = log THEN ShiftedOf(file[l], pos[l], w, buf)
                         ELSE RingOf(file[l], pos[l])
         /\ Entries(l)' = IF pc' = "prune" /\ l = log' THEN PrunedOf(file'[l], w', r')
                          ELSE IF pc' = "shift" /\ l = log'
                            THEN ShiftedOf(file'[l], pos'[l], w', buf')
                          ELSE RingOf(file'[l], pos'[l])
BY DEF Entries, PrunedOf, ShiftedOf, RingOf

LEMMA EntriesType ==
  ASSUME TypeOK, Bounds, NEW l \in Logs
  PROVE  Entries(l) \in Seq(Line)
<1>1. /\ file[l] \in Seq(Line) /\ Len(file[l]) \in Nat /\ pos[l] \in Nat /\ pos[l] <= Len(file[l])
      /\ w \in Nat /\ r \in Nat /\ buf \in Seq(Line)
  BY FilesTypes DEF TypeOK
<1>2. CASE pc = "prune" /\ l = log
  <2>1. r \in 0..Len(file[l]) /\ w \in 0..r
    BY <1>1, <1>2 DEF Bounds
  <2>2. PrunedOf(file[l], w, r) \in Seq(Line)
    BY <1>1, <2>1, PrunedLines
  <2> QED
    BY <1>2, <2>2, EntriesAre
<1>3. CASE pc = "shift" /\ l = log
  <2>1. pos[l] \in 0..Len(file[l]) /\ w \in 0 .. Len(file[l]) - pos[l] /\ Len(buf) = pos[l]
    BY <1>1, <1>3 DEF Bounds
  <2>2. ShiftedOf(file[l], pos[l], w, buf) \in Seq(Line)
    BY <1>1, <2>1, ShiftedLines
  <2> QED
    BY <1>3, <2>2, EntriesAre
<1>4. CASE ~(pc \in {"prune", "shift"} /\ l = log)
  <2>1. pos[l] \in 0..Len(file[l])
    BY <1>1
  <2> QED
    BY <1>1, <1>4, <2>1, EntriesAre, RingLines
<1> QED
  BY <1>2, <1>3, <1>4

LEMMA EntsSame ==
  ASSUME \A l \in Logs : Entries(l)' = Entries(l)
  PROVE  Ents' = Ents
BY DEF Ents

LEMMA EntsChange ==
  ASSUME NEW k \in Logs, NEW v, Entries(k)' = v,
         \A l \in Logs \ {k} : Entries(l)' = Entries(l)
  PROVE  Ents' = [Ents EXCEPT ![k] = v]
BY DEF Ents

LEMMA OldOrFresh ==
  ASSUME FilesTypeOK, NEW l \in Logs, NEW line \in Line
  PROVE  Queue!TooOld(l, line) <=> ~Fresh(l, line)
<1>1. now \in Nat /\ Keep[l] \in Nat /\ line.date \in Int
  BY LogFileAssumption DEF FilesTypeOK, Line, NoDate
<1> QED
  BY <1>1 DEF Queue!TooOld, Fresh

LEMMA StartMaps ==
  ASSUME TypeOK, Places, Start
  PROVE  Queue!Start
<1>1. /\ pc = "off" /\ pc' = "prune" /\ log' = 1 /\ w' = 0 /\ r' = 0
      /\ file' = file /\ now' = now /\ \A l \in Logs : pos[l] = 0 /\ pos'[l] = 0
  BY DEF Start, InitLogs, Locals, Places
<1>2. ASSUME NEW l \in Logs PROVE Entries(l)' = Entries(l)
  <2>1. file[l] \in Seq(Line)
    BY DEF TypeOK, FilesTypeOK
  <2>2. RingOf(file[l], 0) = file[l] /\ PrunedOf(file[l], 0, 0) = file[l]
    BY <2>1, RingWhole, PrunedWhole
  <2> QED
    BY <1>1, <2>2, EntriesAre
<1>3. Ents' = Ents
  BY <1>2, EntsSame
<1> QED
  BY <1>1, <1>3 DEF Queue!Start, Phase, Ents

\* The logger goes on, and the entries are what they were.
Unseen == now' = now /\ Phase' = Phase /\ \A l \in Logs : Entries(l)' = Entries(l)

LEMMA PruneLineMaps ==
  ASSUME TypeOK, Bounds, PruneLine
  PROVE  Unseen \/ Queue!Drop(log)
<1>0. FilesTypeOK /\ LocalsOK
  BY DEF TypeOK, LocalsOK
<1>1. /\ pc = "prune" /\ pc' = "prune" /\ log' = log /\ r' = r + 1 /\ log \in Logs
      /\ w \in 0..r /\ r \in Nat /\ w \in Nat /\ r + 1 \in 1..Len(file[log])
      /\ file[log] \in Seq(Line) /\ Len(file[log]) \in Nat /\ file[log][r + 1] \in Line
  <2>1. /\ pc = "prune" /\ pc' = "prune" /\ log' = log /\ r' = r + 1 /\ log \in Logs
        /\ w <= r /\ r \in Nat /\ w \in Nat /\ r < Len(file[log])
    BY <1>0 DEF PruneLine, Bounds, LocalsOK
  <2>2. file[log] \in Seq(Line) /\ Len(file[log]) \in Nat
    BY <1>0, <2>1, FilesTypes
  <2>3. r + 1 \in 1..Len(file[log])
    BY <2>1, <2>2
  <2> QED
    BY <1>0, <2>1, <2>2, <2>3, FilesTypes
<1>2. CASE Fresh(log, file[log][r + 1])
  <2>1. w' = w + 1 /\ MoveUp(log, w, r + 1)
    BY <1>2 DEF PruneLine
  <2>2. /\ OthersKept(log) /\ UNCHANGED <<now, pos>> /\ FilesTypeOK'
        /\ Len(file'[log]) = Len(file[log])
        /\ \A j \in 1..Len(file[log]) :
             file'[log][j] = IF j = w + 1 THEN file[log][r + 1] ELSE file[log][j]
    <3>1. w < r + 1
      BY <1>1
    <3> QED
      BY <1>0, <1>1, <2>1, <3>1, MoveUpFacts
  <2>3. PrunedOf(file'[log], w + 1, r + 1) = PrunedOf(file[log], w, r)
    <3>1. file'[log] \in Seq(Line) /\ r + 1 <= Len(file[log])
      BY <1>1, <2>2 DEF FilesTypeOK
    <3> DEFINE old == file[log]
               new == file'[log]
    <3>2. /\ old \in Seq(Line) /\ new \in Seq(Line) /\ Len(new) = Len(old)
          /\ r + 1 <= Len(old) /\ r + 1 <= Len(new)
          /\ \A j \in 1..Len(old) : new[j] = IF j = w + 1 THEN old[r + 1] ELSE old[j]
      BY <1>1, <2>2, <3>1
    <3> HIDE DEF old, new
    <3>3. PrunedOf(new, w + 1, r + 1) = PrunedOf(old, w, r)
      BY <1>1, <3>2, PrunedKeeps
    <3> QED
      BY <3>3 DEF old, new
  <2>4. ASSUME NEW l \in Logs PROVE Entries(l)' = Entries(l)
    BY <1>1, <2>1, <2>2, <2>3, EntriesAre DEF OthersKept
  <2> QED
    BY <1>1, <2>2, <2>4 DEF Unseen, Phase
<1>3. CASE ~Fresh(log, file[log][r + 1])
  <2>1. w' = w /\ UNCHANGED <<now, file, pos, first>>
    BY <1>3 DEF PruneLine, fileVars
  <2> DEFINE s == PrunedOf(file[log], w, r)
  <2>2. /\ w + 1 \in 1..Len(s) /\ s[w + 1] = file[log][r + 1]
        /\ PrunedOf(file[log], w, r + 1) = Queue!RemoveAt(s, w + 1)
    <3>1. r + 1 <= Len(file[log])
      BY <1>1
    <3> QED
      BY <1>1, <3>1, PrunedDrops
  <2>3. Entries(log) = s /\ Entries(log)' = Queue!RemoveAt(s, w + 1)
    BY <1>1, <2>1, <2>2, EntriesAre
  <2>4. \A l \in Logs \ {log} : Entries(l)' = Entries(l)
    BY <1>1, <2>1, EntriesAre
  <2> HIDE DEF s
  <2>5. Ents' = [Ents EXCEPT ![log] = Queue!RemoveAt(s, w + 1)] /\ Ents[log] = s
    <3>1. Ents' = [Ents EXCEPT ![log] = Queue!RemoveAt(s, w + 1)]
      BY <1>1, <2>3, <2>4, EntsChange
    <3> QED
      BY <1>1, <2>3, <3>1 DEF Ents
  <2>6. Queue!TooOld(log, s[w + 1])
    BY <1>0, <1>1, <1>3, <2>2, OldOrFresh
  <2>7. \E i \in 1..Len(Ents[log]) :
          /\ Queue!TooOld(log, Ents[log][i])
          /\ Ents' = [Ents EXCEPT ![log] = Queue!RemoveAt(Ents[log], i)]
    BY <2>2, <2>5, <2>6
  <2>8. Phase = "starting" /\ Phase' = "starting" /\ now' = now
    BY <1>1, <2>1 DEF Phase
  <2> QED
    BY <2>7, <2>8 DEF Queue!Drop, Ents
<1> QED
  BY <1>2, <1>3

LEMMA PruneDoneMaps ==
  ASSUME TypeOK, Bounds, Places, PruneDone
  PROVE  Unseen \/ Queue!Ready
<1>0. FilesTypeOK /\ LocalsOK
  BY DEF TypeOK, LocalsOK
<1>1. /\ pc = "prune" /\ log \in Logs /\ w \in 0..Len(file[log]) /\ r = Len(file[log])
      /\ Cut(log, w) /\ r' = 0 /\ w' = 0 /\ Sifted(log, w, r)
      /\ \A l \in Logs : /\ file[l] \in Seq(Line) /\ Len(file[l]) \in Nat
                         /\ pos[l] \in 0..Len(file[l])
                         /\ l < log => AllFresh(l) /\ pos[l] = Len(file[l])
                         /\ l > log => pos[l] = 0
  <2>1. /\ pc = "prune" /\ log \in Logs /\ w \in Nat /\ w <= r /\ r = Len(file[log])
        /\ Cut(log, w) /\ r' = 0 /\ w' = 0
    BY <1>0 DEF PruneDone, Bounds, LocalsOK
  <2>2. \A l \in Logs : /\ file[l] \in Seq(Line) /\ Len(file[l]) \in Nat
                        /\ pos[l] \in 0..Len(file[l])
    BY <1>0, FilesTypes
  <2> QED
    BY <2>1, <2>2 DEF Places
<1>2. /\ OthersKept(log) /\ now' = now /\ FilesTypeOK'
      /\ \A j \in Logs \ {log} : pos'[j] = pos[j]
      /\ Len(file'[log]) = w /\ pos'[log] = w /\ \A j \in 1..w : file'[log][j] = file[log][j]
  BY <1>0, <1>1, CutFacts
<1>3. RingOf(file'[log], w) = PrunedOf(file[log], w, Len(file[log]))
  <2>1. file'[log] \in Seq(Line)
    BY <1>1, <1>2 DEF FilesTypeOK
  <2> QED
    BY <1>1, <1>2, <2>1, PrunedEnd
<1>4. ASSUME NEW l \in Logs PROVE Entries(l)' = Entries(l)
  <2>1. CASE l = log
    <3>1. ~(pc' = "prune" /\ l = log') /\ pc' # "shift"
      BY <1>1, <2>1 DEF PruneDone, Logs
    <3>2. Entries(l)' = RingOf(file'[l], pos'[l])
      BY <3>1, EntriesAre
    <3>3. Entries(l) = PrunedOf(file[log], w, Len(file[log]))
      BY <1>1, <2>1, EntriesAre
    <3> QED
      BY <1>2, <1>3, <2>1, <3>2, <3>3
  <2>2. CASE l # log /\ ~(pc' = "prune" /\ l = log')
    <3>1. pc' # "shift" /\ file'[l] = file[l] /\ pos'[l] = pos[l]
      BY <1>2, <2>2 DEF PruneDone, OthersKept
    <3> QED
      BY <1>1, <2>2, <3>1, EntriesAre
  <2>3. CASE l # log /\ pc' = "prune" /\ l = log'
    <3>1. l > log
      BY <1>1, <2>3 DEF PruneDone, Logs
    <3>2. file'[l] = file[l] /\ pos[l] = 0 /\ file[l] \in Seq(Line)
      BY <1>1, <1>2, <2>3, <3>1 DEF OthersKept
    <3>3. RingOf(file[l], 0) = file[l] /\ PrunedOf(file[l], 0, 0) = file[l]
      BY <3>2, RingWhole, PrunedWhole
    <3> QED
      BY <1>1, <2>3, <3>2, <3>3, EntriesAre
  <2> QED
    BY <2>1, <2>2, <2>3
<1>5. CASE log < 3
  BY <1>1, <1>2, <1>4, <1>5 DEF PruneDone, Unseen, Phase
<1>6. CASE ~(log < 3)
  <2>1. pc' = "skip_old" /\ log = 3
    BY <1>1, <1>6 DEF PruneDone, Logs
  <2>2. ASSUME NEW l \in Logs, NEW i \in 1..Len(Entries(l))
        PROVE  ~Queue!TooOld(l, Entries(l)[i])
    <3>1. CASE l = log
      <4> DEFINE s == PrunedOf(file[log], w, r)
      <4>1. Entries(l) = s
        BY <1>1, <3>1, EntriesAre
      <4>2. /\ Len(s) = w + Len(file[log]) - r
            /\ \A j \in 1 .. w + Len(file[log]) - r :
                 s[j] = IF j <= w THEN file[log][j] ELSE file[log][r + j - w]
        <5>1. r \in 0..Len(file[log]) /\ w \in 0..r
          BY <1>1
        <5> QED
          BY <1>1, <5>1, PrunedLines
      <4> HIDE DEF s
      <4>3. i \in 1..w /\ i \in 1..Len(file[log]) /\ s[i] = file[log][i]
        <5>1. w + Len(file[log]) - r = w
          BY <1>1
        <5> QED
          BY <1>1, <2>2, <4>1, <4>2, <5>1
      <4>4. Fresh(log, file[log][i]) /\ file[log][i] \in Line
        BY <1>0, <1>1, <4>3, FilesTypes DEF Sifted
      <4> QED
        BY <1>0, <1>1, <3>1, <4>1, <4>3, <4>4, OldOrFresh
    <3>2. CASE l # log
      <4>1. /\ Entries(l) = RingOf(file[l], pos[l]) /\ AllFresh(l)
            /\ pos[l] = Len(file[l]) /\ file[l] \in Seq(Line)
        BY <1>1, <2>1, <3>2, EntriesAre DEF Logs
      <4>2. Entries(l) = file[l]
        BY <4>1, RingWhole
      <4>3. Fresh(l, Entries(l)[i]) /\ Entries(l)[i] \in Line
        BY <1>0, <2>2, <4>1, <4>2, FilesTypes DEF AllFresh
      <4> QED
        BY <1>0, <4>3, OldOrFresh
    <3> QED
      BY <3>1, <3>2
  <2>3. Ents' = Ents
    BY <1>4, EntsSame
  <2>4. \A l \in Logs : \A i \in 1..Len(Ents[l]) : ~Queue!TooOld(l, Ents[l][i])
    BY <2>2 DEF Ents
  <2>5. Phase = "starting" /\ Phase' = "on" /\ now' = now
    BY <1>1, <1>2, <2>1 DEF Phase
  <2> QED
    BY <2>3, <2>4, <2>5 DEF Queue!Ready, Ents
<1> QED
  BY <1>5, <1>6

\* A write adds the last entry; where it makes the file longer the first is to stay.
LEMMA WriteMaps ==
  ASSUME TypeOK, Firsts, pc = "store", pc' \in {"store", "loop"},
         NEW k \in Logs, NEW val \in Val, WriteLog(k, val)
  PROVE  Queue!Write(k)
<1> DEFINE line == [date |-> now, val |-> val]
           s    == Entries(k)
<1>0. FilesTypeOK
  BY DEF TypeOK
<1>1. /\ FilesTypeOK' /\ now' = now /\ OthersKept(k)
      /\ \A j \in Logs \ {k} : pos'[j] = pos[j]
      /\ Len(file'[k]) >= Len(file[k])
      /\ pos'[k] \in 1..Len(file'[k])
      /\ file'[k][pos'[k]] = line
      /\ \A j \in 1..Len(file'[k]) : j # pos'[k] => j <= Len(file[k]) /\ file'[k][j] = file[k][j]
      /\ \/ pos[k] = Len(file[k]) /\ pos'[k] = 1
         \/ ~(pos[k] = Len(file[k]) /\ Expired(k)) /\ pos'[k] = pos[k] + 1
  <2> HIDE DEF line, s
  <2> QED
    BY <1>0, WriteLogFacts DEF line
<1>2. /\ file[k] \in Seq(Line) /\ file'[k] \in Seq(Line) /\ pos[k] \in 0..Len(file[k])
      /\ line \in Line /\ now \in Nat /\ Len(file[k]) \in Nat
  <2>1. /\ file[k] \in Seq(Line) /\ now \in Nat /\ Len(file[k]) \in Nat
        /\ pos[k] \in Nat /\ pos[k] <= Len(file[k])
    BY <1>0, FilesTypes
  <2>2. file'[k] \in Seq(Line)
    BY <1>1 DEF FilesTypeOK
  <2>3. line \in Line
    BY <2>1 DEF Line
  <2> HIDE DEF line, s
  <2> QED
    BY <2>1, <2>2, <2>3
<1>3. s = RingOf(file[k], pos[k]) /\ Entries(k)' = RingOf(file'[k], pos'[k])
  BY EntriesAre
<1>4. \A l \in Logs \ {k} : Entries(l)' = Entries(l)
  BY <1>1, EntriesAre DEF OthersKept
<1> HIDE DEF line
<1>5. /\ pos[k] = Len(file[k]) /\ pos'[k] = pos[k] + 1 => Entries(k)' = Append(s, line)
      /\ ~(pos[k] = Len(file[k]) /\ pos'[k] = pos[k] + 1) =>
           Len(s) > 0 /\ Entries(k)' = Append(SubSeq(s, 2, Len(s)), line)
  <2> DEFINE old == file[k]
             new == file'[k]
             p   == pos[k]
             q   == pos'[k]
  <2>1. /\ old \in Seq(Line) /\ new \in Seq(Line) /\ Len(new) >= Len(old)
        /\ p \in 0..Len(old) /\ q \in 1..Len(new) /\ line \in Line
        /\ q = p + 1 \/ (p = Len(old) /\ q = 1)
        /\ new[q] = line
        /\ \A j \in 1..Len(new) : j # q => j <= Len(old) /\ new[j] = old[j]
    BY <1>1, <1>2
  <2> HIDE DEF old, new, p, q
  <2>2. /\ p = Len(old) /\ q = p + 1 => RingOf(new, q) = Append(RingOf(old, p), line)
        /\ ~(p = Len(old) /\ q = p + 1) =>
             /\ Len(RingOf(old, p)) > 0
             /\ RingOf(new, q) = Append(SubSeq(RingOf(old, p), 2, Len(RingOf(old, p))), line)
    BY <2>1, RingPush
  <2> QED
    BY <1>3, <2>2 DEF old, new, p, q
<1>6. CASE pos[k] = Len(file[k]) /\ pos'[k] = pos[k] + 1
  <2>1. s = file[k]
    BY <1>2, <1>3, <1>6, RingWhole
  <2>2. s = <<>> \/ ~Queue!TooOld(k, Head(s))
    <3> SUFFICES ASSUME file[k] # <<>> PROVE ~Queue!TooOld(k, Head(file[k]))
      BY <2>1
    <3>1. Len(file[k]) > 0 /\ Head(file[k]) = file[k][1] /\ file[k][1] \in Line
      <4>1. Len(file[k]) # 0
        BY <1>2, EmptySeq
      <4>2. Head(file[k]) = file[k][1]
        BY <1>2, HeadTailProperties
      <4>3. 1 \in 1..Len(file[k])
        BY <1>2, <4>1
      <4> QED
        BY <1>0, <1>2, <4>1, <4>2, <4>3, FilesTypes
    <3>2. first[k] = file[k][1].date
      BY DEF Firsts, Known, Main
    <3>3. ~Expired(k)
      BY <1>1, <1>2, <1>6, <3>1
    <3>4. Fresh(k, file[k][1])
      <4>1. Keep[k] \in Nat /\ file[k][1].date \in Int /\ NoEntry = NoDate
        BY <3>1, LogFileAssumption DEF Line, NoDate, NoEntry
      <4> QED
        BY <1>2, <3>2, <3>3, <4>1 DEF Expired, Fresh
    <3> QED
      BY <1>0, <3>1, <3>4, OldOrFresh
  <2>3. Ents' = [Ents EXCEPT ![k] = Append(Ents[k], line)] /\ Ents[k] = s
    <3>1. Ents' = [Ents EXCEPT ![k] = Append(s, line)]
      BY <1>4, <1>5, <1>6, EntsChange
    <3> QED
      BY <3>1 DEF Ents
  <2>4. \E v \in Val, kept \in {Ents[k], SubSeq(Ents[k], 2, Len(Ents[k]))} :
          /\ kept = Ents[k] => Ents[k] = <<>> \/ ~Queue!TooOld(k, Head(Ents[k]))
          /\ Ents' = [Ents EXCEPT ![k] = Append(kept, [date |-> now, val |-> v])]
    BY <2>2, <2>3 DEF line
  <2>5. Phase = "on" /\ Phase' = "on" /\ now' = now
    BY <1>1 DEF Phase
  <2> QED
    BY <2>4, <2>5 DEF Queue!Write, Ents
<1>7. CASE ~(pos[k] = Len(file[k]) /\ pos'[k] = pos[k] + 1)
  <2>1. Entries(k)' = Append(SubSeq(s, 2, Len(s)), line) /\ SubSeq(s, 2, Len(s)) # s
    <3>1. s \in Seq(Line)
      BY <1>2, <1>3, RingLines
    <3> QED
      BY <1>2, <1>5, <1>7, <3>1, PushedLines
  <2>2. Ents[k] = s
    BY DEF Ents
  <2>3. Ents' = [Ents EXCEPT ![k] = Append(SubSeq(s, 2, Len(s)), line)]
    <3> HIDE DEF s
    <3> QED
      BY <1>4, <2>1, EntsChange
  <2>4. \E v \in Val, kept \in {Ents[k], SubSeq(Ents[k], 2, Len(Ents[k]))} :
          /\ kept = Ents[k] => Ents[k] = <<>> \/ ~Queue!TooOld(k, Head(Ents[k]))
          /\ Ents' = [Ents EXCEPT ![k] = Append(kept, [date |-> now, val |-> v])]
    <3> HIDE DEF s
    <3> QED
      BY <2>1, <2>2, <2>3 DEF line
  <2>5. Phase = "on" /\ Phase' = "on" /\ now' = now
    BY <1>1 DEF Phase
  <2> QED
    BY <2>4, <2>5 DEF Queue!Write, Ents
<1> QED
  BY <1>6, <1>7

LEMMA StoreMaps ==
  ASSUME TypeOK, Averages, Firsts, StoreReading \/ StoreAverage
  PROVE  Queue!Write(log)
<1>0. LocalsOK
  BY DEF TypeOK, LocalsOK
<1>1. pc = "store" /\ pc' \in {"store", "loop"} /\ log \in Logs
  BY <1>0, GoOnFacts DEF StoreReading, StoreAverage, LocalsOK
<1>2. CASE StoreReading
  <2>1. WriteLog(log, value) /\ value \in Val
    BY <1>0, <1>2 DEF StoreReading, LocalsOK
  <2> QED
    BY <1>1, <2>1, WriteMaps
<1>3. CASE StoreAverage
  <2> DEFINE matching == MatchingVals(log - 1, Period[log])
  <2>1. log \in 2..3
    BY <1>1, <1>3 DEF StoreAverage, Logs
  <2>2. matching # {}
    BY <1>1, <2>1, NonEmptyMatching DEF MatchingVals
  <2>3. WriteLog(log, Mean(matching))
    BY <1>3, <2>2 DEF StoreAverage
  <2> HIDE DEF matching
  <2> QED
    BY <1>1, <2>3, MeanType, WriteMaps
<1> QED
  BY <1>2, <1>3

LEMMA SwapMaps ==
  ASSUME TypeOK, Bounds, Order, SwapNothing \/ SwapStart \/ SwapChunk \/ SwapDone
  PROVE  Unseen \/ Queue!Stop
<1>0. FilesTypeOK /\ LocalsOK
  BY DEF TypeOK, LocalsOK
<1>a. /\ log \in Logs /\ w \in Nat /\ buf \in Seq(Line)
      /\ \A l \in Logs : /\ file[l] \in Seq(Line) /\ Len(file[l]) \in Nat
                         /\ pos[l] \in Nat /\ pos[l] \in 0..Len(file[l])
  <2>1. \A l \in Logs : /\ file[l] \in Seq(Line) /\ Len(file[l]) \in Nat
                        /\ pos[l] \in Nat /\ pos[l] <= Len(file[l])
    BY <1>0, FilesTypes
  <2> QED
    BY <1>0, <2>1 DEF LocalsOK
<1>1. CASE SwapNothing /\ log < 3
  BY <1>1, EntriesAre DEF SwapNothing, fileVars, Unseen, Phase
<1>2. CASE SwapNothing /\ ~(log < 3)
  <2>1. /\ pc = "swap" /\ pc' = "off" /\ log = 3 /\ pos[log] = Len(file[log])
        /\ now' = now /\ file' = file /\ \A l \in Logs : pos'[l] = 0
    BY <1>2, <1>a DEF SwapNothing, AtFileEnd, CloseLogs, Logs
  <2>2. ASSUME NEW l \in Logs PROVE Entries(l)' = Entries(l)
    <3>1. pos[l] = Len(file[l])
      BY <2>1 DEF Order, Logs
    <3>2. RingOf(file[l], pos[l]) = file[l] /\ RingOf(file[l], 0) = file[l]
      BY <1>a, <3>1, RingWhole
    <3> QED
      BY <2>1, <3>2, EntriesAre
  <2>3. Ents' = Ents
    BY <2>2, EntsSame
  <2>4. Phase = "stopping" /\ Phase' = "off"
    BY <2>1 DEF Phase
  <2> QED
    BY <2>1, <2>3, <2>4 DEF Queue!Stop, Ents
<1>3. CASE SwapStart
  <2>1. /\ pc = "swap" /\ pc' = "shift" /\ now' = now /\ file' = file /\ pos' = pos /\ log' = log
        /\ w' = 0 /\ buf' = SubSeq(file[log], 1, pos[log])
    BY <1>3 DEF SwapStart, fileVars, Before
  <2>2. ShiftedOf(file[log], pos[log], 0, buf') = RingOf(file[log], pos[log])
    BY <1>a, <2>1, SwapStarts
  <2>3. \A l \in Logs : Entries(l)' = Entries(l)
    BY <2>1, <2>2, EntriesAre
  <2> QED
    BY <2>1, <2>3 DEF Unseen, Phase
<1>4. CASE SwapChunk
  <2> DEFINE n == IF Remaining < Chunk THEN Remaining ELSE Chunk
             p == pos[log]
             old == file[log]
             new == file'[log]
  <2>1. pc = "shift" /\ Len(buf) = p /\ p < Len(old) /\ w <= Len(old) - p
    BY <1>4 DEF SwapChunk, Bounds
  <2>2. n \in Nat /\ p + w + n <= Len(old)
    <3>1. Remaining \in Nat /\ Remaining = Len(old) - p - w /\ Chunk \in Nat
      BY <1>a, <2>1, FileLoggerAssumption DEF Remaining
    <3>2. n \in Nat /\ n <= Remaining
      BY <3>1
    <3> HIDE DEF n
    <3> QED
      BY <1>a, <3>1, <3>2
  <2>3. /\ ShiftChunk(log, p, w, n) /\ w' = w + n /\ UNCHANGED <<pc, log, buf>>
    BY <1>4 DEF SwapChunk
  <2> HIDE DEF n
  <2>4. /\ FilesTypeOK' /\ UNCHANGED <<now, pos>> /\ OthersKept(log) /\ Len(new) = Len(old)
        /\ \A i \in 1..Len(old) :
             new[i] = IF w < i /\ i <= w + n THEN old[i + p] ELSE old[i]
    <3>1. /\ p \in Nat /\ p + w + n <= Len(file[log]) /\ ShiftChunk(log, p, w, n)
      BY <1>a, <2>2, <2>3
    <3> HIDE DEF p
    <3> QED
      BY <1>0, <1>a, <2>2, <3>1, ShiftChunkFacts
  <2>5. ShiftedOf(new, p, w + n, buf) = ShiftedOf(old, p, w, buf)
    <3>1. old \in Seq(Line) /\ new \in Seq(Line) /\ p \in 0..Len(old)
      BY <1>a, <2>4 DEF FilesTypeOK
    <3>2. w \in Nat /\ buf \in Seq(Line) /\ Len(buf) = p /\ Len(new) = Len(old)
      BY <1>a, <2>1, <2>4
    <3> DEFINE q == w + n
    <3>3. q \in Nat /\ w <= q /\ p + q <= Len(old)
      BY <1>a, <2>2
    <3>4. GoneUp(new, old, p, w, q)
      BY <2>4 DEF GoneUp
    <3> HIDE DEF old, new, p
    <3> HIDE DEF q
    <3>5. ShiftedOf(new, p, q, buf) = ShiftedOf(old, p, w, buf)
      BY <3>1, <3>2, <3>3, <3>4, SwapGoesOn
    <3> QED
      BY <3>5 DEF q
  <2>6. \A l \in Logs : Entries(l)' = Entries(l)
    BY <2>1, <2>3, <2>4, <2>5, EntriesAre DEF OthersKept
  <2> QED
    BY <2>3, <2>4, <2>6 DEF Unseen, Phase
<1>5. CASE SwapDone
  <2> DEFINE old == file[log]
             new == file'[log]
  <2>1. /\ pc = "shift" /\ pc' = "swap" /\ log' = log /\ PutBehind(log, buf)
        /\ Len(buf) = pos[log] /\ w = Len(old) - pos[log]
    <3>1. /\ pc = "shift" /\ pc' = "swap" /\ log' = log /\ PutBehind(log, buf)
          /\ Remaining = 0
      BY <1>5 DEF SwapDone
    <3>2. Len(old) - pos[log] - w = 0 /\ Len(old) \in Nat /\ pos[log] \in Nat
      BY <1>a, <3>1 DEF Remaining
    <3>3. Len(buf) = pos[log]
      BY <3>1 DEF Bounds
    <3>4. w = Len(old) - pos[log]
      <4> HIDE DEF old
      <4> QED
        BY <1>a, <3>2
    <3> QED
      BY <3>1, <3>3, <3>4
  <2>2. Len(buf) <= Len(old)
    BY <1>a, <2>1
  <2>3. /\ FilesTypeOK' /\ now' = now /\ OthersKept(log)
        /\ \A j \in Logs \ {log} : pos'[j] = pos[j]
        /\ Len(new) = Len(old) /\ pos'[log] = Len(old)
        /\ \A i \in 1..Len(old) :
             new[i] = IF i > Len(old) - Len(buf) THEN buf[i - (Len(old) - Len(buf))] ELSE old[i]
    BY <1>0, <1>a, <2>1, <2>2, PutBehindFacts
  <2>4. RingOf(new, Len(new)) = ShiftedOf(old, Len(buf), Len(old) - Len(buf), buf)
    <3>1. old \in Seq(Line) /\ new \in Seq(Line)
      BY <1>a, <2>3 DEF FilesTypeOK
    <3> HIDE DEF old, new
    <3> QED
      BY <1>a, <2>2, <2>3, <3>1, SwapEnds
  <2>5. \A l \in Logs : Entries(l)' = Entries(l)
    BY <2>1, <2>3, <2>4, EntriesAre DEF OthersKept
  <2> QED
    BY <2>1, <2>3, <2>5 DEF Unseen, Phase
<1> QED
  BY <1>1, <1>2, <1>3, <1>4, <1>5

-----------------------------------------------------------------------------
(* What a kill leaves: the file as it is, read from its first line.         *)

\* A sequence is known by its length and its lines.
LEMMA AsFunction ==
  ASSUME NEW lines \in Seq(Line)
  PROVE  lines = [i \in 1..Len(lines) |-> lines[i]] /\ Len(lines) \in Nat
BY LenProperties

\* A ring turned back is the file.
LEMMA RingTurned ==
  ASSUME NEW lines \in Seq(Line), NEW p \in 0..Len(lines)
  PROVE  /\ lines = Queue!Turned(RingOf(lines, p), p)
         /\ Len(RingOf(lines, p)) = Len(lines)
<1> DEFINE m == Len(lines)
           e == RingOf(lines, p)
<1>1. m \in Nat /\ p \in Nat /\ p <= m /\ lines = [i \in 1..m |-> lines[i]]
  BY AsFunction
<1>2. /\ Len(e) = m
      /\ \A i \in 1..m : e[i] = IF i <= m - p THEN lines[p + i] ELSE lines[i - (m - p)]
  BY RingLines
<1> HIDE DEF m, e
<1>3. ASSUME NEW i \in 1..m
      PROVE  (IF i <= p THEN e[m - p + i] ELSE e[i - p]) = lines[i]
  <2>1. CASE i <= p
    <3>1. m - p + i \in 1..m /\ ~(m - p + i <= m - p) /\ (m - p + i) - (m - p) = i
      BY <1>1, <2>1
    <3> QED
      BY <1>2, <2>1, <3>1
  <2>2. CASE ~(i <= p)
    <3>1. i - p \in 1..m /\ i - p <= m - p /\ p + (i - p) = i
      BY <1>1, <2>2
    <3> QED
      BY <1>2, <2>2, <3>1
  <2> QED
    BY <2>1, <2>2
<1>4. Queue!Turned(e, p) = [i \in 1..m |-> IF i <= p THEN e[m - p + i] ELSE e[i - p]]
  BY <1>2 DEF Queue!Turned
<1>5. Queue!Turned(e, p) = lines
  BY <1>1, <1>3, <1>4
<1> QED
  BY <1>2, <1>5 DEF e, m

\* In a file being swapped the front is in order and the rest as it was.
LEMMA ShiftTurned ==
  ASSUME NEW lines \in Seq(Line), NEW p \in 0..Len(lines), NEW k \in 0 .. Len(lines) - p,
         NEW b \in Seq(Line), Len(b) = p, Copied(lines, p, k, b)
  PROVE  LET e == ShiftedOf(lines, p, k, b)
         IN  /\ Len(e) = Len(lines)
             /\ lines = [i \in 1..Len(e) |-> IF i <= k THEN e[i] ELSE Queue!Turned(e, p)[i]]
<1> DEFINE m == Len(lines)
           e == ShiftedOf(lines, p, k, b)
           turned == [i \in 1..m |-> IF i <= p THEN e[m - p + i] ELSE e[i - p]]
<1>1. /\ m \in Nat /\ p \in Nat /\ p <= m /\ k \in Nat /\ k <= m - p
      /\ lines = [i \in 1..m |-> lines[i]]
  BY AsFunction
<1>2. /\ Len(e) = m
      /\ \A i \in 1..m : e[i] = IF i <= k THEN lines[i]
                                ELSE IF i <= m - p THEN lines[p + i] ELSE b[i - (m - p)]
  BY ShiftedLines
<1>3. \A i \in k + 1 .. m : /\ i <= p => b[i] = lines[i]
                            /\ p < i /\ i <= p + k => lines[i - p] = lines[i]
  BY DEF Copied
<1>4. Queue!Turned(e, p) = turned
  BY <1>2 DEF Queue!Turned
<1> HIDE DEF m, e
<1>5. ASSUME NEW i \in 1..m
      PROVE  (IF i <= k THEN e[i] ELSE turned[i]) = lines[i]
  <2>1. CASE i <= k
    BY <1>2, <2>1
  <2>2. CASE k < i /\ i <= p
    <3>1. /\ m - p + i \in 1..m /\ ~(m - p + i <= k) /\ ~(m - p + i <= m - p)
          /\ (m - p + i) - (m - p) = i /\ i \in k + 1 .. m /\ ~(i <= k)
      BY <1>1, <2>2
    <3>2. e[m - p + i] = b[i] /\ b[i] = lines[i]
      BY <1>2, <1>3, <2>2, <3>1
    <3>3. turned[i] = e[m - p + i]
      BY <2>2
    <3> QED
      BY <3>1, <3>2, <3>3
  <2>3. CASE k < i /\ p < i
    <3>1. i - p \in 1..m /\ i - p <= m - p /\ p + (i - p) = i /\ i \in k + 1 .. m
          /\ ~(i <= k) /\ ~(i <= p)
      BY <1>1, <2>3
    <3>2. e[i - p] = lines[i]
      <4>1. CASE i - p <= k
        <5>1. e[i - p] = lines[i - p]
          BY <1>2, <3>1, <4>1
        <5>2. i <= p + k
          BY <1>1, <3>1, <4>1
        <5>3. lines[i - p] = lines[i]
          BY <1>3, <2>3, <3>1, <5>2
        <5> QED
          BY <5>1, <5>3
      <4>2. CASE ~(i - p <= k)
        BY <1>2, <3>1, <4>2
      <4> QED
        BY <4>1, <4>2
    <3>3. turned[i] = e[i - p]
      BY <3>1
    <3> QED
      BY <3>1, <3>2, <3>3
  <2> QED
    BY <1>1, <2>1, <2>2, <2>3
<1> HIDE DEF turned
<1>6. lines = [i \in 1..m |-> IF i <= k THEN e[i] ELSE turned[i]]
  BY <1>1, <1>5
<1> QED
  BY <1>2, <1>4, <1>6 DEF e, m

LEMMA CrashMaps ==
  ASSUME TypeOK, Bounds, Places, Crash
  PROVE  Queue!Crash
<1>0. FilesTypeOK /\ LocalsOK
  BY DEF TypeOK, LocalsOK
<1>1. /\ pc # "off" /\ pc' = "off" /\ now' = now /\ file' = file
      /\ \A l \in Logs : pos'[l] = 0
  BY DEF Crash, CloseLogs
<1>a. /\ log \in Logs /\ r \in Nat /\ w \in Nat /\ buf \in Seq(Line)
      /\ \A l \in Logs : /\ file[l] \in Seq(Line) /\ Len(file[l]) \in Nat
                         /\ pos[l] \in Nat /\ pos[l] \in 0..Len(file[l])
  <2>1. \A l \in Logs : /\ file[l] \in Seq(Line) /\ Len(file[l]) \in Nat
                        /\ pos[l] \in Nat /\ pos[l] <= Len(file[l])
    BY <1>0, FilesTypes
  <2> QED
    BY <1>0, <2>1 DEF LocalsOK
<1>2. \A l \in Logs : Ents'[l] = file[l]
  <2>1. \A l \in Logs : RingOf(file[l], 0) = file[l]
    BY <1>a, RingWhole
  <2> QED
    BY <1>1, <2>1, EntriesAre DEF Ents
<1>3. /\ Phase # "off" /\ Phase' = "off" /\ DOMAIN Ents' = Logs
      /\ \A l \in Logs : Ents[l] = Entries(l)
  BY <1>1 DEF Phase, Ents
<1>4. ASSUME NEW l \in Logs, ~(pc \in {"prune", "shift"} /\ l = log)
      PROVE  \E n \in 0..Len(Ents[l]) : Ents'[l] = Queue!Turned(Ents[l], n)
  <2>1. Ents[l] = RingOf(file[l], pos[l])
    BY <1>3, <1>4, EntriesAre
  <2> QED
    BY <1>2, <1>a, <2>1, RingTurned
<1>5. CASE pc = "prune"
  <2> DEFINE lines == file[log]
             e == Ents[log]
             n == r - w
  <2>1. r \in 0..Len(lines) /\ w \in 0..r /\ Sifted(log, w, r)
    BY <1>5, <1>a DEF Bounds, Places
  <2>2. /\ Len(e) = w + Len(lines) - r
        /\ \A i \in 1 .. w + Len(lines) - r : e[i] = IF i <= w THEN lines[i] ELSE lines[r + i - w]
    <3>1. e = PrunedOf(lines, w, r)
      BY <1>3, <1>5, <1>a, EntriesAre
    <3>2. lines \in Seq(Line) /\ r \in 0..Len(lines) /\ w \in 0..r
      BY <1>a, <2>1
    <3> HIDE DEF lines, e
    <3> QED
      BY <3>1, <3>2, PrunedLines
  <2>3. w \in 0..Len(e) /\ n \in 0..Len(Ents'[log]) /\ Len(Ents'[log]) = Len(e) + n
    <3>1. Ents'[log] = lines /\ Len(lines) \in Nat
      BY <1>2, <1>a
    <3> HIDE DEF lines, e
    <3> QED
      BY <1>a, <2>1, <2>2, <3>1
  <2>4. \A i \in 1..Len(e) : e[i] = Ents'[log][IF i <= w THEN i ELSE i + n]
    <3>1. Ents'[log] = lines /\ Len(lines) \in Nat
      BY <1>2, <1>a
    <3> HIDE DEF lines, e
    <3>2. \A i \in 1..Len(e) : i + n = r + i - w /\ i \in 1 .. w + Len(lines) - r
      BY <1>a, <2>1, <2>2, <3>1
    <3> QED
      BY <2>2, <3>1, <3>2
  <2>5. ASSUME NEW i \in w + 1 .. w + n
        PROVE  \/ Queue!TooOld(log, Ents'[log][i])
               \/ \E j \in 1..w : Ents'[log][i] = e[j]
    <3>1. i \in w + 1 .. r /\ i \in 1..Len(lines) /\ Ents'[log][i] = lines[i]
      BY <1>2, <1>a, <2>1
    <3>2. lines[i] \in Line
      BY <1>a, <3>1, ElementOfSeq
    <3>3. CASE Fresh(log, lines[i])
      <4>1. PICK j \in 1..w : lines[j] = lines[i]
        BY <2>1, <3>1, <3>3 DEF Sifted
      <4>2. j \in 1 .. w + Len(lines) - r /\ j <= w
        BY <1>a, <2>1
      <4>3. e[j] = lines[j]
        BY <2>2, <4>2
      <4> QED
        BY <3>1, <4>1, <4>3
    <3>4. CASE ~Fresh(log, lines[i])
      BY <1>0, <1>a, <3>1, <3>2, <3>4, OldOrFresh
    <3> QED
      BY <3>3, <3>4
  <2>6. \A l \in Logs \ {log} : Ents'[l] = Ents[l]
    <3>1. ASSUME NEW l \in Logs \ {log} PROVE RingOf(file[l], pos[l]) = file[l]
      <4>1. pos[l] \in {0, Len(file[l])}
        BY <1>5, <1>a DEF Bounds, Places, Logs
      <4> QED
        BY <1>a, <4>1, RingWhole
    <3> QED
      BY <1>2, <1>3, <3>1, EntriesAre
  <2>7. Phase = "starting"
    BY <1>5 DEF Phase
  <2> HIDE DEF e, n, lines
  <2>8. \E k \in 0..Len(e), q \in 0..Len(Ents'[log]) :
          /\ Len(Ents'[log]) = Len(e) + q
          /\ \A i \in 1..Len(e) : e[i] = Ents'[log][IF i <= k THEN i ELSE i + q]
          /\ \A i \in k + 1 .. k + q :
               \/ Queue!TooOld(log, Ents'[log][i])
               \/ \E j \in 1..k : Ents'[log][i] = e[j]
    BY <2>3, <2>4, <2>5
  <2> QED
    BY <1>1, <1>3, <1>a, <2>6, <2>7, <2>8
       DEF Queue!Crash, Queue!Refilled, Queue!Same, Ents, e
<1>6. CASE pc = "shift"
  <2> DEFINE lines == file[log]
             e == Ents[log]
             p == pos[log]
  <2>1. /\ lines \in Seq(Line) /\ p \in 0..Len(lines) /\ w \in 0 .. Len(lines) - p
        /\ Len(buf) = p /\ Copied(lines, p, w, buf)
    BY <1>6, <1>a DEF Bounds, Places
  <2>2. e = ShiftedOf(lines, p, w, buf)
    BY <1>3, <1>6, <1>a, EntriesAre
  <2> HIDE DEF lines, e, p
  <2>3. /\ Len(e) = Len(lines)
        /\ lines = [i \in 1..Len(e) |-> IF i <= w THEN e[i] ELSE Queue!Turned(e, p)[i]]
    BY <1>a, <2>1, <2>2, ShiftTurned
  <2>4. p \in 0..Len(e) /\ w \in 0..Len(e) /\ Ents'[log] = lines
    <3>1. Len(lines) \in Nat
      BY <2>1, AsFunction
    <3>2. p \in 0..Len(e) /\ w \in 0..Len(e)
      BY <1>a, <2>1, <2>3, <3>1
    <3>3. Ents'[log] = lines
      BY <1>2, <1>a DEF lines
    <3> QED
      BY <3>2, <3>3
  <2>5. \E n, k \in 0..Len(e) :
          Ents'[log] = [i \in 1..Len(e) |-> IF i <= k THEN e[i] ELSE Queue!Turned(e, n)[i]]
    BY <2>3, <2>4
  <2>6. \A l \in Logs \ {log} : \E n \in 0..Len(Ents[l]) : Ents'[l] = Queue!Turned(Ents[l], n)
    BY <1>4
  <2>7. Phase = "stopping"
    BY <1>6 DEF Phase
  <2> QED
    BY <1>1, <1>3, <1>a, <2>5, <2>6, <2>7
       DEF Queue!Crash, Queue!HalfTurned, Queue!TurnedBack, Ents, e
<1>7. CASE pc = "swap"
  <2>1. \A l \in Logs : \E n \in 0..Len(Ents[l]) : Ents'[l] = Queue!Turned(Ents[l], n)
    BY <1>4, <1>7
  <2>2. \E n, k \in 0..Len(Ents[log]) :
          Ents'[log] = [i \in 1..Len(Ents[log]) |->
                          IF i <= k THEN Ents[log][i] ELSE Queue!Turned(Ents[log], n)[i]]
    <3> DEFINE e == Ents[log]
    <3>1. PICK n \in 0..Len(e) : Ents'[log] = Queue!Turned(e, n)
      BY <1>a, <2>1
    <3>2. Len(e) \in Nat
      BY <1>3, <1>a, EntriesType, LenProperties
    <3> HIDE DEF e
    <3>3. Queue!Turned(e, n) = [i \in 1..Len(e) |-> Queue!Turned(e, n)[i]]
      BY DEF Queue!Turned
    <3>4. 0 \in 0..Len(e) /\ \A i \in 1..Len(e) : ~(i <= 0)
      BY <3>2
    <3>5. Queue!Turned(e, n) =
            [i \in 1..Len(e) |-> IF i <= 0 THEN e[i] ELSE Queue!Turned(e, n)[i]]
      BY <3>3, <3>4
    <3> QED
      BY <3>1, <3>4, <3>5 DEF e
  <2>3. Phase = "stopping"
    BY <1>7 DEF Phase
  <2> QED
    BY <1>1, <1>3, <1>a, <2>1, <2>2, <2>3
       DEF Queue!Crash, Queue!HalfTurned, Queue!TurnedBack, Ents
<1>8. CASE pc \notin {"off", "prune", "swap", "shift"}
  <2>1. \A l \in Logs : \E n \in 0..Len(Ents[l]) : Ents'[l] = Queue!Turned(Ents[l], n)
    BY <1>4, <1>8
  <2>2. Phase = "on"
    BY <1>8 DEF Phase
  <2> QED
    BY <1>1, <1>3, <2>1, <2>2 DEF Queue!Crash, Queue!TurnedBack, Ents
<1> QED
  BY <1>1, <1>5, <1>6, <1>7, <1>8

LEMMA StepQueues ==
  ASSUME TypeOK, Bounds, Averages, Firsts, Order, Places, [Next]_vars
  PROVE  [Queue!Next]_<<now, Phase, Ents>>
<1>1. ASSUME Unseen PROVE UNCHANGED <<now, Phase, Ents>>
  BY <1>1, EntsSame DEF Unseen
<1>2. log \in Logs
  BY DEF TypeOK
<1>3. CASE Start
  BY <1>3, StartMaps DEF Queue!Next
<1>4. CASE PruneLine
  BY <1>1, <1>2, <1>4, PruneLineMaps DEF Queue!Next
<1>5. CASE PruneDone
  BY <1>1, <1>5, PruneDoneMaps DEF Queue!Next
<1>6. CASE StoreReading \/ StoreAverage
  BY <1>2, <1>6, StoreMaps DEF Queue!Next
<1>7. CASE SwapNothing \/ SwapStart \/ SwapChunk \/ SwapDone
  BY <1>1, <1>7, SwapMaps DEF Queue!Next
<1>8. CASE Crash
  BY <1>8, CrashMaps DEF Queue!Next
<1>9. CASE Advance
  <2>1. now' = now + 1 /\ UNCHANGED <<file, pos, pc, log, w, r, buf>>
    BY <1>9 DEF Advance, loggerVars
  <2>2. \A l \in Logs : Entries(l)' = Entries(l)
    BY <2>1 DEF Entries
  <2>3. Ents' = Ents /\ Phase' = Phase
    BY <2>1, <2>2, EntsSame DEF Phase
  <2> QED
    BY <2>1, <2>3 DEF Queue!Next, Queue!Tick, Ents
<1>10. CASE SkipOld \/ SkipTill \/ Loop \/ ReadPiece \/ ReadEnd
  <2>1. /\ pc \in Main /\ pc' \in Main \cup {"swap"} /\ UNCHANGED <<now, file, pos>>
    BY <1>10 DEF SkipOld, SkipTill, Loop, ReadPiece, ReadEnd, fileVars, Main
  <2>2. \A l \in Logs : Entries(l)' = Entries(l)
    BY <2>1 DEF Main, Entries
  <2>3. CASE pc' \in Main
    BY <1>1, <2>1, <2>2, <2>3 DEF Unseen, Phase, Main
  <2>4. CASE pc' = "swap"
    <3>1. Phase = "on" /\ Phase' = "stopping" /\ Ents' = Ents
      BY <2>1, <2>2, <2>4, EntsSame DEF Phase, Main
    <3> QED
      BY <2>1, <3>1 DEF Queue!Next, Queue!Finish, Ents
  <2> QED
    BY <2>1, <2>3, <2>4
<1>11. CASE Interrupt \/ EmulatorNext \/ UNCHANGED vars
  <2>1. UNCHANGED <<now, file, pos, pc, log, w, r, buf>>
    BY <1>11 DEF Interrupt, EmulatorNext, vars, fileVars, loggerVars
  <2>2. \A l \in Logs : Entries(l)' = Entries(l)
    BY <2>1 DEF Entries
  <2> QED
    BY <1>1, <2>1, <2>2 DEF Unseen, Phase
<1> QED
  BY <1>3, <1>4, <1>5, <1>6, <1>7, <1>8, <1>9, <1>10, <1>11 DEF Next, LoggerStep, Ended

\* The files behave as queues of entries that outlive the logger: a write adds at
\* one end and takes at most the oldest entry from the other, pruning takes what is
\* too old, and swapping changes nothing; and a kill leaves of them what Crash says.
THEOREM QueueImplementation == Spec => ImplementsQueue
<1> DEFINE Inv == TypeOK /\ Bounds /\ Past /\ Averages /\ Firsts /\ Order /\ Places
<1>1. Init => Inv
  BY TypeInit, PastInit, OrderInit, PlacesInit DEF Init, Averages, Firsts, Main
<1>2. Inv /\ [Next]_vars => Inv'
  BY TypeStep, PastStep, AveragesStep, FirstsStep, OrderStep, PlacesStep
<1>3. Init => Queue!Init
  BY DEF Init, Queue!Init, Phase
<1>4. Inv /\ [Next]_vars => [Queue!Next]_<<now, Phase, Ents>>
  BY StepQueues
<1>5. Inv /\ [Next]_vars => [Queue!Next]_<<now, Phase, [l \in Logs |-> Entries(l)]>>
  BY <1>4 DEF Ents
<1> QED
  BY <1>1, <1>2, <1>3, <1>5, PTL DEF Spec, ImplementsQueue, Queue!Spec
=============================================================================
