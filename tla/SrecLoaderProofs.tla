--------------------------- MODULE SrecLoaderProofs ---------------------------
(***************************************************************************)
(* For every memory size and every file of the alphabet, of any length:    *)
(* the machine is started only with the memory that the file describes.    *)
(***************************************************************************)
EXTENDS SrecLoader, SequenceTheorems, TLAPS

EndsLine(k) == file[k] \in {Newline, EOF}

\* Line i has been read to its end and is well formed.
Complete(i) ==
  \E e \in i .. Len(file) :
    EndsLine(e) /\ Shaped(i, e) /\ \A k \in i .. e - 1 : ~EndsLine(k)

\* Line i is being read, the ones before it are complete.
Open(i) ==
  /\ i \in Lines /\ file[i] = LetterS
  /\ \A k \in i .. Len(file) : ~EndsLine(k)
  /\ \A j \in Lines : j # i => j < i /\ Complete(j)

\* The loader is between two lines.
Closed ==
  /\ file = <<>> \/ EndsLine(Len(file))
  /\ \A j \in Lines : Complete(j)

\* Symbol k is a data byte of the record that begins at i, and where it goes.
DataOf(i, k) ==
  /\ k <= Len(file) /\ i + 4 <= k
  /\ file[i + 1] = 3 /\ k <= i + file[i + 2] - 2
Destination(i, k) == Place((file[i + 3] + (k - (i + 4))) % (4 * Segment))
Gives(a, k) == \E i \in Lines : DataOf(i, k) /\ Destination(i, k) = a

\* The place holds the last byte read for it so far.
Holds(a) ==
  \/ mem[a] = Empty /\ \A k \in 1 .. Len(file) : ~Gives(a, k)
  \/ \E k \in 1 .. Len(file) :
       /\ Gives(a, k) /\ mem[a] = file[k]
       /\ \A j \in 1 .. Len(file) : Gives(a, j) => j <= k

StartsAt(i) == i \in Lines /\ i + 3 <= Len(file) /\ file[i + 1] = 7

Started ==
  \/ pc = Boot /\ \A i \in Lines : ~StartsAt(i)
  \/ \E i \in Lines : /\ StartsAt(i) /\ pc = file[i + 3]
                      /\ \A j \in Lines : StartsAt(j) => j <= i

\* Memory and pc are what the file read so far says.
Image == Started /\ \A a \in Claimed : Holds(a)

\* How far the loader has come in line i, by what it reads next.
InDigit(i) == at = "digit" /\ Len(file) = i

InCount(i) ==
  at = "count" /\ Len(file) = i + 1 /\ type \in {3, 7} /\ file[i + 1] = type

InAddress(i) ==
  /\ at = "address" /\ Len(file) = i + 2 /\ type \in {3, 7}
  /\ file[i + 1] = type /\ file[i + 2] \in 0 .. 255
  /\ count = DataCount(file[i + 2])

\* A count below five has wrapped: what is then stored is not asked for by the
\* file, but the line cannot be long enough to be finished.
InData(i) ==
  /\ at = "data" /\ Len(file) >= i + 3 /\ Len(file) <= MaxFile
  /\ file[i + 1] = 3 /\ file[i + 2] \in 0 .. 255 /\ file[i + 3] >= 0
  /\ \A k \in i + 4 .. Len(file) : Hex(file[k])
  /\ count >= 1
  /\ count = i + file[i + 2] - 2 - Len(file)
             + (IF file[i + 2] < 5 THEN Wrap ELSE 0)
  /\ addr = (file[i + 3] + (Len(file) - (i + 3))) % (4 * Segment)

InSkip(i) == at = "skip" /\ Shaped(i, Len(file) + 1)

Parsing ==
  \/ at = "type" /\ Closed /\ Image
  \/ \E i \in Lines :
       /\ Open(i)
       /\ \/ (InDigit(i) \/ InCount(i) \/ InAddress(i) \/ InSkip(i)) /\ Image
          \/ InData(i) /\ (file[i + 2] >= 5 => Image)
  \/ at = "done" /\ (ret = 0 => Closed /\ Image)

Typed ==
  /\ file \in Seq(Int) /\ mem \in [Claimed -> Int]
  /\ addr \in Nat /\ count \in Int /\ type \in Int /\ pc \in Int
  /\ at # "done" => ret = -1

IInv == Typed /\ Parsing

-----------------------------------------------------------------------------
(* What reading one more symbol leaves as it was.                          *)

LEMMA Alphabet ==
  /\ EOF = -1 /\ LetterS = -2 /\ Newline = -3 /\ \A x : Hex(x) <=> x >= 0
  /\ MaxFile \in Nat /\ Wrap = MaxFile + 256 /\ Segment \in Nat \ {0}
  BY LoaderAssumption DEF EOF, LetterS, Newline, Hex, Wrap

\* The file grows by x.
Grows(x) == x \in Int /\ file' = Append(file, x)

LEMMA Grown ==
  ASSUME Typed, NEW x, Grows(x)
  PROVE  /\ Len(file) \in Nat /\ file' \in Seq(Int) /\ Len(file') = Len(file) + 1
         /\ \A k \in 1 .. Len(file) : file[k] \in Int /\ file'[k] = file[k]
         /\ file'[Len(file) + 1] = x
  BY AppendProperties, LenProperties, ElementOfSeq DEF Typed, Grows

LEMMA LinesGrow ==
  ASSUME Typed, NEW x, Grows(x)
  PROVE  /\ Lines \subseteq 1 .. Len(file)
         /\ \A i : i \in Lines' <=>
                   \/ i \in Lines
                   \/ /\ i = Len(file) + 1 /\ x # EOF
                      /\ file = <<>> \/ file[Len(file)] = Newline
<1> DEFINE n == Len(file)
<1>1. Lines \subseteq 1 .. n
  BY DEF Lines
<1>2. ASSUME NEW i \in 1 .. n PROVE i \in Lines' <=> i \in Lines
  <2>1. i \in 1 .. n + 1 /\ file'[i] = file[i] /\ (i # 1 => file'[i-1] = file[i-1])
    BY Grown
  <2>2. QED
    BY <2>1, Grown DEF Lines
<1>3. n + 1 \in Lines' <=> (file = <<>> \/ file[n] = Newline) /\ x # EOF
  <2>1. n + 1 \in Lines' <=> (n + 1 = 1 \/ file'[n] = Newline) /\ x # EOF
    BY Grown DEF Lines
  <2>2. n = 0 <=> file = <<>>
    BY EmptySeq DEF Typed
  <2>3. n # 0 => file'[n] = file[n]
    BY Grown
  <2>4. QED
    BY <2>1, <2>2, <2>3, Grown
<1>4. Lines' \subseteq 1 .. n + 1 /\ n \in Nat
  BY Grown DEF Lines
<1>5. 1 .. n + 1 = (1 .. n) \cup {n + 1} /\ n + 1 \notin 1 .. n
  BY <1>4
<1> HIDE DEF n
<1>6. QED
  BY <1>1, <1>2, <1>3, <1>4, <1>5 DEF n

\* What is well formed up to some place in the file stays so, also when the
\* line is longer.
LEMMA ShapeKept ==
  ASSUME Typed, NEW x, Grows(x), NEW i \in Lines, NEW e \in 1 .. Len(file) + 1,
         Shaped(i, e), NEW d \in Int, e <= d
  PROVE  Shaped(i, d)'
<1>1. /\ i \in 1 .. Len(file) /\ i + 1 <= Len(file)
      /\ file[i + 1] \in {3, 7} => i + 3 <= Len(file)
  BY LinesGrow, Grown DEF Shaped
<1>2. file'[i] = file[i] /\ file'[i + 1] = file[i + 1]
  BY <1>1, Grown
<1>3. file[i + 1] \in {3, 7} =>
        file'[i + 2] = file[i + 2] /\ file'[i + 3] = file[i + 3]
        /\ file[i + 2] \in Int
  BY <1>1, Grown
<1>4. ASSUME file[i + 1] = 3, NEW k \in i + 4 .. i + file[i + 2] - 2
      PROVE  file'[k] = file[k]
  <2>1. i + file[i + 2] - 2 < e
    BY <1>4 DEF Shaped
  <2>2. file[i + 2] \in Int
    BY <1>3, <1>4
  <2>3. Len(file) \in Nat
    BY Grown
  <2>4. k \in 1 .. Len(file)
    BY <1>1, <1>4, <2>1, <2>2, <2>3
  <2>5. QED
    BY <2>4, Grown
<1>5. Len(file) \in Nat
  BY Grown
<1>6. file[i + 1] = 3 => i + file[i + 2] - 2 < d
  BY <1>1, <1>3, <1>5 DEF Shaped
<1>7. i + 1 < d /\ (file[i + 1] \in {3, 7} => i + 3 < d)
  BY <1>1, <1>5 DEF Shaped
<1>8. QED
  BY <1>2, <1>3, <1>4, <1>6, <1>7 DEF Shaped

LEMMA CompleteKept ==
  ASSUME Typed, NEW x, Grows(x), NEW i \in Lines, Complete(i)
  PROVE  Complete(i)'
<1>1. PICK e \in i .. Len(file) :
        EndsLine(e) /\ Shaped(i, e) /\ \A k \in i .. e - 1 : ~EndsLine(k)
  BY DEF Complete
<1>2. i \in 1 .. Len(file) /\ e \in 1 .. Len(file)
  BY LinesGrow, Grown
<1>3. EndsLine(e)' /\ \A k \in i .. e - 1 : ~EndsLine(k)'
  <2>1. \A k \in i .. e : k \in 1 .. Len(file)
    BY <1>2, Grown
  <2>2. \A k \in i .. e : EndsLine(k)' <=> EndsLine(k)
    BY <2>1, Grown DEF EndsLine
  <2>3. \A k \in i .. e - 1 : k \in i .. e
    BY <1>2, Grown
  <2>4. QED
    BY <1>1, <1>2, <2>2, <2>3
<1>4. Shaped(i, e)'
  BY <1>1, <1>2, Grown, ShapeKept
<1>5. e \in i .. Len(file')
  BY <1>2, Grown
<1>6. QED
  BY <1>3, <1>4, <1>5 DEF Complete

\* A complete record has no data and no fields behind its end.
LEMMA CompleteEnds ==
  ASSUME Typed, NEW i \in Lines, Complete(i)
  PROVE  /\ i + 1 < Len(file) /\ (file[i + 1] \in {3, 7} => i + 3 < Len(file))
         /\ file[i + 1] = 3 => file[i + 2] \in Int /\ i + file[i + 2] - 2 < Len(file)
<1>1. PICK e \in i .. Len(file) : Shaped(i, e)
  BY DEF Complete
<1>2. i \in 1 .. Len(file) /\ Len(file) \in Nat
  BY LenProperties DEF Lines, Typed
<1>3. file[i + 1] = 3 => file[i + 2] \in Int
  BY <1>1, <1>2, ElementOfSeq DEF Typed, Shaped
<1>4. QED
  BY <1>1, <1>2, <1>3 DEF Shaped

\* What was data stays data, for the same place.
LEMMA DataKept ==
  ASSUME Typed, NEW x, Grows(x), NEW i, NEW k \in 1 .. Len(file)
  PROVE  /\ i \in Lines' /\ DataOf(i, k)' <=> i \in Lines /\ DataOf(i, k)
         /\ i \in Lines /\ DataOf(i, k) => Destination(i, k)' = Destination(i, k)
<1> DEFINE n == Len(file)
<1>1. n \in Nat /\ Len(file') = n + 1 /\ k <= n /\ k <= n + 1 /\ k \in Int
  BY Grown
<1>2. CASE i \in Lines
  <2>1. i \in 1 .. n
    BY <1>2, LinesGrow
  <2>2. CASE i + 4 <= k
    <3>1. i + 1 \in 1 .. n /\ i + 2 \in 1 .. n /\ i + 3 \in 1 .. n
      BY <1>1, <2>1, <2>2
    <3>2. /\ file'[i + 1] = file[i + 1] /\ file'[i + 2] = file[i + 2]
          /\ file'[i + 3] = file[i + 3]
      BY <3>1, Grown
    <3>3. i \in Lines'
      BY <1>2, LinesGrow
    <3>4. DataOf(i, k)' <=> DataOf(i, k)
      BY <1>1, <3>2 DEF DataOf
    <3>5. Destination(i, k)' = Destination(i, k)
      BY <3>2 DEF Destination
    <3>6. QED
      BY <1>2, <3>3, <3>4, <3>5
  <2>3. QED
    BY <2>2 DEF DataOf
<1>3. CASE i \notin Lines
  <2>1. i \in Lines' => ~(i + 4 <= k)
    BY <1>1, <1>3, LinesGrow
  <2>2. QED
    BY <1>3, <2>1 DEF DataOf
<1>4. QED
  BY <1>2, <1>3

LEMMA GivesKept ==
  ASSUME Typed, NEW x, Grows(x), NEW a, NEW k \in 1 .. Len(file)
  PROVE  Gives(a, k)' <=> Gives(a, k)
  BY DataKept DEF Gives

LEMMA StartsKept ==
  ASSUME Typed, NEW x, Grows(x), NEW i
  PROVE  /\ StartsAt(i) => StartsAt(i)' /\ file'[i + 3] = file[i + 3]
         /\ StartsAt(i)' /\ i + 3 # Len(file) + 1 => StartsAt(i)
<1> DEFINE n == Len(file)
<1>1. n \in Nat /\ Len(file') = n + 1
  BY Grown
<1>2. ASSUME i \in Lines, i + 3 <= n
      PROVE  file'[i + 1] = file[i + 1] /\ file'[i + 3] = file[i + 3] /\ i \in Lines'
  <2>1. i + 1 \in 1 .. n /\ i + 3 \in 1 .. n
    BY <1>1, <1>2, LinesGrow
  <2>2. QED
    BY <1>2, <2>1, Grown, LinesGrow
<1>3. StartsAt(i) => StartsAt(i)' /\ file'[i + 3] = file[i + 3]
  <2>1. SUFFICES ASSUME StartsAt(i) PROVE StartsAt(i)' /\ file'[i + 3] = file[i + 3]
    OBVIOUS
  <2>2. i \in 1 .. n /\ i \in Lines /\ i + 3 <= n
    BY <2>1, LinesGrow DEF StartsAt
  <2>3. QED
    BY <1>1, <1>2, <2>1, <2>2 DEF StartsAt
<1>4. ASSUME StartsAt(i)', i + 3 # n + 1 PROVE StartsAt(i)
  <2>1. i \in Lines' /\ i + 3 <= n + 1
    BY <1>1, <1>4 DEF StartsAt
  <2>2. i \in Lines /\ i + 3 <= n
    BY <1>1, <1>4, <2>1, LinesGrow
  <2>3. QED
    BY <1>2, <1>4, <2>2 DEF StartsAt
<1>5. QED
  BY <1>3, <1>4

-----------------------------------------------------------------------------
(* Memory and pc after a symbol that is neither data nor a start address.  *)

\* The symbol read last is a data byte of line i, and where it goes.
LastIsData(i) == DataOf(i, Len(file))
LastGoesTo(i) == Destination(i, Len(file))

LEMMA HoldsKept ==
  ASSUME Typed, NEW x, Grows(x), NEW a, Holds(a), mem'[a] = mem[a],
         \A i \in Lines : LastIsData(i)' => LastGoesTo(i)' # a
  PROVE  Holds(a)'
<1> DEFINE n == Len(file)
<1>1. n \in Nat /\ Len(file') = n + 1
  BY Grown
<1>2. ASSUME NEW k, k = n + 1 PROVE ~Gives(a, k)'
  <2>1. SUFFICES ASSUME NEW i \in Lines', DataOf(i, k)', Destination(i, k)' = a
                 PROVE  FALSE
    BY DEF Gives
  <2>2. i # n + 1
    BY <1>1, <1>2, <2>1 DEF DataOf
  <2>3. i \in Lines
    BY <2>1, <2>2, LinesGrow
  <2>4. LastIsData(i)' /\ LastGoesTo(i)' = a
    BY <1>1, <1>2, <2>1 DEF LastIsData, LastGoesTo, DataOf, Destination
  <2>5. QED
    BY <2>3, <2>4
<1>3. \A k \in 1 .. n : Gives(a, k)' <=> Gives(a, k)
  BY GivesKept
<1>4. \A k \in 1 .. n + 1 : Gives(a, k)' => k \in 1 .. n /\ Gives(a, k)
  <2>1. SUFFICES ASSUME NEW k \in 1 .. n + 1, Gives(a, k)'
                 PROVE  k \in 1 .. n /\ Gives(a, k)
    OBVIOUS
  <2>2. k = n + 1 => ~Gives(a, k)'
    BY <1>2
  <2>3. k \in 1 .. n
    BY <1>1, <2>1, <2>2
  <2>4. QED
    BY <1>3, <2>1, <2>3
<1>5. CASE mem[a] = Empty /\ \A k \in 1 .. n : ~Gives(a, k)
  <2>1. \A k \in 1 .. Len(file') : ~Gives(a, k)'
    BY <1>1, <1>4, <1>5
  <2>2. QED
    BY <1>5, <2>1 DEF Holds
<1>6. CASE \E k \in 1 .. n : /\ Gives(a, k) /\ mem[a] = file[k]
                             /\ \A j \in 1 .. n : Gives(a, j) => j <= k
  <2>1. PICK k \in 1 .. n : /\ Gives(a, k) /\ mem[a] = file[k]
                            /\ \A j \in 1 .. n : Gives(a, j) => j <= k
    BY <1>6
  <2>2. k \in 1 .. Len(file') /\ Gives(a, k)' /\ mem'[a] = file'[k]
    BY <1>1, <1>3, <2>1, Grown
  <2>3. \A j \in 1 .. Len(file') : Gives(a, j)' => j <= k
    BY <1>1, <1>4, <2>1
  <2>4. QED
    BY <2>2, <2>3 DEF Holds
<1>7. QED
  BY <1>5, <1>6 DEF Holds

LEMMA StartedKept ==
  ASSUME Typed, NEW x, Grows(x), Started, pc' = pc,
         \A i \in Lines : i + 3 = Len(file) + 1 => file'[i + 1] # 7
  PROVE  Started'
<1> DEFINE n == Len(file)
<1>1. n \in Nat /\ Len(file') = n + 1
  BY Grown
<1>2. ASSUME NEW i \in Lines', StartsAt(i)' PROVE i \in Lines /\ StartsAt(i)
  <2>1. i # n + 1
    BY <1>1, <1>2 DEF StartsAt
  <2>2. i \in Lines
    BY <1>2, <2>1, LinesGrow
  <2>3. QED
    BY <1>2, <2>2, StartsKept DEF StartsAt
<1>3. CASE pc = Boot /\ \A i \in Lines : ~StartsAt(i)
  BY <1>2, <1>3 DEF Started
<1>4. CASE \E i \in Lines : /\ StartsAt(i) /\ pc = file[i + 3]
                            /\ \A j \in Lines : StartsAt(j) => j <= i
  <2>1. PICK i \in Lines : /\ StartsAt(i) /\ pc = file[i + 3]
                           /\ \A j \in Lines : StartsAt(j) => j <= i
    BY <1>4
  <2>2. StartsAt(i)' /\ pc' = file'[i + 3] /\ i \in Lines'
    BY <2>1, StartsKept, LinesGrow
  <2>3. QED
    BY <1>2, <2>1, <2>2 DEF Started
<1>5. QED
  BY <1>3, <1>4 DEF Started

LEMMA ImageKept ==
  ASSUME Typed, NEW x, Grows(x), Image, UNCHANGED <<mem, pc>>,
         \A i \in Lines : ~LastIsData(i)' /\ (i + 3 = Len(file) + 1 => file'[i + 1] # 7)
  PROVE  Image'
  BY HoldsKept, StartedKept DEF Image

-----------------------------------------------------------------------------
(* Arithmetic modulo a symbolic number: addresses and counts wrap.         *)

LEMMA SmallMultiple ==
  ASSUME NEW W \in Nat \ {0}, NEW d \in Int, -W < W * d, W * d < W
  PROVE  d = 0
<1>1. \A x, y \in Nat : x * y >= 0
  OBVIOUS
<1>2. CASE d >= 1
  <2>1. W * d = W + W * (d - 1) /\ d - 1 \in Nat
    BY <1>2
  <2>2. W * (d - 1) >= 0
    BY <1>1, <2>1
  <2>3. QED
    BY <2>1, <2>2
<1>3. CASE d <= -1
  <2>1. W * d = W * (d + 1) - W /\ -(d + 1) \in Nat
    BY <1>3
  <2>2. W * (-(d + 1)) >= 0
    BY <1>1, <2>1
  <2>3. W * (-(d + 1)) = -(W * (d + 1))
    OBVIOUS
  <2>4. QED
    BY <2>1, <2>2, <2>3
<1>4. QED
  BY <1>2, <1>3

LEMMA Remainder ==
  ASSUME NEW W \in Nat \ {0}, NEW q \in Int, NEW r \in 0 .. W - 1
  PROVE  (W * q + r) % W = r
<1> DEFINE b == W * q + r
           c == b \div W
<1>1. b \in Int /\ b = W * q + r
  OBVIOUS
<1>2. b = W * c + (b % W) /\ b % W \in 0 .. W - 1 /\ c \in Int
  BY <1>1
<1> HIDE DEF b, c
<1>3. W * (q - c) = (b % W) - r
  <2>1. W * (q - c) = W * q - W * c
    BY <1>2
  <2>2. QED
    BY <1>1, <1>2, <2>1
<1>4. q - c = 0
  <2>1. q - c \in Int
    BY <1>2
  <2>2. (-W) < (W * (q - c)) /\ (W * (q - c)) < W
    BY <1>2, <1>3
  <2>3. QED
    BY <2>1, <2>2, SmallMultiple
<1>5. W * 0 = 0
  OBVIOUS
<1>6. QED
  BY <1>2, <1>3, <1>4, <1>5 DEF b

\* Counting up modulo W is counting up.
LEMMA NextRemainder ==
  ASSUME NEW W \in Nat \ {0}, NEW a \in Nat
  PROVE  ((a % W) + 1) % W = (a + 1) % W
<1> DEFINE q == a \div W
           r == a % W
<1>1. a = W * q + r /\ q \in Int /\ r \in 0 .. W - 1
  OBVIOUS
<1> HIDE DEF q, r
<1>2. CASE r < W - 1
  <2>1. r + 1 \in 0 .. W - 1 /\ a + 1 = W * q + (r + 1)
    BY <1>1, <1>2
  <2>2. (a + 1) % W = r + 1 /\ (r + 1) % W = r + 1
    BY <1>1, <2>1, Remainder
  <2>3. QED
    BY <2>2 DEF r
<1>3. CASE r = W - 1
  <2>1. W * (q + 1) = W * q + W
    BY <1>1
  <2>2. a + 1 = W * (q + 1) + 0 /\ 0 \in 0 .. W - 1 /\ q + 1 \in Int
    BY <1>1, <1>3, <2>1
  <2>3. (a + 1) % W = 0
    BY <2>2, Remainder
  <2>4. (r + 1) % W = 0
    BY <1>3
  <2>5. QED
    BY <2>3, <2>4 DEF r
<1>4. QED
  BY <1>1, <1>2, <1>3

\* A count below five wraps.
LEMMA DataCounts ==
  ASSUME NEW c \in 0 .. 255
  PROVE  DataCount(c) = c - 5 + (IF c < 5 THEN Wrap ELSE 0)
<1>1. Wrap \in Nat \ {0} /\ Wrap > 255
  BY Alphabet
<1>2. CASE c < 5
  BY <1>1, <1>2 DEF DataCount
<1>3. CASE c >= 5
  <2>1. c - 5 \in 0 .. Wrap - 1
    BY <1>1, <1>3
  <2>2. (c - 5) % Wrap = c - 5
    BY <1>1, <2>1
  <2>3. QED
    BY <1>3, <2>2 DEF DataCount
<1>4. QED
  BY <1>2, <1>3

\* An address below 2^32 is its own remainder, and the next one follows it.
LEMMA AddressStep ==
  /\ \A a \in 0 .. 4 * Segment - 1 : a % (4 * Segment) = a
  /\ \A a \in Nat : ((a % (4 * Segment)) + 1) % (4 * Segment)
                       = (a + 1) % (4 * Segment)
  /\ \A a \in Nat : a % (4 * Segment) \in Nat
<1>1. 4 * Segment \in Nat \ {0}
  BY Alphabet
<1>2. ASSUME NEW W \in Nat \ {0}
      PROVE  /\ \A a \in 0 .. W - 1 : a % W = a
             /\ \A a \in Nat : a % W \in Nat
  OBVIOUS
<1>3. QED
  BY <1>1, <1>2, NextRemainder

\* Where a byte goes is a place of the memory, or behind it.
LEMMA PlaceType == ASSUME NEW a \in Nat PROVE Place(a) \in Nat
<1>1. Segment \in Nat \ {0}
  BY Alphabet
<1>2. a % Segment \in Nat
  BY <1>1
<1>3. QED
  BY <1>1, <1>2 DEF Place

-----------------------------------------------------------------------------
(* The line being read and those before it.                                *)

LEMMA CompleteSilent ==
  ASSUME Typed, NEW x, Grows(x), NEW j \in Lines, Complete(j)
  PROVE  ~LastIsData(j)' /\ (j + 3 = Len(file) + 1 => file'[j + 1] # 7)
<1> DEFINE n == Len(file)
<1>1. n \in Nat /\ Len(file') = n + 1 /\ j \in 1 .. n /\ j + 1 < n
  BY Grown, LinesGrow, CompleteEnds
<1>2. j + 1 \in 1 .. n
  BY <1>1
<1>3. file'[j + 1] = file[j + 1]
  BY <1>2, Grown
<1>4. file[j + 1] \in {3, 7} => file'[j + 2] = file[j + 2] /\ j + 3 < n
  <2>1. file[j + 1] \in {3, 7} => j + 2 \in 1 .. n /\ j + 3 < n
    BY <1>1, CompleteEnds
  <2>2. QED
    BY <2>1, Grown
<1>5. ~LastIsData(j)'
  <2>1. SUFFICES ASSUME LastIsData(j)' PROVE FALSE
    OBVIOUS
  <2>2. file[j + 1] = 3 /\ n + 1 <= j + file'[j + 2] - 2
    BY <1>1, <1>3, <2>1 DEF LastIsData, DataOf
  <2>3. file[j + 2] \in Int /\ j + file[j + 2] - 2 < n /\ file'[j + 2] = file[j + 2]
    BY <1>4, <2>2, CompleteEnds
  <2>4. QED
    BY <1>1, <2>2, <2>3
<1>6. QED
  BY <1>1, <1>3, <1>4, <1>5

LEMMA OpenKept ==
  ASSUME Typed, NEW x, Grows(x), NEW i \in Lines, Open(i), x \notin {Newline, EOF}
  PROVE  i \in Lines' /\ Open(i)'
<1>1. i \in 1 .. Len(file) /\ Len(file) \in Nat /\ Len(file') = Len(file) + 1
  BY Grown, LinesGrow
<1>2. i \in Lines' /\ file'[i] = LetterS
  BY <1>1, Grown, LinesGrow DEF Open
<1>3. ~EndsLine(Len(file)) /\ file # <<>>
  <2>1. Len(file) \in i .. Len(file)
    BY <1>1
  <2>2. QED
    BY <1>1, <2>1, EmptySeq DEF Open
<1>4. ASSUME NEW k \in i .. Len(file') PROVE ~EndsLine(k)'
  <2>1. CASE k \in i .. Len(file)
    <3>1. k \in 1 .. Len(file)
      BY <1>1, <2>1
    <3>2. QED
      BY <2>1, <3>1, Grown DEF EndsLine, Open
  <2>2. CASE k = Len(file) + 1
    BY <2>2, Grown DEF EndsLine
  <2>3. QED
    BY <1>1, <2>1, <2>2
<1>5. \A j \in Lines' : j \in Lines
  BY <1>3, LinesGrow DEF EndsLine
<1>6. \A j \in Lines' : j # i => j < i /\ Complete(j)'
  BY <1>5, CompleteKept DEF Open
<1>7. QED
  BY <1>2, <1>4, <1>6 DEF Open

\* Reading on in a line, memory and pc stay right if the symbol is neither
\* data of this line nor its start address.
LEMMA OpenImage ==
  ASSUME Typed, NEW x, Grows(x), NEW i \in Lines, Open(i), Image,
         UNCHANGED <<mem, pc>>, ~LastIsData(i)',
         i + 3 = Len(file) + 1 => file'[i + 1] # 7
  PROVE  Image'
  BY CompleteSilent, ImageKept DEF Open

-----------------------------------------------------------------------------
(* Each reader keeps the invariant.                                        *)

LEMMA Symbols ==
  ASSUME NEW numbers \in SUBSET Nat, NEW x \in NextSymbol(numbers)
  PROVE  /\ x \in {EOF, LetterS, Newline} \/ (x \in numbers /\ Len(file) < MaxFile)
         /\ x \in Int /\ (Hex(x) <=> x \in numbers)
<1>1. x \in {EOF, LetterS, Newline} \/ (x \in numbers /\ Len(file) < MaxFile)
  BY DEF NextSymbol, Letters
<1>2. CASE x \in {EOF, LetterS, Newline}
  <2>1. x \in Int /\ ~(x >= 0)
    BY <1>2, Alphabet
  <2>2. QED
    BY <1>1, <2>1, Alphabet
<1>3. CASE x \in numbers
  BY <1>1, <1>3, Alphabet
<1>4. QED
  BY <1>1, <1>2, <1>3

LEMMA Numbers ==
  /\ {} \in SUBSET Nat /\ {0} \in SUBSET Nat /\ Types \in SUBSET Nat
  /\ Counts \in SUBSET Nat /\ Counts \subseteq 0 .. 255 /\ Bytes \in SUBSET Nat
  /\ Addresses \in SUBSET Nat /\ Addresses \subseteq 0 .. 4 * Segment - 1
<1>1. 4 * Segment - 1 \in Int
  BY Alphabet
<1>2. QED
  BY <1>1, LoaderAssumption

\* A record that is refused ends the loading.
LEMMA Refused ==
  ASSUME NEW x, Return(x, 1)
  PROVE  Parsing'
  BY DEF Return, Read, Parsing

LEMMA TypedStep ==
  ASSUME Typed, [Next]_vars
  PROVE  Typed'
<1>1. ASSUME NEW x \in Int, file' = Append(file, x) PROVE file' \in Seq(Int)
  BY <1>1, Grown DEF Grows
<1>2. CASE UNCHANGED vars \/ Done
  BY <1>2 DEF Typed, Done, vars
<1>3. CASE LoopEnds
  BY <1>3 DEF Typed, LoopEnds
<1>4. CASE ReadS
  <2>1. PICK x \in NextSymbol({}) : file' = Append(file, x) /\ (at' # "done" => ret' = ret)
    BY <1>4 DEF ReadS, Read, Return
  <2>2. file' \in Seq(Int)
    BY <1>1, <2>1, Symbols, Numbers
  <2>3. QED
    BY <1>4, <2>1, <2>2 DEF Typed, ReadS
<1>5. CASE ReadDigit
  <2>1. PICK x \in NextSymbol(Types) :
          file' = Append(file, x) /\ type' = x /\ (at' # "done" => ret' = ret)
    BY <1>5 DEF ReadDigit, Read, Return
  <2>2. file' \in Seq(Int) /\ x \in Int
    BY <1>1, <2>1, Symbols, Numbers
  <2>3. QED
    BY <1>5, <2>1, <2>2 DEF Typed, ReadDigit
<1>6. CASE ReadCount
  <2>1. PICK x \in NextSymbol(Counts) :
          /\ file' = Append(file, x) /\ (at' # "done" => ret' = ret)
          /\ count' = count \/ (Hex(x) /\ count' = DataCount(x))
    BY <1>6 DEF ReadCount, Read, Return
  <2>2. file' \in Seq(Int) /\ (Hex(x) => x \in Counts)
    BY <1>1, <2>1, Symbols, Numbers
  <2>3. count' \in Int
    <3>1. CASE count' = count
      BY <3>1 DEF Typed
    <3>2. CASE x \in Counts /\ count' = DataCount(x)
      BY <3>2, DataCounts, Numbers, Alphabet
    <3>3. QED
      BY <2>1, <2>2, <3>1, <3>2
  <2>4. QED
    BY <1>6, <2>1, <2>2, <2>3 DEF Typed, ReadCount
<1>7. CASE ReadAddress
  <2>1. PICK x \in NextSymbol(Addresses) :
          /\ file' = Append(file, x) /\ (at' # "done" => ret' = ret)
          /\ UNCHANGED <<addr, pc>> \/ (Hex(x) /\ addr' = x /\ pc' \in {pc, x})
    BY <1>7 DEF ReadAddress, Read, Return
  <2>2. file' \in Seq(Int) /\ (Hex(x) => x \in Addresses)
    BY <1>1, <2>1, Symbols, Numbers
  <2>3. addr' \in Nat /\ pc' \in Int
    BY <2>1, <2>2, Numbers DEF Typed
  <2>4. QED
    BY <1>7, <2>1, <2>2, <2>3 DEF Typed, ReadAddress
<1>8. CASE ReadData
  <2>1. PICK x \in NextSymbol(Bytes) :
          /\ file' = Append(file, x) /\ (at' # "done" => ret' = ret)
          /\ \/ UNCHANGED <<mem, addr, count>>
             \/ /\ writeb(addr, x) /\ addr' = (addr + 1) % (4 * Segment)
                /\ count' = count - 1
    BY <1>8 DEF ReadData, Read, Return
  <2>2. file' \in Seq(Int) /\ x \in Int
    BY <1>1, <2>1, Symbols, Numbers
  <2>3. addr' \in Nat /\ count' \in Int
    <3>1. addr + 1 \in Nat /\ count - 1 \in Int
      BY DEF Typed
    <3>2. QED
      BY <2>1, <3>1, AddressStep DEF Typed
  <2>4. mem' \in [Claimed -> Int]
    BY <2>1, <2>2 DEF Typed, writeb
  <2>5. QED
    BY <1>8, <2>1, <2>2, <2>3, <2>4 DEF Typed, ReadData
<1>9. CASE Skip
  <2>1. PICK x \in NextSymbol({0}) : file' = Append(file, x)
    BY <1>9 DEF Skip, Read
  <2>2. file' \in Seq(Int)
    BY <1>1, <2>1, Symbols, Numbers
  <2>3. QED
    BY <1>9, <2>2 DEF Typed, Skip
<1>10. QED
  BY <1>2, <1>3, <1>4, <1>5, <1>6, <1>7, <1>8, <1>9 DEF Next

LEMMA ReadSKeeps ==
  ASSUME Typed, Parsing, ReadS
  PROVE  Parsing'
<1> DEFINE n == Len(file)
<1>1. Closed /\ Image
  BY DEF ReadS, Parsing, InDigit, InCount, InAddress, InData, InSkip
<1>2. PICK x \in NextSymbol({}) :
        /\ x = EOF => Read(x, "type")
        /\ x = LetterS => Read(x, "digit")
        /\ x \notin {EOF, LetterS} => Return(x, 1)
        /\ file' = Append(file, x)
  BY Alphabet DEF ReadS, Read, Return
<1>3. Grows(x) /\ UNCHANGED <<mem, pc>>
  BY <1>2, Symbols, Numbers DEF Grows, ReadS
<1>4. n \in Nat /\ Len(file') = n + 1 /\ file'[n + 1] = x
  BY <1>3, Grown
<1>5. Image'
  BY <1>1, <1>3, CompleteSilent, ImageKept DEF Closed
<1>6. \A j \in Lines : Complete(j)'
  BY <1>1, <1>3, CompleteKept DEF Closed
<1>7. CASE x = EOF
  <2>1. \A j \in Lines' : j \in Lines
    BY <1>3, <1>7, LinesGrow
  <2>2. EndsLine(Len(file))'
    BY <1>4, <1>7 DEF EndsLine
  <2>3. Closed'
    BY <1>6, <2>1, <2>2 DEF Closed
  <2>4. QED
    BY <1>2, <1>5, <1>7, <2>3 DEF Read, Parsing
<1>8. CASE x = LetterS
  <2>1. file = <<>> \/ file[n] = Newline
    BY <1>1 DEF ReadS, AtEnd, Closed, EndsLine
  <2>2. n + 1 \in Lines' /\ \A j \in Lines' : j # n + 1 => j < n + 1 /\ j \in Lines
    BY <1>3, <1>4, <1>8, <2>1, LinesGrow, Alphabet
  <2>3. \A k \in n + 1 .. Len(file') : ~EndsLine(k)'
    BY <1>4, <1>8, Alphabet DEF EndsLine
  <2>4. \A i : i = n + 1 => Open(i)'
    BY <1>4, <1>6, <1>8, <2>2, <2>3 DEF Open
  <2>5. \A i : i = n + 1 => InDigit(i)'
    BY <1>2, <1>4, <1>8 DEF InDigit, Read
  <2>6. QED
    BY <1>5, <2>2, <2>4, <2>5 DEF Parsing
<1>9. CASE x \notin {EOF, LetterS}
  BY <1>2, <1>9, Refused
<1>10. QED
  BY <1>7, <1>8, <1>9

\* The line being read, at a reader other than srecReadType.
LEMMA OpenLine ==
  ASSUME Parsing, at \in {"digit", "count", "address", "skip"}
  PROVE  \E i \in Lines :
           Open(i) /\ Image /\ (InDigit(i) \/ InCount(i) \/ InAddress(i) \/ InSkip(i))
  BY DEF Parsing, InData

LEMMA ReadDigitKeeps ==
  ASSUME Typed, Parsing, ReadDigit
  PROVE  Parsing'
<1> DEFINE n == Len(file)
<1>1. PICK i \in Lines : Open(i) /\ Image /\ n = i
  BY OpenLine DEF ReadDigit, InDigit, InCount, InAddress, InSkip
<1>2. PICK x \in NextSymbol(Types) :
        /\ type' = x /\ file' = Append(file, x)
        /\ x = 0 => Read(x, "skip")
        /\ x \in {3, 7} => Read(x, "count")
        /\ x \notin {0, 3, 7} => Return(x, 1)
  BY DEF ReadDigit, Read, Return
<1>3. Grows(x) /\ UNCHANGED <<mem, pc>>
  BY <1>2, Symbols, Numbers DEF Grows, ReadDigit
<1>4. /\ i \in 1 .. n /\ Len(file') = i + 1 /\ file'[i + 1] = x
      /\ file'[i] = LetterS
  BY <1>1, <1>3, Grown, LinesGrow DEF Open
<1>5. CASE x \in {0, 3, 7}
  <2>1. x \notin {Newline, EOF}
    BY <1>5, Alphabet
  <2>2. i \in Lines' /\ Open(i)'
    BY <1>1, <1>3, <2>1, OpenKept
  <2>3. ~LastIsData(i)' /\ i + 3 # n + 1
    BY <1>1, <1>4 DEF LastIsData, DataOf
  <2>4. Image'
    BY <1>1, <1>3, <2>3, OpenImage
  <2>5. CASE x = 0
    <3>1. Shaped(i, Len(file) + 1)'
      BY <1>4, <2>5 DEF Shaped
    <3>2. QED
      BY <1>2, <2>2, <2>4, <2>5, <3>1 DEF Parsing, InSkip, Read
  <2>6. CASE x \in {3, 7}
    <3>1. InCount(i)'
      BY <1>2, <1>4, <2>6 DEF InCount, Read
    <3>2. QED
      BY <2>2, <2>4, <3>1 DEF Parsing
  <2>7. QED
    BY <1>5, <2>5, <2>6
<1>6. CASE x \notin {0, 3, 7}
  BY <1>2, <1>6, Refused
<1>7. QED
  BY <1>5, <1>6

LEMMA ReadCountKeeps ==
  ASSUME Typed, Parsing, ReadCount
  PROVE  Parsing'
<1> DEFINE n == Len(file)
<1>1. PICK i \in Lines : Open(i) /\ Image /\ InCount(i)
  BY OpenLine DEF ReadCount, InDigit, InAddress, InSkip
<1>2. PICK x \in NextSymbol(Counts) :
        /\ file' = Append(file, x)
        /\ Hex(x) => count' = DataCount(x) /\ Read(x, "address")
        /\ ~Hex(x) => Return(x, 1)
  BY DEF ReadCount, Read, Return
<1>3. Grows(x) /\ UNCHANGED <<mem, pc, type>>
  BY <1>2, Symbols, Numbers DEF Grows, ReadCount
<1>4. /\ i \in 1 .. n /\ n = i + 1 /\ Len(file') = i + 2 /\ file'[i + 2] = x
      /\ file'[i + 1] = file[i + 1]
  BY <1>1, <1>3, Grown, LinesGrow DEF InCount
<1>5. CASE Hex(x)
  <2>1. x \in Counts /\ x \in 0 .. 255
    BY <1>5, Symbols, Numbers
  <2>2. i \in Lines' /\ Open(i)'
    BY <1>1, <1>3, <1>5, Alphabet, OpenKept
  <2>3. ~LastIsData(i)' /\ i + 3 # n + 1
    BY <1>4 DEF LastIsData, DataOf
  <2>4. Image'
    BY <1>1, <1>3, <2>3, OpenImage
  <2>5. InAddress(i)'
    BY <1>1, <1>2, <1>3, <1>4, <1>5, <2>1 DEF InAddress, InCount, Read
  <2>6. QED
    BY <2>2, <2>4, <2>5 DEF Parsing
<1>6. CASE ~Hex(x)
  BY <1>2, <1>6, Refused
<1>7. QED
  BY <1>5, <1>6

LEMMA SkipKeeps ==
  ASSUME Typed, Parsing, Skip
  PROVE  Parsing'
<1> DEFINE n == Len(file)
<1>1. PICK i \in Lines : Open(i) /\ Image /\ Shaped(i, n + 1)
  BY OpenLine DEF Skip, InDigit, InCount, InAddress, InSkip
<1>2. PICK x \in NextSymbol({0}) :
        /\ file' = Append(file, x)
        /\ at' = IF x \in {EOF, Newline} THEN "type" ELSE "skip"
  BY DEF Skip, Read
<1>3. Grows(x) /\ UNCHANGED <<mem, pc>>
  BY <1>2, Symbols, Numbers DEF Grows, Skip
<1>4. /\ n \in Nat /\ i \in 1 .. n /\ Len(file') = n + 1 /\ file'[n + 1] = x
  BY <1>1, <1>3, Grown, LinesGrow
<1>5. Shaped(i, n + 1)
  BY <1>1
<1>6. file[i + 1] = 3 => file[i + 2] \in Int /\ i + file[i + 2] - 2 < n + 1
  <2>1. file[i + 1] = 3 => i + 3 < n + 1
    BY <1>5 DEF Shaped
  <2>2. file[i + 1] = 3 => i + 2 \in 1 .. n
    BY <1>4, <2>1
  <2>3. QED
    BY <1>3, <1>5, <2>2, Grown DEF Shaped
<1>7. \A d \in Int : n + 1 <= d => Shaped(i, d)'
  BY <1>1, <1>3, <1>4, ShapeKept
<1>8. ~LastIsData(i)'
  <2>1. SUFFICES ASSUME LastIsData(i)' PROVE FALSE
    OBVIOUS
  <2>2. i + 4 <= n + 1 /\ file'[i + 1] = 3 /\ n + 1 <= i + file'[i + 2] - 2
    BY <1>4, <2>1 DEF LastIsData, DataOf
  <2>3. i + 1 \in 1 .. n /\ i + 2 \in 1 .. n
    BY <1>4, <2>2
  <2>4. file'[i + 1] = file[i + 1] /\ file'[i + 2] = file[i + 2]
    BY <1>3, <2>3, Grown
  <2>5. QED
    BY <1>4, <1>6, <2>2, <2>4
<1>9. i + 3 = n + 1 => file'[i + 1] # 7
  <2>1. file[i + 1] = 7 => i + 3 < n + 1
    BY <1>5 DEF Shaped
  <2>2. i + 3 = n + 1 => i + 1 \in 1 .. n
    BY <1>4
  <2>3. i + 3 = n + 1 => file'[i + 1] = file[i + 1]
    BY <1>3, <2>2, Grown
  <2>4. QED
    BY <1>4, <2>1, <2>3
<1>10. Image'
  BY <1>1, <1>3, <1>8, <1>9, OpenImage
<1>11. CASE x \in {EOF, Newline}
  <2>1. EndsLine(Len(file))'
    BY <1>4, <1>11 DEF EndsLine
  <2>2. Complete(i)'
    <3>1. n + 1 \in i .. Len(file')
      BY <1>4
    <3>2. \A e : e = n + 1 => EndsLine(e)' /\ Shaped(i, e)'
      BY <1>4, <1>7, <1>11 DEF EndsLine
    <3>3. ASSUME NEW k \in i .. n PROVE ~EndsLine(k)'
      <4>1. k \in 1 .. n
        BY <1>4, <3>3
      <4>2. QED
        BY <1>1, <1>3, <3>3, <4>1, Grown DEF EndsLine, Open
    <3>4. QED
      BY <1>4, <3>1, <3>2, <3>3 DEF Complete
  <2>3. file # <<>> /\ ~EndsLine(n)
    <3>1. n \in i .. n
      BY <1>4
    <3>2. QED
      BY <1>1, <1>4, <3>1, EmptySeq DEF Open
  <2>4. \A j \in Lines' : j \in Lines
    BY <1>3, <2>3, LinesGrow DEF EndsLine
  <2>5. \A j \in Lines' : Complete(j)'
    BY <1>1, <1>3, <2>2, <2>4, CompleteKept DEF Open
  <2>6. QED
    BY <1>2, <1>10, <1>11, <2>1, <2>5 DEF Closed, Parsing
<1>12. CASE x \notin {EOF, Newline}
  <2>1. i \in Lines' /\ Open(i)'
    BY <1>1, <1>3, <1>12, OpenKept
  <2>2. InSkip(i)'
    <3>1. \A d : d = n + 2 => Shaped(i, d)'
      BY <1>4, <1>7
    <3>2. Len(file') + 1 = n + 2
      BY <1>4
    <3>3. QED
      BY <1>2, <1>12, <3>1, <3>2 DEF InSkip, Shaped
  <2>3. QED
    BY <1>10, <2>1, <2>2 DEF Parsing
<1>13. QED
  BY <1>11, <1>12

\* The start address replaces the one before it.
LEMMA StartRead ==
  ASSUME Typed, NEW x, Grows(x), NEW i \in Lines, Open(i), i + 3 = Len(file) + 1,
         file[i + 1] = 7, pc' = x
  PROVE  Started'
<1> DEFINE n == Len(file)
<1>1. /\ n \in Nat /\ i \in 1 .. n /\ Len(file') = n + 1 /\ file'[i + 3] = x
      /\ file'[i + 1] = 7 /\ i \in Lines'
  <2>1. n \in Nat /\ i \in 1 .. n /\ i + 1 \in 1 .. n
    BY Grown, LinesGrow
  <2>2. QED
    BY <2>1, Grown, LinesGrow
<1>2. StartsAt(i)'
  BY <1>1 DEF StartsAt
<1>3. \A j \in Lines' : j <= i \/ j = n + 1
  BY <1>1, LinesGrow DEF Open
<1>4. \A j \in Lines' : StartsAt(j)' => j <= i
  BY <1>1, <1>3 DEF StartsAt
<1>5. QED
  BY <1>1, <1>2, <1>4 DEF Started

LEMMA ReadAddressKeeps ==
  ASSUME Typed, Parsing, ReadAddress
  PROVE  Parsing'
<1> DEFINE n == Len(file)
<1>1. PICK i \in Lines : Open(i) /\ Image /\ InAddress(i)
  BY OpenLine DEF ReadAddress, InDigit, InCount, InSkip
<1>2. PICK x \in NextSymbol(Addresses) :
        /\ file' = Append(file, x)
        /\ ~Hex(x) => Return(x, 1)
        /\ Hex(x) => /\ addr' = x
                     /\ type = 7 => pc' = x /\ Read(x, "skip")
                     /\ type # 7 => UNCHANGED pc
                     /\ type # 7 /\ count = 0 => Read(x, "skip")
                     /\ type # 7 /\ count # 0 => Read(x, "data")
  BY DEF ReadAddress, Read, Return
<1>3. Grows(x) /\ UNCHANGED <<mem, type, count>>
  BY <1>2, Symbols, Numbers DEF Grows, ReadAddress
<1>4. /\ n \in Nat /\ i \in 1 .. n /\ n = i + 2 /\ Len(file') = i + 3
      /\ file'[i + 3] = x /\ file'[i] = LetterS
      /\ file'[i + 1] = file[i + 1] /\ file'[i + 2] = file[i + 2]
  <2>1. n \in Nat /\ i \in 1 .. n /\ n = i + 2
    BY <1>1, <1>3, Grown, LinesGrow DEF InAddress
  <2>2. i + 1 \in 1 .. n /\ i + 2 \in 1 .. n /\ n + 1 = i + 3
    BY <2>1
  <2>3. QED
    BY <1>1, <1>3, <2>1, <2>2, Grown DEF Open
<1>5. /\ type \in {3, 7} /\ file[i + 1] = type /\ file[i + 2] \in 0 .. 255
      /\ count = file[i + 2] - 5 + (IF file[i + 2] < 5 THEN Wrap ELSE 0)
  BY <1>1, DataCounts DEF InAddress
<1>6. CASE ~Hex(x)
  BY <1>2, <1>6, Refused
<1>7. CASE Hex(x)
  <2>1. i \in Lines' /\ Open(i)'
    BY <1>1, <1>3, <1>7, Alphabet, OpenKept
  <2>2. ~LastIsData(i)'
    BY <1>4 DEF LastIsData, DataOf
  <2>3. Hex(file'[i + 2]) /\ Hex(file'[i + 3])
    <3>1. \A c \in 0 .. 255 : Hex(c)
      BY DEF Hex
    <3>2. QED
      BY <1>4, <1>5, <1>7, <3>1, Zenon
  <2>4. CASE type = 7
    <3>1. \A a \in Claimed : Holds(a)'
      BY <1>1, <1>3, <2>2, CompleteSilent, HoldsKept DEF Image, Open
    <3>2. Started'
      BY <1>1, <1>2, <1>3, <1>4, <1>5, <1>7, <2>4, StartRead
    <3>3. Image'
      BY <3>1, <3>2 DEF Image
    <3>4. Shaped(i, Len(file) + 1)'
      BY <1>4, <1>5, <2>3, <2>4 DEF Shaped
    <3>5. QED
      BY <1>2, <1>7, <2>1, <2>4, <3>3, <3>4 DEF Parsing, InSkip, Read
  <2>5. CASE type = 3
    <3>1. Image'
      BY <1>1, <1>2, <1>3, <1>4, <1>5, <1>7, <2>2, <2>5, OpenImage
    <3>2. CASE count = 0
      <4>1. file[i + 2] = 5
        BY <1>5, <3>2, Alphabet
      <4>2. \A k \in i + 4 .. i + file'[i + 2] - 2 : FALSE
        BY <1>4, <4>1
      <4>3. Shaped(i, Len(file) + 1)'
        BY <1>4, <1>5, <2>3, <2>5, <4>1, <4>2 DEF Shaped
      <4>4. QED
        BY <1>2, <1>7, <2>1, <2>5, <3>1, <3>2, <4>3 DEF Parsing, InSkip, Read
    <3>3. CASE count # 0
      <4>1. x \in Addresses /\ n < MaxFile
        BY <1>7, Symbols, Numbers, Alphabet
      <4>2. x >= 0 /\ x = (x + (i + 3 - (i + 3))) % (4 * Segment)
        <5>1. x \in 0 .. 4 * Segment - 1
          BY <4>1, Numbers
        <5>2. x % (4 * Segment) = x /\ x + (i + 3 - (i + 3)) = x
          BY <1>4, <5>1, AddressStep
        <5>3. QED
          BY <5>1, <5>2
      <4>3. count >= 1 /\ count' = i + file'[i + 2] - 2 - Len(file')
                                     + (IF file'[i + 2] < 5 THEN Wrap ELSE 0)
        <5>1. \A c \in 0 .. 255 :
                c - 5 = i + c - 2 - (i + 3) /\ (c < 5 => c - 5 + Wrap >= 1)
                /\ (c >= 5 /\ c - 5 # 0 => c - 5 >= 1)
          BY <1>4, Alphabet
        <5>2. CASE file[i + 2] < 5
          BY <1>3, <1>4, <1>5, <5>1, <5>2, Alphabet
        <5>3. CASE ~(file[i + 2] < 5)
          <6>1. count = file[i + 2] - 5 /\ count' = count
            BY <1>3, <1>5, <5>3
          <6>2. count >= 1
            BY <1>5, <3>3, <5>1, <5>3, <6>1
          <6>3. count' = i + file[i + 2] - 2 - (i + 3)
            BY <1>5, <5>1, <6>1
          <6>4. \A c \in 0 .. 255 :
                  i + c - 2 - (i + 3) = i + c - 2 - (i + 3) + 0
            BY <1>4
          <6>5. count' = i + file[i + 2] - 2 - (i + 3) + 0
            BY <1>5, <6>3, <6>4
          <6>6. QED
            BY <1>4, <5>3, <6>2, <6>5
        <5>4. QED
          BY <5>2, <5>3
      <4>4. InData(i)'
        BY <1>2, <1>3, <1>4, <1>5, <1>7, <2>5, <3>3, <4>1, <4>2, <4>3, Alphabet
           DEF InData, Read
      <4>5. QED
        BY <2>1, <3>1, <4>4 DEF Parsing
    <3>4. QED
      BY <3>2, <3>3
  <2>6. QED
    BY <1>5, <2>4, <2>5
<1>8. QED
  BY <1>6, <1>7

\* The byte read last is what its place holds.
LEMMA DataRead ==
  ASSUME Typed, NEW x, Grows(x), NEW i \in Lines', LastIsData(i)',
         NEW a, LastGoesTo(i)' = a, mem'[a] = x
  PROVE  Holds(a)'
<1>1. Len(file) \in Nat /\ Len(file') = Len(file) + 1 /\ file'[Len(file')] = x
  BY Grown
<1>2. ASSUME NEW k, k = Len(file') PROVE Gives(a, k)'
  <2>1. DataOf(i, k)' /\ Destination(i, k)' = a
    BY <1>2 DEF LastIsData, LastGoesTo, DataOf, Destination
  <2>2. QED
    BY <2>1 DEF Gives
<1>3. PICK k \in 1 .. Len(file') : k = Len(file')
  BY <1>1
<1>4. Gives(a, k)' /\ mem'[a] = file'[k]
  BY <1>1, <1>2, <1>3
<1>5. \A j \in 1 .. Len(file') : j <= k
  BY <1>1, <1>3
<1>6. QED
  BY <1>4, <1>5 DEF Holds

LEMMA ReadDataKeeps ==
  ASSUME Typed, Parsing, ReadData
  PROVE  Parsing'
<1> DEFINE n == Len(file)
<1>1. PICK i \in Lines : Open(i) /\ InData(i) /\ (file[i + 2] >= 5 => Image)
  BY DEF ReadData, Parsing, InDigit, InCount, InAddress, InSkip
<1>2. PICK x \in NextSymbol(Bytes) :
        /\ file' = Append(file, x)
        /\ ~Hex(x) => Return(x, 1)
        /\ Hex(x) => /\ writeb(addr, x) /\ addr' = (addr + 1) % (4 * Segment)
                     /\ count' = count - 1
                     /\ Read(x, IF count = 1 THEN "skip" ELSE "data")
  BY DEF ReadData, Read, Return
<1>3. Grows(x) /\ UNCHANGED pc
  BY <1>2, Symbols, Numbers DEF Grows, ReadData
<1>4. /\ n \in Nat /\ i \in 1 .. n /\ i + 3 <= n /\ n <= MaxFile /\ MaxFile \in Nat
      /\ Len(file') = n + 1 /\ file'[n + 1] = x
  BY <1>1, <1>3, Grown, LinesGrow, Alphabet DEF InData
<1>5. /\ file'[i] = LetterS /\ file'[i + 1] = 3 /\ file'[i + 2] = file[i + 2]
      /\ file'[i + 3] = file[i + 3]
  <2>1. i + 1 \in 1 .. n /\ i + 2 \in 1 .. n /\ i + 3 \in 1 .. n
    BY <1>4
  <2>2. QED
    BY <1>1, <1>3, <1>4, <2>1, Grown DEF Open, InData
<1>6. PICK c \in 0 .. 255 :
        /\ file[i + 2] = c /\ count \in Int /\ count >= 1
        /\ c < 5 => count = i + c - 2 - n + Wrap
        /\ c >= 5 => count = i + c - 2 - n
  <2>1. PICK c \in 0 .. 255 : file[i + 2] = c
    BY <1>1 DEF InData
  <2>2. count = i + c - 2 - n + (IF c < 5 THEN Wrap ELSE 0)
    BY <1>1, <2>1 DEF InData
  <2>3. c >= 5 => i + c - 2 - n + 0 = i + c - 2 - n
    BY <1>4
  <2>4. c >= 5 => ~(c < 5)
    OBVIOUS
  <2>5. count \in Int /\ count >= 1
    BY <1>1 DEF InData, Typed
  <2>6. c < 5 => count = i + c - 2 - n + Wrap
    BY <2>2
  <2>7. c >= 5 => count = i + c - 2 - n
    BY <2>2, <2>3, <2>4
  <2>8. QED
    BY <2>1, <2>5, <2>6, <2>7
<1>7. CASE ~Hex(x)
  BY <1>2, <1>7, Refused
<1>8. CASE Hex(x)
  <2>1. i \in Lines' /\ Open(i)'
    BY <1>1, <1>3, <1>8, Alphabet, OpenKept
  <2>2. x \in Bytes /\ n < MaxFile
    BY <1>8, Symbols, Numbers, Alphabet
  <2>3. \A k \in i + 4 .. n + 1 : Hex(file'[k])
    <3>1. SUFFICES ASSUME NEW k \in i + 4 .. n + 1 PROVE Hex(file'[k])
      OBVIOUS
    <3>2. CASE k = n + 1
      BY <1>4, <1>8, <3>2
    <3>3. CASE k \in i + 4 .. n
      <4>1. k \in 1 .. n
        BY <1>4, <3>3
      <4>2. QED
        BY <1>1, <1>3, <3>3, <4>1, Grown DEF InData
    <3>4. QED
      BY <1>4, <3>2, <3>3
\* The next byte goes to the next address.
  <2>4. addr' = (file'[i + 3] + (Len(file') - (i + 3))) % (4 * Segment)
    <3>1. PICK b \in Nat : file[i + 3] = b
      <4>1. file[i + 3] \in Int
        BY <1>3, <1>4, Grown
      <4>2. QED
        BY <1>1, <4>1 DEF InData
    <3>2. PICK a \in Nat : a = b + (n - (i + 3))
      <4>1. b + (n - (i + 3)) \in Nat
        BY <1>4
      <4>2. QED
        BY <4>1
    <3>3. addr = a % (4 * Segment)
      BY <1>1, <3>1, <3>2 DEF InData
    <3>4. addr' = (a + 1) % (4 * Segment)
      BY <1>2, <1>8, <3>3, AddressStep
    <3>5. a + 1 = b + (n + 1 - (i + 3))
      BY <1>4, <3>2
    <3>6. QED
      BY <1>4, <1>5, <3>1, <3>4, <3>5
  <2>5. LastGoesTo(i)' = Place(addr)
    <3>1. n + 1 - (i + 4) = n - (i + 3)
      BY <1>4
    <3>2. QED
      BY <1>1, <1>4, <1>5, <3>1 DEF LastGoesTo, Destination, InData
\* More data is to come, also when the count has wrapped.
  <2>6. ASSUME count # 1 PROVE InData(i)'
    <3>1. count' >= 1 /\ count' = i + file'[i + 2] - 2 - Len(file')
                                    + (IF file'[i + 2] < 5 THEN Wrap ELSE 0)
      <4>1. count' = count - 1 /\ count' >= 1
        BY <1>2, <1>6, <1>8, <2>6
      <4>2. CASE c < 5
        <5>1. count' = i + c - 2 - (n + 1) + Wrap
          BY <1>4, <1>6, <4>1, <4>2, Alphabet
        <5>2. QED
          BY <1>4, <1>5, <1>6, <4>1, <4>2, <5>1
      <4>3. CASE c >= 5
        <5>1. count' = i + c - 2 - (n + 1) + 0
          BY <1>4, <1>6, <4>1, <4>3
        <5>2. ~(c < 5)
          BY <4>3
        <5>3. QED
          BY <1>4, <1>5, <1>6, <4>1, <5>1, <5>2
      <4>4. QED
        BY <4>2, <4>3
    <3>2. at' = "data" /\ Len(file') >= i + 3 /\ Len(file') <= MaxFile
      BY <1>2, <1>4, <1>8, <2>2, <2>6 DEF Read
    <3>3. file'[i + 2] \in 0 .. 255 /\ file'[i + 3] >= 0
      BY <1>1, <1>5 DEF InData
    <3>4. \A k \in i + 4 .. Len(file') : Hex(file'[k])
      BY <1>4, <2>3
    <3>5. InData(i)'
      BY <1>5, <2>4, <3>1, <3>2, <3>3, <3>4 DEF InData
    <3>6. QED
      BY <3>5
  <2>7. c < 5 => count # 1
    <3>1. Wrap = MaxFile + 256
      BY Alphabet
    <3>2. i + c - 2 - n + Wrap >= 255
      BY <1>4, <3>1
    <3>3. QED
      BY <1>6, <3>2
  <2>8. CASE c < 5
    <3>1. InData(i)' /\ ~(file'[i + 2] >= 5)
      BY <1>5, <1>6, <2>6, <2>7, <2>8
    <3>2. QED
      BY <2>1, <3>1 DEF Parsing
  <2>9. CASE c >= 5
    <3>1. LastIsData(i)'
      <4>1. n + 1 <= i + c - 2 /\ i + 4 <= n + 1 /\ n + 1 <= n + 1
        BY <1>4, <1>6, <2>9
      <4>2. QED
        BY <1>4, <1>5, <1>6, <4>1 DEF LastIsData, DataOf
    <3>2. Started'
      <4>1. \A j \in Lines : j + 3 = n + 1 => file'[j + 1] # 7
        BY <1>1, <1>3, <1>4, CompleteSilent DEF Open
      <4>2. QED
        BY <1>1, <1>3, <1>6, <2>9, <4>1, StartedKept DEF Image
    <3>3. ASSUME NEW a \in Claimed PROVE Holds(a)'
      <4>1. CASE a = Place(addr)
        <5>1. mem'[a] = x
          BY <1>2, <1>8, <3>3, <4>1, LoaderAssumption DEF writeb, Typed, Claimed
        <5>2. QED
          BY <1>3, <2>1, <2>5, <3>1, <4>1, <5>1, DataRead
      <4>2. CASE a # Place(addr)
        <5>1. mem'[a] = mem[a]
          BY <1>2, <1>8, <3>3, <4>2 DEF writeb, Typed
        <5>2. \A j \in Lines : LastIsData(j)' => LastGoesTo(j)' # a
          BY <1>1, <1>3, <2>5, <4>2, CompleteSilent DEF Open
        <5>3. QED
          BY <1>1, <1>3, <1>6, <2>9, <3>3, <5>1, <5>2, HoldsKept DEF Image
      <4>3. QED
        BY <4>1, <4>2
    <3>4. Image'
      BY <3>2, <3>3 DEF Image
    <3>5. CASE count = 1
      <4>1. i + c - 2 = n + 1
        BY <1>4, <1>6, <2>9, <3>5
      <4>2. Hex(file'[i + 2]) /\ Hex(file'[i + 3])
        BY <1>1, <1>5, <1>6 DEF Hex, InData
      <4>3. Shaped(i, Len(file) + 1)'
        BY <1>4, <1>5, <1>6, <2>3, <2>9, <4>1, <4>2 DEF Shaped
      <4>4. QED
        BY <1>2, <1>8, <2>1, <3>4, <3>5, <4>3 DEF Parsing, InSkip, Read
    <3>6. CASE count # 1
      BY <2>1, <2>6, <3>4, <3>6 DEF Parsing
    <3>7. QED
      BY <3>5, <3>6
  <2>10. QED
    BY <1>6, <2>8, <2>9
<1>9. QED
  BY <1>7, <1>8

-----------------------------------------------------------------------------
(* The theorem.                                                            *)

LEMMA InitInv == Init => IInv
<1> SUFFICES ASSUME Init PROVE IInv
  OBVIOUS
<1>1. file = <<>> /\ Len(file) = 0 /\ Lines = {}
  BY DEF Init, Lines
<1>2. Typed
  BY DEF Init, Typed, Boot, Empty
<1>3. Closed
  BY <1>1 DEF Closed
<1>4. Image
  BY <1>1 DEF Init, Image, Started, Holds
<1>5. QED
  BY <1>2, <1>3, <1>4 DEF IInv, Parsing, Init

\* Nothing about the file changes.
LEMMA FileSame ==
  ASSUME UNCHANGED <<file, mem, pc>>
  PROVE  /\ Closed <=> Closed'
         /\ Image <=> Image'
         /\ \A i \in Lines : i \in Lines' /\ (Open(i) => Open(i)')
<1>1. Lines' = Lines
  BY DEF Lines
<1>2. \A i : Complete(i)' <=> Complete(i)
  BY DEF Complete, EndsLine, Shaped
<1>3. \A i, k : /\ DataOf(i, k)' <=> DataOf(i, k)
                /\ Destination(i, k)' = Destination(i, k)
  BY DEF DataOf, Destination
<1>4. \A a, k : Gives(a, k)' <=> Gives(a, k)
  BY <1>1, <1>3 DEF Gives
<1>5. Closed <=> Closed'
  BY <1>1, <1>2 DEF Closed, EndsLine
<1>6. Started <=> Started'
  BY <1>1 DEF Started, StartsAt
<1>7. (\A a \in Claimed : Holds(a)) <=> (\A a \in Claimed : Holds(a)')
  BY <1>4 DEF Holds
<1>8. \A i \in Lines : i \in Lines' /\ (Open(i) => Open(i)')
  BY <1>1, <1>2 DEF Open, EndsLine
<1>9. QED
  BY <1>5, <1>6, <1>7, <1>8 DEF Image

LEMMA LoopEndsKeeps ==
  ASSUME Parsing, LoopEnds
  PROVE  Parsing'
<1>1. Closed /\ Image
  BY DEF LoopEnds, Parsing, InDigit, InCount, InAddress, InData, InSkip
<1>2. at' = "done" /\ UNCHANGED <<file, mem, pc>>
  BY DEF LoopEnds
<1>3. QED
  BY <1>1, <1>2, FileSame DEF Parsing

LEMMA Unchanged ==
  ASSUME Parsing, UNCHANGED vars
  PROVE  Parsing'
<1>1. UNCHANGED <<file, mem, pc>> /\ UNCHANGED <<at, type, count, addr, ret>>
  BY DEF vars
<1>2. CASE (at = "type" /\ Closed /\ Image) \/ (at = "done" /\ (ret = 0 => Closed /\ Image))
  BY <1>1, <1>2, FileSame DEF Parsing
<1>3. ASSUME NEW i \in Lines, Open(i),
             \/ (InDigit(i) \/ InCount(i) \/ InAddress(i) \/ InSkip(i)) /\ Image
             \/ InData(i) /\ (file[i + 2] >= 5 => Image)
      PROVE  Parsing'
  <2>1. i \in Lines' /\ Open(i)' /\ (Image <=> Image')
    BY <1>1, <1>3, FileSame
  <2>2. /\ InDigit(i) => InDigit(i)'
        /\ InCount(i) => InCount(i)'
        /\ InAddress(i) => InAddress(i)'
        /\ InSkip(i) => InSkip(i)'
        /\ InData(i) => InData(i)'
    BY <1>1 DEF InDigit, InCount, InAddress, InSkip, InData, Shaped
  <2>3. file'[i + 2] >= 5 <=> file[i + 2] >= 5
    BY <1>1
  <2>4. QED
    BY <1>3, <2>1, <2>2, <2>3 DEF Parsing
<1>4. QED
  BY <1>2, <1>3 DEF Parsing

LEMMA Invariance == Spec => []IInv
<1>1. Init => IInv
  BY InitInv
<1>2. IInv /\ [Next]_vars => IInv'
  BY TypedStep, ReadSKeeps, ReadDigitKeeps, ReadCountKeeps, ReadAddressKeeps,
     ReadDataKeeps, SkipKeeps, LoopEndsKeeps, Unchanged DEF IInv, Next, Done
<1>3. QED
  BY <1>1, <1>2, PTL DEF Spec

\* The end of a complete line is what LastOfLine finds.
LEMMA CompleteIsWellFormed ==
  ASSUME Typed, NEW i \in Lines, Complete(i)
  PROVE  WellFormed(i)
<1>1. PICK e \in i .. Len(file) :
        EndsLine(e) /\ Shaped(i, e) /\ \A k \in i .. e - 1 : ~EndsLine(k)
  BY DEF Complete
<1>2. i \in 1 .. Len(file) /\ Len(file) \in Nat
  BY LenProperties DEF Lines, Typed
<1>3. ASSUME NEW j \in i .. Len(file), EndsLine(j), \A k \in i .. j - 1 : ~EndsLine(k)
      PROVE  j = e
  <2>1. ~(j < e) /\ ~(e < j)
    BY <1>1, <1>2, <1>3
  <2>2. QED
    BY <1>2, <2>1
<1>4. LastOfLine(i) = e
  BY <1>1, <1>3 DEF LastOfLine, EndsLine
<1>5. QED
  BY <1>1, <1>4 DEF WellFormed

\* In a file whose lines are complete, what the loader was given is what the
\* file asks for.
LEMMA DataIsGiven ==
  ASSUME Typed, Closed, NEW a
  PROVE  DataFor(a) = {k \in 1 .. Len(file) : Gives(a, k)}
<1>1. ASSUME NEW i \in Lines, NEW k \in 1 .. Len(file), file[i + 1] = 3
      PROVE  k \in i + 4 .. i + file[i + 2] - 2 <=> DataOf(i, k)
  <2>1. file[i + 2] \in Int /\ i \in Int
    BY <1>1, CompleteEnds DEF Closed, Lines
  <2>2. QED
    BY <1>1, <2>1 DEF DataOf
<1>2. \A i \in Lines : \A k \in 1 .. Len(file) :
        DataOf(i, k) => file[i + 1] = 3
  BY DEF DataOf
<1>3. QED
  BY <1>1, <1>2 DEF DataFor, Gives, Destination

LEMMA LatestIs ==
  ASSUME NEW S \in SUBSET Int, NEW k \in S, \A j \in S : j <= k
  PROVE  Latest(S) = k
<1>1. \A l \in S : (\A j \in S : j <= l) => l = k
  OBVIOUS
<1>2. QED
  BY <1>1 DEF Latest

LEMMA FinalImage ==
  ASSUME Typed, Closed, Image
  PROVE  /\ \A a \in Claimed :
              mem[a] = IF DataFor(a) = {} THEN Empty ELSE file[Latest(DataFor(a))]
         /\ pc = IF Starts = {} THEN Boot ELSE file[Latest(Starts) + 3]
<1>1. Len(file) \in Nat /\ Lines \subseteq Int
  BY LenProperties DEF Typed, Lines
<1>2. ASSUME NEW a \in Claimed
      PROVE  mem[a] = IF DataFor(a) = {} THEN Empty ELSE file[Latest(DataFor(a))]
  <2>1. DataFor(a) = {k \in 1 .. Len(file) : Gives(a, k)} /\ Holds(a)
    BY DataIsGiven DEF Image
  <2>2. CASE mem[a] = Empty /\ \A k \in 1 .. Len(file) : ~Gives(a, k)
    BY <2>1, <2>2
  <2>3. CASE \E k \in 1 .. Len(file) :
               /\ Gives(a, k) /\ mem[a] = file[k]
               /\ \A j \in 1 .. Len(file) : Gives(a, j) => j <= k
    <3>1. PICK k \in 1 .. Len(file) :
            /\ Gives(a, k) /\ mem[a] = file[k]
            /\ \A j \in 1 .. Len(file) : Gives(a, j) => j <= k
      BY <2>3
    <3>2. DataFor(a) \in SUBSET Int /\ k \in DataFor(a)
          /\ \A j \in DataFor(a) : j <= k
      BY <1>1, <2>1, <3>1
    <3>3. Latest(DataFor(a)) = k
      BY <3>2, LatestIs
    <3>4. QED
      BY <3>1, <3>2, <3>3
  <2>4. QED
    BY <2>1, <2>2, <2>3 DEF Holds
<1>3. pc = IF Starts = {} THEN Boot ELSE file[Latest(Starts) + 3]
  <2>1. Starts = {i \in Lines : StartsAt(i)}
    <3>1. \A i \in Lines : file[i + 1] = 7 => i + 3 <= Len(file)
      BY <1>1, CompleteEnds DEF Closed
    <3>2. QED
      BY <3>1 DEF Starts, StartsAt
  <2>2. CASE pc = Boot /\ \A i \in Lines : ~StartsAt(i)
    BY <2>1, <2>2
  <2>3. CASE \E i \in Lines : /\ StartsAt(i) /\ pc = file[i + 3]
                              /\ \A j \in Lines : StartsAt(j) => j <= i
    <3>1. PICK i \in Lines : /\ StartsAt(i) /\ pc = file[i + 3]
                             /\ \A j \in Lines : StartsAt(j) => j <= i
      BY <2>3
    <3>2. Starts \in SUBSET Int /\ i \in Starts /\ \A j \in Starts : j <= i
      BY <1>1, <2>1, <3>1
    <3>3. Latest(Starts) = i
      BY <3>2, LatestIs
    <3>4. QED
      BY <3>1, <3>2, <3>3
  <2>4. QED
    BY <2>2, <2>3 DEF Image, Started
<1>4. QED
  BY <1>2, <1>3

\* loadSrec_mips returns 0 only with the memory and the pc of the file, for
\* every memory size and every file: each line is a supported record, each
\* place holds the last byte given for it, nothing else was touched.
THEOREM FilesAreLoaded == Spec => []LoadsImage
<1>1. IInv => LoadsImage
  <2>1. SUFFICES ASSUME Typed, Parsing, ret = 0 PROVE LoadsImage
    BY DEF IInv, LoadsImage
  <2>2. at = "done"
    BY <2>1 DEF Typed
  <2>3. Closed /\ Image
    BY <2>1, <2>2 DEF Parsing, InDigit, InCount, InAddress, InData, InSkip
  <2>4. \A i \in Lines : WellFormed(i)
    BY <2>1, <2>3, CompleteIsWellFormed DEF Closed
  <2>5. QED
    BY <2>1, <2>3, <2>4, FinalImage DEF LoadsImage
<1>2. QED
  BY <1>1, Invariance, PTL
=============================================================================
