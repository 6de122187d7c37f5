----------------------------- MODULE SrecLoader -----------------------------
(***************************************************************************)
(* The S-record loader (src/srec.c) as main() uses it: it reads a file     *)
(* character by character and stores data bytes into the memory of the     *)
(* interpreter.  The file is written as it is read: every symbol is chosen *)
(* when nextChar returns it.  A symbol is a letter S (any character that   *)
(* is no hex digit acts like it, or like a newline), a newline, or a       *)
(* number: the two hex digits of a byte, the eight of an address or the    *)
(* one of a record type.                                                   *)
(***************************************************************************)
EXTENDS Integers, Sequences, FiniteSets

CONSTANTS
  MemSize,     \* pmemsz, in bytes
  Segment,     \* the size of kseg0 and of kseg1
  Types,       \* record types in the file (0 .. 9)
  Counts,      \* byte counts in the file
  Addresses,   \* addresses in the file
  Bytes,       \* data bytes in the file
  MaxFile      \* bound: no file is longer

ASSUME LoaderAssumption ==
  /\ MemSize \in Nat /\ Segment \in Nat /\ MemSize < Segment
  /\ Types \subseteq 0 .. 9
  /\ Counts \subseteq 0 .. 255 /\ Bytes \subseteq 0 .. 255
  /\ Addresses \subseteq 0 .. 4 * Segment - 1
  /\ MaxFile \in Nat

EOF == -1
LetterS == -2
Newline == -3

\* The data count is a uint32_t: neither a byte nor a file comes near its size.
Wrap == MaxFile + 256

VARIABLES
  file,        \* the symbols read
  at,          \* what the loader reads next, or "done"
  type,        \* the record type
  count,       \* data bytes left in the record
  addr,        \* where the next one goes
  mem,         \* emu->mem by byte, and the first byte behind it
  pc,          \* emu->pc: an address, or Boot
  ret          \* what loadSrec_mips returned

vars == <<file, at, type, count, addr, mem, pc, ret>>

Boot == -1
Empty == 0
Claimed == 0 .. MemSize

Init ==
  /\ file = <<>>
  /\ at = "type" /\ type = 0 /\ count = 0 /\ addr = 0
  /\ mem = [a \in Claimed |-> Empty]
  /\ pc = Boot
  /\ ret = -1

-----------------------------------------------------------------------------
(* What the file may hold next.  Past MaxFile it has ended.                *)

Letters == {EOF, LetterS, Newline}
NextSymbol(numbers) ==
  IF Len(file) < MaxFile /\ (file = <<>> \/ file[Len(file)] # EOF)
    THEN Letters \cup numbers ELSE {EOF}

Hex(x) == x >= 0

\* nextChar returns x and the loader goes on to read `then'.
Read(x, then) == file' = Append(file, x) /\ at' = then

Return(x, value) == Read(x, "done") /\ ret' = value

-----------------------------------------------------------------------------
(* One action per call of a reader.                                        *)

\* feof is true only once a read has failed: a file that ends after a newline
\* is read once more, and that read is the "type" -1.
AtEnd == file # <<>> /\ file[Len(file)] = EOF

LoopEnds ==
  /\ at = "type" /\ AtEnd
  /\ at' = "done" /\ ret' = 0
  /\ UNCHANGED <<file, type, count, addr, mem, pc>>

\* srecReadType, its first character: the end of the file is no error.
ReadS ==
  /\ at = "type" /\ ~AtEnd
  /\ \E x \in NextSymbol({}) :
       IF x = EOF THEN Read(x, "type") /\ UNCHANGED ret
       ELSE IF x = LetterS THEN Read(x, "digit") /\ UNCHANGED ret
       ELSE Return(x, 1)
  /\ UNCHANGED <<type, count, addr, mem, pc>>

\* Its second; the switch of loadSrec_mips supports types 0, 3 and 7.
ReadDigit ==
  /\ at = "digit"
  /\ \E x \in NextSymbol(Types) :
       /\ type' = x
       /\ IF x = 0 THEN Read(x, "skip") /\ UNCHANGED ret
          ELSE IF x \in {3, 7} THEN Read(x, "count") /\ UNCHANGED ret
          ELSE Return(x, 1)
  /\ UNCHANGED <<count, addr, mem, pc>>

\* Mutant of DataCount: the checksum is taken for data.
DataCountAll(n) == (n - 4) % Wrap

\* count - 5: four address bytes and the checksum are not data.
DataCount(n) == (n - 5) % Wrap

ReadCount ==
  /\ at = "count"
  /\ \E x \in NextSymbol(Counts) :
       IF Hex(x) THEN /\ count' = DataCount(x)
                      /\ Read(x, "address") /\ UNCHANGED ret
       ELSE Return(x, 1) /\ UNCHANGED count
  /\ UNCHANGED <<type, addr, mem, pc>>

ReadAddress ==
  /\ at = "address"
  /\ \E x \in NextSymbol(Addresses) :
       IF ~Hex(x) THEN Return(x, 1) /\ UNCHANGED <<addr, pc>>
       ELSE /\ addr' = x
            /\ IF type = 7 THEN pc' = x /\ Read(x, "skip")
               ELSE UNCHANGED pc
                    /\ Read(x, IF count = 0 THEN "skip" ELSE "data")
            /\ UNCHANGED ret
  /\ UNCHANGED <<type, count, mem>>

\* writeb: kseg0 and kseg1 lead to the memory, the rest is dropped.
Place(a) == IF a \div Segment \in {1, 2} THEN a % Segment ELSE Segment
writeb(a, v) ==
  mem' = IF Place(a) > MemSize THEN mem ELSE [mem EXCEPT ![Place(a)] = v]

\* srecLoadData, one turn of its loop.
ReadData ==
  /\ at = "data"
  /\ \E x \in NextSymbol(Bytes) :
       IF Hex(x) THEN /\ writeb(addr, x)
                      /\ addr' = (addr + 1) % (4 * Segment)
                      /\ count' = count - 1
                      /\ Read(x, IF count = 1 THEN "skip" ELSE "data")
                      /\ UNCHANGED ret
       ELSE Return(x, 1) /\ UNCHANGED <<mem, addr, count>>
  /\ UNCHANGED <<type, pc>>

\* srecSkipToNextLine, one turn of its loop; 0 stands for the checksum.
Skip ==
  /\ at = "skip"
  /\ \E x \in NextSymbol({0}) :
       Read(x, IF x \in {EOF, Newline} THEN "type" ELSE "skip")
  /\ UNCHANGED <<type, count, addr, mem, pc, ret>>

\* main() exits with 1 or starts the machine.
Done == at = "done" /\ UNCHANGED vars

Next == \/ LoopEnds \/ ReadS \/ ReadDigit \/ ReadCount \/ ReadAddress
        \/ ReadData \/ Skip \/ Done

Spec == Init /\ [][Next]_vars

-----------------------------------------------------------------------------
(* What a file means.                                                      *)

\* Where the lines begin: after a newline or at the beginning.
Lines == {i \in 1 .. Len(file) : /\ i = 1 \/ file[i - 1] = Newline
                                 /\ file[i] # EOF}

LastOfLine(i) ==
  CHOOSE j \in i .. Len(file) :
    /\ file[j] \in {Newline, EOF}
    /\ \A k \in i .. j - 1 : file[k] \notin {Newline, EOF}

\* S, type, and for data: count, address and count - 5 bytes before the end.
Shaped(i, end) ==
  /\ file[i] = LetterS /\ i + 1 < end /\ file[i + 1] \in {0, 3, 7}
  /\ file[i + 1] \in {3, 7} =>
       i + 3 < end /\ Hex(file[i + 2]) /\ Hex(file[i + 3])
  /\ file[i + 1] = 3 =>
       /\ file[i + 2] >= 5
       /\ i + file[i + 2] - 2 < end
       /\ \A k \in i + 4 .. i + file[i + 2] - 2 : Hex(file[k])

WellFormed(i) == Shaped(i, LastOfLine(i))

\* The bytes of the file that are data for place a of the memory.
DataFor(a) ==
  {k \in 1 .. Len(file) :
     \E i \in Lines :
       /\ file[i + 1] = 3
       /\ k \in i + 4 .. i + file[i + 2] - 2
       /\ Place((file[i + 3] + (k - (i + 4))) % (4 * Segment)) = a}

Starts == {i \in Lines : file[i + 1] = 7}
Latest(S) == CHOOSE k \in S : \A j \in S : j <= k

\* The machine is started only with the memory the file describes: every line
\* was well formed, each place holds the last byte the file gives for it, the
\* others were left alone, and the pc is that of the last start record.  (The
\* place one behind the memory is treated as part of it, srec.c:77.)
LoadsImage ==
  ret = 0 =>
    /\ \A i \in Lines : WellFormed(i)
    /\ \A a \in Claimed :
         mem[a] = IF DataFor(a) = {} THEN Empty ELSE file[Latest(DataFor(a))]
    /\ pc = IF Starts = {} THEN Boot ELSE file[Latest(Starts) + 3]
=============================================================================
