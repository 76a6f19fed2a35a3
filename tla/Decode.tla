------------------------------- MODULE Decode -------------------------------
(***************************************************************************)
(* What FollowFrame (frob.cc) makes of the objects behind a frame: the     *)
(* name of its function, which PtracePeekString copies word by word from a *)
(* Python 2 and StringDataPython3 turns from a Python 3's compact string   *)
(* into UTF-8; and its line, which GetLine finds in the compressed table   *)
(* co_lnotab.  One turn of each loop is a step.                            *)
(*                                                                         *)
(* An object here is what CPython knows of the frame; the bytes that       *)
(* pyflame reads are those CPython makes of it.                            *)
(*                                                                         *)
(* Where two definitions stand together, the last one is the code; those   *)
(* before it are the slips that a property below must catch.               *)
(***************************************************************************)
EXTENDS Integers, SequencesExt

CONSTANTS
  Objects,   \* the frames: see IsObject
  MaxByte,   \* what a byte of co_lnotab can count: 255 in CPython
  WordSize   \* bytes a PTRACE_PEEKDATA reads: 8 in the code

\* The maximum code point of Unicode.
MaxChar == 1114111

\* chars: the characters of the name, bytes in Python 2.  steps: where the line changes, as
\* <<instructions, lines>> from one place to the next, from first on.
\* lasti: the instruction it executes, -1 before the first.
IsObject(o) ==
  /\ o.py2 \in BOOLEAN
  /\ o.chars \in Seq(IF o.py2 THEN 1..255 ELSE 0..MaxChar)
  /\ o.steps \in Seq(Nat \X Int) /\ o.first \in Nat
  /\ o.lasti \in Nat \cup {-1}
  /\ o.traced \in BOOLEAN /\ o.signed \in BOOLEAN

ASSUME DecodeAssumption ==
  /\ MaxByte \in Nat \ {0, 1} /\ WordSize \in Nat \ {0}
  /\ \A o \in Objects : IsObject(o)

VARIABLES
  object,
  pc,
  i, dump,           \* StringDataPython3; PtracePeekString, whose i is off
  p, addr, line      \* GetLine: p is how many pairs of tbl are consumed

vars == <<object, pc, i, dump, p, addr, line>>

----------------------------------------------------------------------------
(* CPython.                                                                *)

\* A string has as many bytes a character as its widest one needs, the
\* lowest first.
Kind(chars) ==
  IF \E k \in DOMAIN chars : chars[k] > 65535 THEN 4
  ELSE IF \E k \in DOMAIN chars : chars[k] > 255 THEN 2 ELSE 1
ByteOf(ch, n) == (ch \div <<1, 256, 65536, 256 * 65536>>[n + 1]) % 256
ByteAt(o, at) == ByteOf(o.chars[(at \div Kind(o.chars)) + 1], at % Kind(o.chars))
SizeOf(o) == Len(o.chars) * Kind(o.chars)

\* Pairs of co_lnotab: a step that no pair can express takes several.  From
\* 3.6 on, lines are signed bytes.
MostLines(o) == IF o.signed THEN MaxByte \div 2 ELSE MaxByte
Times(n, most) == IF n > most THEN n \div most ELSE 0
Pairs(o, step) ==
  LET a == Times(step[1], MaxByte)
      l == Times(step[2], MostLines(o))
  IN  [k \in 1..(a + l + 1) |->
         <<IF k <= a THEN MaxByte ELSE IF k = a + 1 THEN step[1] - a * MaxByte ELSE 0,
           IF k <= a THEN 0 ELSE IF k <= a + l THEN MostLines(o)
           ELSE (step[2] - l * MostLines(o)) % (MaxByte + 1)>>]

\* The table of the first n steps, and the place they lead to.
TableTo(o) ==
  LET table[n \in 0..Len(o.steps)] ==
        IF n = 0 THEN <<>> ELSE table[n - 1] \o Pairs(o, o.steps[n])
  IN  table
Table(o) == TableTo(o)[Len(o.steps)]
Place(o) ==
  LET place[n \in 0..Len(o.steps)] ==
        IF n = 0 THEN <<0, o.first>>
        ELSE <<place[n - 1][1] + o.steps[n][1], place[n - 1][2] + o.steps[n][2]>>
  IN  place

\* The line of the instruction that is executed.
LineOf(o) == Place(o)[Cardinality({n \in DOMAIN o.steps : Place(o)[n][1] <= o.lasti})][2]

\* It is up to date in f_lineno only if the frame is traced.
FLineno(o) == IF o.traced THEN LineOf(o) ELSE o.first

----------------------------------------------------------------------------
(* StringDataPython3.                                                      *)

Six(ch) == 128 + (ch % 64)
Two(ch) == <<192 + (ch \div 64), Six(ch)>>
Three(ch) == <<224 + (ch \div 4096), Six(ch \div 64), Six(ch)>>
Four(ch) == <<240 + (ch \div 262144), Six(ch \div 4096), Six(ch \div 64), Six(ch)>>

Utf8NoFour(ch) == IF ch < 128 THEN <<ch>> ELSE IF ch < 2048 THEN Two(ch) ELSE Three(ch)
Utf8Latin(ch) ==
  IF ch < 128 THEN <<ch>> ELSE IF ch < 256 THEN Two(ch)
  ELSE IF ch < 65536 THEN Three(ch) ELSE Four(ch)
Utf8(ch) ==
  IF ch < 128 THEN <<ch>> ELSE IF ch < 2048 THEN Two(ch)
  ELSE IF ch < 65536 THEN Three(ch) ELSE Four(ch)

ChSize == Kind(object.chars)
CharAt(k) ==
  ByteAt(object, k)
  + (IF ChSize > 1 THEN 256 * ByteAt(object, k + 1) ELSE 0)
  + (IF ChSize = 4 THEN 65536 * (ByteAt(object, k + 2) + 256 * ByteAt(object, k + 3)) ELSE 0)

Init ==
  /\ object \in Objects
  /\ pc = "string" /\ i = 0 /\ dump = <<>> /\ p = 0 /\ addr = 0 /\ line = 0

DumpChar ==
  /\ pc = "string" /\ ~object.py2 /\ i < SizeOf(object)
  /\ dump' = dump \o Utf8(CharAt(i)) /\ i' = i + ChSize
  /\ UNCHANGED <<object, pc, p, addr, line>>

\* The string ends at its NUL; what follows in memory is never 0 here.
Memory == object.chars \o <<0>> \o [k \in 1..WordSize |-> 77]
Chunk(off) == SubSeq(Memory, off + 1, off + WordSize)
FirstNul(s) == SelectInSeq(s, LAMBDA b : b = 0)

PeekWord ==
  /\ pc = "string" /\ object.py2 /\ i <= Len(object.chars)
  /\ LET nul == FirstNul(Chunk(i))
     IN  dump' = dump \o (IF nul = 0 THEN Chunk(i) ELSE SubSeq(Chunk(i), 1, nul - 1))
  /\ i' = i + WordSize
  /\ UNCHANGED <<object, pc, p, addr, line>>

\* Both loops end behind what they have read.
NameEnd == IF object.py2 THEN Len(object.chars) + 1 ELSE SizeOf(object)

----------------------------------------------------------------------------
(* GetLine.                                                                *)

StartLine ==
  /\ pc = "string" /\ i >= NameEnd
  /\ IF object.traced
     THEN line' = FLineno(object) /\ pc' = "done"
     ELSE line' = object.first /\ pc' = "line"
  /\ UNCHANGED <<object, i, dump, p, addr>>

\* The mask makes the greatest int of a negative f_lasti.
FLasti == IF object.lasti < 0 THEN 2147483647 ELSE object.lasti
BeyondSoon(a) == a >= FLasti
Beyond(a) == a > FLasti

\* A byte is added, and the other one of the pair if the loop goes on.
AddPair ==
  /\ pc = "line" /\ p < Len(Table(object))
  /\ LET pair == Table(object)[p + 1]
     IN  /\ addr' = addr + pair[1]
         /\ IF Beyond(addr')
            THEN pc' = "done" /\ UNCHANGED line
            ELSE line' = line + pair[2] /\ UNCHANGED pc
  /\ p' = p + 1
  /\ UNCHANGED <<object, i, dump>>

EndOfTable ==
  /\ pc = "line" /\ p = Len(Table(object))
  /\ pc' = "done"
  /\ UNCHANGED <<object, i, dump, p, addr, line>>

Terminated == pc = "done" /\ UNCHANGED vars

Next == DumpChar \/ PeekWord \/ StartLine \/ AddPair \/ EndOfTable \/ Terminated

Spec == Init /\ [][Next]_vars

----------------------------------------------------------------------------
(* Properties.                                                             *)

\* Every byte of what is dumped fits in its char, and neither loop reads beyond
\* the string or the table it was given.
TypeOK ==
  /\ pc \in {"string", "line", "done"}
  /\ i \in 0..(NameEnd + WordSize) /\ \A k \in DOMAIN dump : dump[k] \in 0..255
  /\ p \in 0..Len(Table(object)) /\ addr \in Nat /\ line \in Int

\* A reader of UTF-8.  What ends at byte k of s, if n bytes follow the one it
\* starts with: nothing unless these continue it, and no shorter form would do.
Followers(b) ==
  IF b < 128 THEN 0 ELSE IF b \in 192..223 THEN 1
  ELSE IF b \in 224..239 THEN 2 ELSE IF b \in 240..247 THEN 3 ELSE -1
Value(s, k, n) ==
  CASE n = 0 -> s[k]
    [] n = 1 -> 64 * (s[k - 1] - 192) + (s[k] - 128)
    [] n = 2 -> 4096 * (s[k - 2] - 224) + 64 * (s[k - 1] - 128) + (s[k] - 128)
    [] n = 3 -> 262144 * (s[k - 3] - 240) + 4096 * (s[k - 2] - 128)
                  + 64 * (s[k - 1] - 128) + (s[k] - 128)
Ends(s, k, n) ==
  /\ n < k /\ Followers(s[k - n]) = n
  /\ \A m \in (k - n + 1)..k : s[m] \in 128..191
  /\ Value(s, k, n) >= <<0, 128, 2048, 65536>>[n + 1]

\* The characters of the first k bytes; -1 for a byte that ends none.  A
\* surrogate is read as it is written: the code handles none.
ReadTo(s) ==
  LET read[k \in 0..Len(s)] ==
        IF k = 0 THEN <<>>
        ELSE LET ends == {n \in 0..3 : Ends(s, k, n)}
                 n == CHOOSE n \in ends : TRUE
             IN  IF ends = {} THEN Append(read[k - 1], -1)
                 ELSE Append(read[k - n - 1], Value(s, k, n))
  IN  read

\* A reader of pyflame's output, which is UTF-8, reads the name: its
\* characters and no others.  A Python 2's name is copied.
NameRight ==
  pc # "string" =>
    object.chars = IF object.py2 THEN dump ELSE ReadTo(dump)[Len(dump)]

\* GetLine is "essentially an implementation of PyFrame_GetLineNumber / PyCode_Addr2Line":
\* it finds the line of the instruction that is executed, however many pairs
\* the table takes for a step.  That is so for a frame that has started, in
\* code whose lines never go back (as Python 3.6's may).
Forward == \A k \in DOMAIN object.steps : object.steps[k][2] >= 0
LineRight ==
  pc = "done" /\ (object.traced \/ (object.lasti >= 0 /\ Forward)) =>
    line = LineOf(object)
=============================================================================
