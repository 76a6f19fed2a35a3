---------------------------- MODULE SymbolsProofs ----------------------------
(***************************************************************************)
(* Proofs about module Symbols, for every process: symbol tables of any    *)
(* length, in any order, of files linked and mapped anywhere.              *)
(***************************************************************************)
EXTENDS Symbols, TLAPS

USE SymbolsAssumption DEF SymbolsAssumption

TS == "_PyThreadState_Current"
InterpHead == "interp_head"
HeadFn == "PyInterpreterState_Head"

----------------------------------------------------------------------------
(* The inductive invariant.                                                *)

\* What a walk has found is where the linker put it, and its symbol was shown.
Linked ==
  Walking =>
    /\ addrs.tstate \in {0, Value(TS)} /\ addrs.head \in {0, Value(InterpHead)}
    /\ addrs.head_fn \in {0, Value(HeadFn)}
    /\ addrs.tstate # 0 => Shows(Elf, TS)

\* What the first n symbols of a table show has been found.
Covered(table, n) ==
  Elf.defines =>
    \A k \in 1..n : /\ table[k] = TS => addrs.tstate # 0
                    /\ table[k] = InterpHead => addrs.head # 0
                    /\ table[k] = HeadFn => addrs.head # 0 \/ addrs.head_fn # 0
Covering ==
  Walking =>
    /\ Covered(Table, i)
    /\ pc \in {"exe_sym", "lib_sym"} => Covered(Elf.dyn, Len(Elf.dyn))

HasIt(elf) == elf.defines /\ Shows(elf, TS)

\* The library is searched only if the executable has not got the interpreter.
Order ==
  /\ process \in Processes
  /\ pc \in {"lib_dyn", "lib_sym"} =>
       ~HasIt(process.exe) /\ process.link # "none" /\ process.mapped
  /\ pc = "retry" => ~HasInterpreter(process)

Place(elf, name) ==
  (IF elf.type = "dyn" THEN elf.at + elf.text ELSE elf.base) + Offset(name)
Placed ==
  pc \in {"located", "found", "fatal"} =>
    LET elf == Home(process)
    IN  /\ addrs.tstate = Place(elf, TS)
        /\ addrs.head \in {0, Place(elf, InterpHead)}
        /\ addrs.head_fn \in {0, Place(elf, HeadFn)}
        /\ Shows(elf, InterpHead) => addrs.head # 0
        /\ Shows(elf, HeadFn) => addrs.head # 0 \/ addrs.head_fn # 0

Inv == TypeOK /\ Order /\ Linked /\ Covering /\ Placed

----------------------------------------------------------------------------
(* Files and addresses.                                                    *)

\* The files of a process are of the types that SymbolsAssumption says.
LEMMA ElfFacts ==
  ASSUME NEW p \in Processes, NEW elf \in {p.exe, p.lib}
  PROVE  /\ elf.dyn \in Seq(Names) /\ elf.sym \in Seq(Names)
         /\ elf.defines \in BOOLEAN /\ elf.type \in {"exec", "dyn"}
         /\ elf.base \in Nat /\ elf.text \in Nat /\ elf.at \in Nat \ {0}
         /\ p.abi_opt \in {"unknown"} \cup Versions
<1>1. p \in ProcessSet
  OBVIOUS
<1>2. elf \in ElfSet
  BY <1>1 DEF ProcessSet
<1> QED BY <1>1, <1>2 DEF ElfSet, ProcessSet

\* So is the file that is being searched.
LEMMA ThisElf ==
  ASSUME process \in Processes
  PROVE  /\ Elf \in {process.exe, process.lib}
         /\ Elf.dyn \in Seq(Names) /\ Elf.sym \in Seq(Names) /\ Table \in Seq(Names)
         /\ Elf.defines \in BOOLEAN /\ Elf.type \in {"exec", "dyn"}
         /\ Elf.base \in Nat /\ Elf.text \in Nat /\ Elf.at \in Nat \ {0}
<1>1. Elf \in {process.exe, process.lib}
  BY DEF Elf
<1> QED BY <1>1, ElfFacts DEF Table

\* No symbol is at the very start of a file.
LEMMA OffsetFacts == \A name : Offset(name) \in Nat \ {0}
  BY DEF Offset

\* A symbol has an address just if the file defines it.
LEMMA ValueFacts ==
  ASSUME process \in Processes, NEW name
  PROVE  /\ Value(name) \in Int
         /\ Elf.defines <=> Value(name) # 0
         /\ Elf.defines => Value(name) = Elf.base + Offset(name)
  BY ThisElf, OffsetFacts DEF Value

\* A symbol fills the address of its name, or none.
LEMMA NotedFacts ==
  ASSUME addrs \in [tstate : Int, head : Int, head_fn : Int], process \in Processes, NEW name
  PROVE  /\ Noted(name) \in [tstate : Int, head : Int, head_fn : Int]
         /\ Noted(name).tstate = IF addrs.tstate = 0 /\ name = TS
                                 THEN Value(TS) ELSE addrs.tstate
         /\ Noted(name).head = IF addrs.head = 0 /\ name = InterpHead
                               THEN Value(InterpHead) ELSE addrs.head
         /\ Noted(name).head_fn = IF addrs.head = 0 /\ name = HeadFn
                                  THEN Value(HeadFn) ELSE addrs.head_fn
<1>1. CASE addrs.tstate = 0 /\ name = TS
  BY <1>1, ValueFacts DEF Noted, TS, InterpHead, HeadFn
<1>2. CASE addrs.head = 0 /\ name = InterpHead
  BY <1>2, ValueFacts DEF Noted, TS, InterpHead, HeadFn
<1>3. CASE addrs.head = 0 /\ name = HeadFn
  BY <1>3, ValueFacts DEF Noted, TS, InterpHead, HeadFn
<1>4. CASE /\ ~(addrs.tstate = 0 /\ name = TS) /\ ~(addrs.head = 0 /\ name = InterpHead)
           /\ ~(addrs.head = 0 /\ name = HeadFn)
  BY <1>4 DEF Noted, TS, InterpHead, HeadFn
<1> QED BY <1>1, <1>2, <1>3, <1>4

\* PyAddresses is shifted field by field, and 0 stays 0.
LEMMA ShiftFacts ==
  ASSUME NEW a \in [tstate : Int, head : Int, head_fn : Int], NEW n \in Int
  PROVE  /\ Shift(a, n) \in [tstate : Int, head : Int, head_fn : Int]
         /\ Shift(a, n).tstate = IF a.tstate = 0 THEN 0 ELSE a.tstate + n
         /\ Shift(a, n).head = IF a.head = 0 THEN 0 ELSE a.head + n
         /\ Shift(a, n).head_fn = IF a.head_fn = 0 THEN 0 ELSE a.head_fn + n
  BY DEF Shift

\* From where the linker put a symbol to where the loader put it.
LEMMA RelocatedFacts ==
  ASSUME Inv, Walking
  PROVE  LET moved == IF Elf.type = "dyn" THEN Shift(Shift(addrs, -Elf.base), Located)
                      ELSE addrs
         IN  /\ moved \in [tstate : Int, head : Int, head_fn : Int]
             /\ moved.tstate = IF addrs.tstate = 0 THEN 0 ELSE Place(Elf, TS)
             /\ moved.head = IF addrs.head = 0 THEN 0 ELSE Place(Elf, InterpHead)
             /\ moved.head_fn = IF addrs.head_fn = 0 THEN 0 ELSE Place(Elf, HeadFn)
             /\ addrs.tstate # 0 => moved.tstate # 0
             /\ addrs.head # 0 => moved.head # 0
             /\ addrs.head_fn # 0 => moved.head_fn # 0
<1>1. process \in Processes /\ addrs \in [tstate : Int, head : Int, head_fn : Int]
  BY DEF Inv, Order, TypeOK
<1>2. /\ Elf.base \in Nat /\ Located \in Nat \ {0} /\ Located = Elf.at + Elf.text
      /\ -Elf.base \in Int
  BY <1>1, ThisElf DEF Located
<1>3. /\ addrs.tstate # 0 => addrs.tstate = Elf.base + Offset(TS)
      /\ addrs.head # 0 => addrs.head = Elf.base + Offset(InterpHead)
      /\ addrs.head_fn # 0 => addrs.head_fn = Elf.base + Offset(HeadFn)
  BY <1>1, ValueFacts DEF Inv, Linked
<1>4. /\ Offset(TS) \in Nat \ {0} /\ Offset(InterpHead) \in Nat \ {0}
      /\ Offset(HeadFn) \in Nat \ {0}
  BY OffsetFacts
<1>5. CASE Elf.type = "dyn"
  <2> DEFINE once == Shift(addrs, -Elf.base)
             twice == Shift(once, Located)
  <2>1. /\ once \in [tstate : Int, head : Int, head_fn : Int]
        /\ once.tstate = IF addrs.tstate = 0 THEN 0 ELSE Offset(TS)
        /\ once.head = IF addrs.head = 0 THEN 0 ELSE Offset(InterpHead)
        /\ once.head_fn = IF addrs.head_fn = 0 THEN 0 ELSE Offset(HeadFn)
    <3>1. /\ once \in [tstate : Int, head : Int, head_fn : Int]
          /\ once.tstate = IF addrs.tstate = 0 THEN 0 ELSE addrs.tstate + -Elf.base
          /\ once.head = IF addrs.head = 0 THEN 0 ELSE addrs.head + -Elf.base
          /\ once.head_fn = IF addrs.head_fn = 0 THEN 0 ELSE addrs.head_fn + -Elf.base
      BY <1>1, <1>2, ShiftFacts
    <3> HIDE DEF once
    <3> QED BY <1>2, <1>3, <1>4, <3>1
  <2>2. /\ twice \in [tstate : Int, head : Int, head_fn : Int]
        /\ twice.tstate = IF once.tstate = 0 THEN 0 ELSE once.tstate + Located
        /\ twice.head = IF once.head = 0 THEN 0 ELSE once.head + Located
        /\ twice.head_fn = IF once.head_fn = 0 THEN 0 ELSE once.head_fn + Located
    <3>1. once \in [tstate : Int, head : Int, head_fn : Int] /\ Located \in Int
      BY <1>2, <2>1
    <3> HIDE DEF once
    <3> QED BY <3>1, ShiftFacts
  <2> HIDE DEF once, twice
  <2>3. \A n : Place(Elf, n) = Located + Offset(n)
    BY <1>2, <1>5 DEF Place
  <2>4. /\ twice.tstate = IF addrs.tstate = 0 THEN 0 ELSE Place(Elf, TS)
        /\ twice.head = IF addrs.head = 0 THEN 0 ELSE Place(Elf, InterpHead)
        /\ twice.head_fn = IF addrs.head_fn = 0 THEN 0 ELSE Place(Elf, HeadFn)
        /\ addrs.tstate # 0 => twice.tstate # 0
        /\ addrs.head # 0 => twice.head # 0
        /\ addrs.head_fn # 0 => twice.head_fn # 0
    BY <1>2, <1>4, <2>1, <2>2, <2>3
  <2> QED BY <1>5, <2>2, <2>4 DEF once, twice
<1>6. CASE Elf.type # "dyn"
  BY <1>1, <1>2, <1>3, <1>4, <1>6 DEF Place
<1> QED BY <1>5, <1>6

----------------------------------------------------------------------------
(* The walk of one table.                                                  *)

\* After a symbol, what is noted is what the entries up to it show.
LEMMA WalkSymbolKeepsInv ==
  ASSUME Inv, WalkSymbol PROVE Inv'
<1> DEFINE name == Table[i + 1]
<1>1. /\ Walking /\ i < Len(Table) /\ addrs' = Noted(name) /\ process' = process /\ pc' = pc
      /\ i' \in {0, i + 1}
  BY DEF WalkSymbol, WalkOn
<1>2. /\ process \in Processes /\ addrs \in [tstate : Int, head : Int, head_fn : Int]
      /\ Table \in Seq(Names) /\ i \in 0..Len(Table)
  BY <1>1, ThisElf DEF Inv, TypeOK, Order
<1>3. /\ Walking' /\ Elf' = Elf /\ Table' = Table
      /\ \A n : Value(n)' = Value(n) /\ Shows(Elf, n)' = Shows(Elf, n)
  BY <1>1 DEF Walking, Elf, Table, Value, Shows, Has
<1>4. /\ addrs' \in [tstate : Int, head : Int, head_fn : Int]
      /\ addrs'.tstate = IF addrs.tstate = 0 /\ name = TS THEN Value(TS) ELSE addrs.tstate
      /\ addrs'.head = IF addrs.head = 0 /\ name = InterpHead THEN Value(InterpHead) ELSE addrs.head
      /\ addrs'.head_fn = IF addrs.head = 0 /\ name = HeadFn THEN Value(HeadFn)
                          ELSE addrs.head_fn
  BY <1>1, <1>2, NotedFacts
<1>5. i + 1 \in DOMAIN Table /\ name \in Names /\ i \in Nat
  BY <1>1, <1>2
<1>6. name = TS => Shows(Elf, TS)
  BY <1>5 DEF Table, Shows, Has
<1> HIDE DEF name
<1>7. TypeOK'
  <2>1. have_abi' \in BOOLEAN /\ abi' \in {"unknown"} \cup Versions
    BY DEF WalkSymbol, AbiBy, Versions, Inv, TypeOK
  <2>2. i' \in 0..Len(Table)
    BY <1>1, <1>2, <1>5
  <2> QED BY <1>1, <1>3, <1>4, <2>1, <2>2 DEF Inv, TypeOK
<1>8. Linked'
  BY <1>1, <1>3, <1>4, <1>6 DEF Inv, Linked
<1>9. Covering'
  <2>1. ASSUME Elf.defines
        PROVE  /\ addrs.tstate # 0 \/ name = TS => addrs'.tstate # 0
               /\ addrs.head # 0 \/ name = InterpHead => addrs'.head # 0
               /\ addrs.head # 0 \/ addrs.head_fn # 0 \/ name = HeadFn
                    => addrs'.head # 0 \/ addrs'.head_fn # 0
    BY <1>2, <1>4, <2>1, ValueFacts DEF TS, InterpHead, HeadFn
  <2>2. Covered(Table, i)'
    <3> SUFFICES ASSUME Elf.defines, NEW k \in 1..i'
                 PROVE  /\ Table[k] = TS => addrs'.tstate # 0
                        /\ Table[k] = InterpHead => addrs'.head # 0
                        /\ Table[k] = HeadFn => addrs'.head # 0 \/ addrs'.head_fn # 0
      BY <1>3 DEF Covered
    <3>1. CASE k = i + 1
      BY <2>1, <3>1 DEF name
    <3>2. CASE k # i + 1
      <4>1. k \in 1..i
        BY <1>1, <1>5, <3>2
      <4> QED BY <1>1, <2>1, <4>1 DEF Inv, Covering, Covered
    <3> QED BY <3>1, <3>2
  <2>3. pc \in {"exe_sym", "lib_sym"} => Covered(Elf.dyn, Len(Elf.dyn))'
    BY <1>1, <1>3, <2>1 DEF Inv, Covering, Covered
  <2> QED BY <1>1, <2>2, <2>3 DEF Covering
<1>10. Order' /\ Placed'
  BY <1>1 DEF Walking, Order, Placed, Inv, HasIt, HasInterpreter, Shows, Has
<1> QED BY <1>7, <1>8, <1>9, <1>10 DEF Inv

\* A walk that stops early has found everything.
LEMMA TableCovered ==
  ASSUME Inv, Walking, ~WalkOn
  PROVE  Covered(Table, Len(Table))
<1>1. CASE i = Len(Table)
  BY <1>1 DEF Inv, Covering
<1>2. CASE Break
  BY <1>2 DEF Break, Covered
<1>3. i \in 0..Len(Table) /\ Len(Table) \in Nat
  BY ThisElf DEF Inv, TypeOK, Order
<1> QED BY <1>1, <1>2, <1>3 DEF WalkOn

\* When both tables are walked, what is noted is what the file shows.
LEMMA FileCovered ==
  ASSUME Inv, Walking, WalkedAll, Elf.defines
  PROVE  /\ Shows(Elf, TS) <=> addrs.tstate # 0
         /\ Shows(Elf, InterpHead) => addrs.head # 0
         /\ Shows(Elf, HeadFn) => addrs.head # 0 \/ addrs.head_fn # 0
<1>1. Elf.dyn \in Seq(Names) /\ Elf.sym \in Seq(Names)
  BY ThisElf DEF Inv, Order
<1>2. Covered(Table, Len(Table))
  BY TableCovered DEF WalkedAll
<1>3. Covered(Elf.dyn, Len(Elf.dyn))
  BY <1>2 DEF Walking, Table, Inv, Covering
<1>4. Covered(Elf.sym, Len(Elf.sym))
  <2>1. CASE Elf.sym = <<>>
    BY <2>1 DEF Covered
  <2>2. CASE pc \in {"exe_sym", "lib_sym"}
    BY <1>2, <2>2 DEF Table
  <2> QED BY <2>1, <2>2 DEF WalkedAll
<1>5. \A n : Shows(Elf, n) => \/ \E k \in 1..Len(Elf.dyn) : Elf.dyn[k] = n
                              \/ \E k \in 1..Len(Elf.sym) : Elf.sym[k] = n
  BY <1>1 DEF Shows, Has
<1>6. addrs.tstate # 0 => Shows(Elf, TS)
  BY DEF Inv, Linked
<1> QED BY <1>3, <1>4, <1>5, <1>6 DEF Covered

----------------------------------------------------------------------------
(* From one table, or one file, to the next.                               *)

\* The second table starts with what the first has left.
LEMMA WalkSymtabKeepsInv ==
  ASSUME Inv, WalkSymtab PROVE Inv'
<1>1. /\ Walking /\ ~WalkOn /\ pc \in {"exe_dyn", "lib_dyn"}
      /\ pc' = IF pc = "exe_dyn" THEN "exe_sym" ELSE "lib_sym"
      /\ i' = 0 /\ have_abi' = FALSE /\ abi' = "unknown"
      /\ process' = process /\ addrs' = addrs
  BY DEF WalkSymtab, NextTable, Walking
<1>2. /\ Walking' /\ Elf' = Elf
      /\ \A n : Value(n)' = Value(n) /\ Shows(Elf, n)' = Shows(Elf, n)
  BY <1>1 DEF Walking, Elf, Value, Shows, Has
<1>3. Table' \in Seq(Names)
  <2>1. Table' = Elf.sym
    BY <1>1, <1>2 DEF Table
  <2> QED BY <2>1, ThisElf DEF Inv, Order
<1>4. TypeOK'
  <2>1. i' \in 0..Len(Table)'
    BY <1>1, <1>3
  <2>2. pc' \in {"exe_sym", "lib_sym"}
    BY <1>1
  <2> QED BY <1>1, <2>1, <2>2 DEF Inv, TypeOK
<1>5. Covering'
  <2>1. Covered(Elf.dyn, Len(Elf.dyn))
    BY <1>1, TableCovered DEF Table
  <2> QED BY <1>1, <1>2, <2>1 DEF Covering, Covered
<1>6. Linked' /\ Order' /\ Placed'
  BY <1>1, <1>2 DEF Inv, Linked, Order, Placed, HasIt, HasInterpreter, Shows, Has
<1> QED BY <1>4, <1>5, <1>6 DEF Inv

\* The addresses that an interpreter has been found at.
LEMMA FoundKeepsInv ==
  ASSUME Inv, Walking, WalkedAll, addrs.tstate # 0, process' = process,
         pc' = "located", UNCHANGED <<i, have_abi, abi>>,
         addrs' = IF Elf.type = "dyn" THEN Shift(Shift(addrs, -Elf.base), Located) ELSE addrs
  PROVE  Inv'
<1>1. process \in Processes
  BY DEF Inv, Order
<1>2. Elf.defines
  BY <1>1, ValueFacts DEF Inv, Linked
<1>3. /\ Shows(Elf, TS)
      /\ Shows(Elf, InterpHead) => addrs.head # 0
      /\ Shows(Elf, HeadFn) => addrs.head # 0 \/ addrs.head_fn # 0
  BY <1>2, FileCovered
<1>4. Elf = Home(process)
  <2>1. CASE pc \in {"exe_dyn", "exe_sym"}
    BY <1>2, <1>3, <2>1 DEF Elf, Home, TS
  <2>2. CASE pc \in {"lib_dyn", "lib_sym"}
    BY <2>2 DEF Elf, Home, TS, Inv, Order, HasIt
  <2> QED BY <2>1, <2>2 DEF Walking
<1>5. /\ addrs' \in [tstate : Int, head : Int, head_fn : Int]
      /\ addrs'.tstate = Place(Elf, TS)
      /\ addrs'.head \in {0, Place(Elf, InterpHead)} /\ addrs'.head_fn \in {0, Place(Elf, HeadFn)}
      /\ addrs.head # 0 => addrs'.head # 0
      /\ addrs.head_fn # 0 => addrs'.head_fn # 0
  BY RelocatedFacts
<1>6. LET elf == Home(process)
      IN  /\ addrs'.tstate = Place(elf, TS)
          /\ addrs'.head \in {0, Place(elf, InterpHead)} /\ addrs'.head_fn \in {0, Place(elf, HeadFn)}
          /\ Shows(elf, InterpHead) => addrs'.head # 0
          /\ Shows(elf, HeadFn) => addrs'.head # 0 \/ addrs'.head_fn # 0
  BY <1>3, <1>4, <1>5, RelocatedFacts
<1>7. Placed'
  BY <1>6 DEF Placed, Place, Home, Shows, Has, Offset
<1> QED BY <1>1, <1>5, <1>7 DEF Inv, TypeOK, Walking, Order, Linked, Covering

\* The executable has it.
LEMMA FoundInExeKeepsInv ==
  ASSUME Inv, FoundInExe PROVE Inv'
  BY FoundKeepsInv DEF FoundInExe, Relocated, Unbased, Walking

\* A file without an address of the thread state has no interpreter.
LEMMA NotInElf ==
  ASSUME Inv, Walking, WalkedAll, addrs.tstate = 0
  PROVE  ~HasIt(Elf)
  BY FileCovered DEF HasIt

\* The executable has not got it: the library starts from nothing.
LEMMA TryLibKeepsInv ==
  ASSUME Inv, TryLib PROVE Inv'
<1>1. process' = process /\ process \in Processes /\ ~HasIt(process.exe)
  BY NotInElf DEF TryLib, Inv, Order, Elf, Walking
<1>2. CASE process.link # "none" /\ process.mapped
  <2>1. /\ pc' = "lib_dyn" /\ i' = 0 /\ have_abi' = FALSE /\ abi' = "unknown"
        /\ addrs' = Nowhere
    BY <1>2 DEF TryLib, NextTable
  <2>2. Table' \in Seq(Names) /\ Walking'
    <3>1. Table' = process.lib.dyn
      BY <1>1, <2>1 DEF Table, Elf
    <3> QED BY <1>1, <2>1, <3>1, ElfFacts DEF Walking
  <2>3. i' \in 0..Len(Table)'
    BY <2>1, <2>2
  <2>4. TypeOK' /\ Linked'
    <3>1. /\ addrs' \in [tstate : Int, head : Int, head_fn : Int]
          /\ addrs'.tstate = 0 /\ addrs'.head = 0 /\ addrs'.head_fn = 0
      BY <2>1 DEF Nowhere
    <3>2. TypeOK'
      BY <2>1, <2>3, <3>1 DEF TypeOK
    <3> QED BY <3>1, <3>2 DEF Linked
  <2>5. Covering'
    BY <2>1 DEF Covering, Covered
  <2>6. Order' /\ Placed'
    BY <1>1, <1>2, <2>1 DEF Order, Placed, HasIt, Shows, Has
  <2> QED BY <2>4, <2>5, <2>6 DEF Inv
<1>3. CASE ~(process.link # "none" /\ process.mapped)
  <2>1. pc' = "retry" /\ UNCHANGED <<i, have_abi, abi, addrs>>
    BY <1>3 DEF TryLib
  <2>2. ~HasInterpreter(process)
    BY <1>1, <1>3 DEF HasInterpreter, HasIt, TS
  <2> QED BY <1>1, <2>1, <2>2 DEF Inv, TypeOK, Walking, Order, Linked, Covering, Placed,
                                  HasInterpreter, Shows, Has
<1> QED BY <1>2, <1>3

\* The library has it, or nobody.
LEMMA EndOfLibKeepsInv ==
  ASSUME Inv, EndOfLib PROVE Inv'
<1>1. CASE addrs.tstate = 0
  <2>1. /\ process' = process /\ process \in Processes /\ pc' = "retry"
        /\ UNCHANGED <<i, have_abi, abi, addrs>>
    BY <1>1 DEF EndOfLib, Inv, Order
  <2>2. ~HasIt(process.lib) /\ ~HasIt(process.exe)
    BY <1>1, NotInElf DEF EndOfLib, Inv, Order, Elf, Walking
  <2>3. ~HasInterpreter(process)
    BY <2>2 DEF HasInterpreter, HasIt, TS
  <2> QED BY <2>1, <2>3 DEF Inv, TypeOK, Walking, Order, Linked, Covering, Placed,
                            HasInterpreter, Shows, Has
<1>2. CASE addrs.tstate # 0
  <2>1. Elf.type = "dyn"
    BY DEF EndOfLib, Elf, Inv, Order
  <2> QED BY <1>2, <2>1, FoundKeepsInv DEF EndOfLib, Walking, Unbased
<1> QED BY <1>1, <1>2

\* The addresses stay what they are.
LEMMA DetectABIKeepsInv ==
  ASSUME Inv, DetectABI PROVE Inv'
<1>1. /\ pc = "located" /\ pc' \in {"found", "fatal"} /\ UNCHANGED <<process, i, have_abi, addrs>>
      /\ abi' \in {abi, process.abi_opt}
  BY DEF DetectABI
<1>2. abi' \in {"unknown"} \cup Versions
  BY <1>1, ElfFacts DEF Inv, TypeOK, Order
<1> QED
  BY <1>1, <1>2 DEF Inv, TypeOK, Walking, Order, Linked, Covering, Placed, Place, Home, Shows, Has

\* A step that changes nothing keeps the invariant.
LEMMA StutterKeepsInv ==
  ASSUME Inv, UNCHANGED vars PROVE Inv'
<1>1. /\ process' = process /\ pc' = pc /\ i' = i /\ have_abi' = have_abi /\ abi' = abi
      /\ addrs' = addrs
  BY DEF vars
<1>2. /\ Walking' = Walking /\ Elf' = Elf /\ Table' = Table
      /\ \A n : Value(n)' = Value(n) /\ Shows(Elf, n)' = Shows(Elf, n)
  BY <1>1 DEF Walking, Elf, Table, Value, Shows, Has
<1> QED
  BY <1>1, <1>2 DEF Inv, TypeOK, Order, Linked, Covering, Covered, Placed, Place, Home, HasIt,
                    HasInterpreter, Shows, Has

\* Nothing is walked, and nothing noted.
LEMMA InitEstablishesInv ==
  Init => Inv
<1> SUFFICES ASSUME Init PROVE Inv
  OBVIOUS
<1>1. /\ process \in Processes /\ pc = "exe_dyn" /\ i = 0 /\ have_abi = FALSE /\ abi = "unknown"
      /\ addrs = Nowhere
  BY DEF Init
<1>2. Table \in Seq(Names) /\ Walking
  BY <1>1, ThisElf DEF Walking
<1>3. i \in 0..Len(Table)
  BY <1>1, <1>2
<1>4. /\ addrs \in [tstate : Int, head : Int, head_fn : Int]
      /\ addrs.tstate = 0 /\ addrs.head = 0 /\ addrs.head_fn = 0
  BY <1>1 DEF Nowhere
<1>5. TypeOK
  BY <1>1, <1>3, <1>4 DEF TypeOK
<1>6. Covering
  BY <1>1 DEF Covering, Covered
<1> QED BY <1>1, <1>4, <1>5, <1>6 DEF Inv, Order, Linked, Placed

\* What is noted of a file is what its entries walked so far show, in any
\* order, and what is located is where the loader put it.
THEOREM SpecKeepsInv == Spec => []Inv
<1>1. Init => Inv
  BY InitEstablishesInv
<1>2. Inv /\ [Next]_vars => Inv'
  <2> SUFFICES ASSUME Inv, [Next]_vars PROVE Inv'
    OBVIOUS
  <2>1. CASE WalkSymbol
    BY <2>1, WalkSymbolKeepsInv
  <2>2. CASE WalkSymtab
    BY <2>2, WalkSymtabKeepsInv
  <2>3. CASE FoundInExe
    BY <2>3, FoundInExeKeepsInv
  <2>4. CASE TryLib
    BY <2>4, TryLibKeepsInv
  <2>5. CASE EndOfLib
    BY <2>5, EndOfLibKeepsInv
  <2>6. CASE DetectABI
    BY <2>6, DetectABIKeepsInv
  <2>7. CASE Terminated \/ UNCHANGED vars
    BY <2>7, StutterKeepsInv DEF Terminated
  <2> QED BY <2>1, <2>2, <2>3, <2>4, <2>5, <2>6, <2>7 DEF Next, Step
<1> QED BY <1>1, <1>2, PTL DEF Spec

\* Every variable of the search keeps its type: the counter stays inside the
\* table.
THEOREM TypeCorrect == Spec => []TypeOK
<1>1. Inv => TypeOK
  BY DEF Inv
<1> QED BY <1>1, SpecKeepsInv, PTL

\* The addresses that are used are those the loader put python's state at.
THEOREM AddressesAreRight == Spec => []AddressesRight
<1>1. Inv => AddressesRight
  <2> SUFFICES ASSUME Inv, pc = "found",
                      Home(process).type = "dyn" => Home(process).text = 0
               PROVE  LET elf == Home(process)
                      IN  /\ addrs.tstate = Address(elf, TS)
                          /\ addrs.head \in {0, Address(elf, InterpHead)}
                          /\ addrs.head_fn \in {0, Address(elf, HeadFn)}
    BY DEF AddressesRight, TS, InterpHead, HeadFn
  <2>1. Home(process) \in {process.exe, process.lib}
    BY DEF Home
  <2>2. Home(process).at \in Nat \ {0}
    BY <2>1, ElfFacts DEF Inv, Order
  <2>3. \A name : Place(Home(process), name) = Address(Home(process), name)
    BY <2>2 DEF Place, Address
  <2> QED BY <2>3 DEF Inv, Placed
<1> QED BY <1>1, SpecKeepsInv, PTL

----------------------------------------------------------------------------
(* The version.  A second walk decides it anew, so that it is right only   *)
(* for a file whose last table shows what the file shows, of one version.  *)

Py2 == "PyString_Type"
Py3 == "PyBytes_Type"
Py36 == "_PyCode_GetExtra"

In(table, name) == \E k \in 1..Len(table) : table[k] = name
LastTable(elf) == IF elf.sym = <<>> THEN elf.dyn ELSE elf.sym
OneVersion(elf) ==
  /\ \A mark \in {Py2, Py3, Py36} : Shows(elf, mark) => In(LastTable(elf), mark)
  /\ ~(Shows(elf, Py2) /\ Shows(elf, Py36))

\* What the walk of a table has made of it.
Deciding ==
  /\ pc \in {"exe_sym", "lib_sym"} => Elf.sym # <<>>
  /\ Walking /\ have_abi => \/ abi = "py26" /\ In(Table, Py2)
                            \/ abi = "py36" /\ In(Table, Py36)
  /\ Walking /\ ~have_abi =>
       /\ abi \in {"unknown", "py34"} /\ (abi = "py34" => In(Table, Py3))
       /\ \A k \in 1..i : /\ Table[k] # Py2 /\ Table[k] # Py36
                          /\ Table[k] = Py3 => abi = "py34"
Decided ==
  /\ pc = "located" => (OneVersion(Home(process)) => abi = Version(Home(process)))
  /\ pc \in {"found", "fatal"} => (OneVersion(Home(process)) => abi = Wanted(process))
  /\ pc = "fatal" => abi \notin Supported

AbiInv == Inv /\ Deciding /\ Decided

\* A symbol decides the version, or leaves it to those that follow.
LEMMA WalkSymbolDecides ==
  ASSUME AbiInv, WalkSymbol PROVE Deciding' /\ Decided'
<1> DEFINE name == Table[i + 1]
<1>1. /\ Walking /\ i < Len(Table) /\ process' = process /\ pc' = pc
      /\ i' \in {0, i + 1} /\ have_abi' = (have_abi \/ name \in Decides)
      /\ abi' = AbiBy(name)
  BY DEF WalkSymbol, WalkOn
<1>2. /\ Table \in Seq(Names) /\ i \in 0..Len(Table) /\ have_abi \in BOOLEAN
  BY <1>1, ThisElf DEF AbiInv, Inv, TypeOK, Order
<1>3. Walking' /\ Elf' = Elf /\ Table' = Table
  BY <1>1 DEF Walking, Elf, Table
<1>4. i + 1 \in 1..Len(Table) /\ i \in Nat
  BY <1>1, <1>2
<1>5. In(Table, name)
  BY <1>4 DEF In
<1> HIDE DEF name
<1>6. CASE have_abi
  <2>1. abi' = abi /\ have_abi'
    BY <1>1, <1>6 DEF AbiBy
  <2> QED BY <1>1, <1>3, <1>6, <2>1 DEF AbiInv, Deciding, Decided, Walking
<1>7. CASE ~have_abi /\ name \in Decides
  <2>1. have_abi' /\ ((abi' = "py26" /\ name = Py2) \/ (abi' = "py36" /\ name = Py36))
    BY <1>1, <1>7 DEF AbiBy, Decides, Py2, Py36
  <2> QED BY <1>1, <1>3, <1>5, <2>1 DEF AbiInv, Deciding, Decided, Walking
<1>8. CASE ~have_abi /\ name \notin Decides
  <2>1. /\ ~have_abi' /\ name # Py2 /\ name # Py36
        /\ name = Py3 => abi' = "py34"
        /\ name # Py3 => abi' = abi
    BY <1>1, <1>8 DEF AbiBy, Decides, Py2, Py3, Py36
  <2>2. /\ abi' \in {"unknown", "py34"} /\ (abi' = "py34" => In(Table, Py3))
        /\ abi = "py34" => abi' = "py34"
    BY <1>1, <1>5, <1>8, <2>1 DEF AbiInv, Deciding
  <2>3. ASSUME NEW k \in 1..i'
        PROVE  Table[k] # Py2 /\ Table[k] # Py36 /\ (Table[k] = Py3 => abi' = "py34")
    <3>1. CASE k = i + 1
      BY <2>1, <3>1 DEF name
    <3>2. CASE k # i + 1
      <4>1. k \in 1..i
        BY <1>1, <1>4, <3>2
      <4> QED BY <1>1, <1>8, <2>2, <4>1 DEF AbiInv, Deciding
    <3> QED BY <3>1, <3>2
  <2> QED BY <1>1, <1>3, <2>1, <2>2, <2>3 DEF AbiInv, Deciding, Decided, Walking
<1> QED BY <1>2, <1>6, <1>7, <1>8

\* At the end of the last table the version is the file's.
LEMMA FileDecided ==
  ASSUME AbiInv, Walking, WalkedAll, OneVersion(Elf)
  PROVE  abi = Version(Elf)
<1>1. Elf.dyn \in Seq(Names) /\ Elf.sym \in Seq(Names)
  BY ThisElf DEF AbiInv, Inv, Order
<1>2. Table = LastTable(Elf)
  BY DEF WalkedAll, AbiInv, Deciding, Walking, Table, LastTable
<1>3. \A mark : In(Table, mark) => Shows(Elf, mark)
  BY <1>1, <1>2 DEF LastTable, In, Shows, Has
<1>4. CASE have_abi
  BY <1>3, <1>4 DEF AbiInv, Deciding, OneVersion, Version, Py2, Py36
<1>5. CASE ~have_abi
  <2>1. i = Len(Table)
    BY <1>5, ThisElf DEF WalkedAll, WalkOn, Break, AbiInv, Inv, TypeOK, Order
  <2>2. ~In(Table, Py2) /\ ~In(Table, Py36)
    BY <1>5, <2>1 DEF AbiInv, Deciding, In
  <2>3. IF In(Table, Py3) THEN abi = "py34" ELSE abi = "unknown"
    BY <1>5, <2>1 DEF AbiInv, Deciding, In
  <2>4. \A mark \in {Py2, Py3, Py36} : Shows(Elf, mark) <=> In(Table, mark)
    BY <1>2, <1>3 DEF OneVersion
  <2> QED BY <2>2, <2>3, <2>4 DEF Version, Py2, Py3, Py36
<1> QED BY <1>4, <1>5 DEF AbiInv, Inv, TypeOK

\* Every step keeps the version to what was walked.
LEMMA StepDecides ==
  ASSUME AbiInv, [Next]_vars PROVE Deciding' /\ Decided'
<1>1. CASE WalkSymbol
  BY <1>1, WalkSymbolDecides
<1>2. CASE WalkSymtab
  <2>1. /\ pc \in {"exe_dyn", "lib_dyn"} /\ Elf.sym # <<>> /\ process' = process
        /\ pc' = (IF pc = "exe_dyn" THEN "exe_sym" ELSE "lib_sym")
        /\ i' = 0 /\ have_abi' = FALSE /\ abi' = "unknown"
    BY <1>2 DEF WalkSymtab, NextTable
  <2>2. Elf' = Elf
    BY <2>1 DEF Elf
  <2> QED BY <2>1, <2>2 DEF Deciding, Decided
<1>3. CASE TryLib
  <2>1. CASE pc' = "lib_dyn" /\ i' = 0 /\ have_abi' = FALSE /\ abi' = "unknown"
    BY <2>1 DEF Deciding, Decided
  <2>2. CASE pc' = "retry"
    BY <2>2 DEF Deciding, Decided, Walking
  <2> QED BY <1>3, <2>1, <2>2 DEF TryLib, NextTable
<1>4. CASE EndOfLib /\ addrs.tstate = 0
  BY <1>4 DEF EndOfLib, Deciding, Decided, Walking
<1>5. CASE FoundInExe \/ (EndOfLib /\ addrs.tstate # 0)
  <2>1. /\ Walking /\ WalkedAll /\ addrs.tstate # 0
        /\ pc' = "located" /\ process' = process /\ abi' = abi
    BY <1>5 DEF FoundInExe, EndOfLib, Walking
  <2>2. HasIt(Elf)
    BY <2>1, ValueFacts DEF AbiInv, Inv, Order, Linked, HasIt
  <2>3. Elf = Home(process)
    <3>1. CASE pc \in {"exe_dyn", "exe_sym"}
      BY <2>2, <3>1 DEF Elf, Home, HasIt, TS
    <3>2. CASE pc \in {"lib_dyn", "lib_sym"}
      BY <3>2 DEF Elf, Home, TS, AbiInv, Inv, Order, HasIt
    <3> QED BY <2>1, <3>1, <3>2 DEF Walking
  <2>4. OneVersion(Elf) => abi = Version(Elf)
    BY <2>1, FileDecided
  <2>5. OneVersion(Home(process'))  => abi' = Version(Home(process'))
    BY <2>1, <2>3, <2>4
  <2> QED BY <2>1, <2>5 DEF Deciding, Decided, Walking, Home, OneVersion, Version, Shows, Has
<1>6. CASE DetectABI
  <2>1. /\ pc = "located" /\ process' = process
        /\ abi' = (IF process.abi_opt = "unknown" THEN abi ELSE process.abi_opt)
        /\ pc' = (IF abi' \in Supported THEN "found" ELSE "fatal")
    BY <1>6 DEF DetectABI
  <2>2. OneVersion(Home(process)) => abi' = Wanted(process)
    BY <2>1 DEF AbiInv, Decided, Wanted
  <2>3. OneVersion(Home(process')) => abi' = Wanted(process')
    BY <2>1, <2>2
  <2> QED
    BY <2>1, <2>3 DEF Deciding, Decided, Walking, Wanted, Home, OneVersion, Version, Shows, Has
<1>7. CASE Terminated \/ UNCHANGED vars
  <2>1. /\ process' = process /\ pc' = pc /\ i' = i /\ have_abi' = have_abi /\ abi' = abi
        /\ Elf' = Elf /\ Table' = Table /\ Walking' = Walking
    BY <1>7 DEF Terminated, vars, Elf, Table, Walking
  <2>2. Deciding'
    BY <2>1 DEF AbiInv, Deciding, In
  <2>3. Home(process)' = Home(process) /\ Wanted(process)' = Wanted(process)
        /\ OneVersion(Home(process))' = OneVersion(Home(process))
        /\ Version(Home(process))' = Version(Home(process))
    BY <2>1
  <2> QED BY <2>1, <2>2, <2>3 DEF AbiInv, Decided
<1> QED BY <1>1, <1>2, <1>3, <1>4, <1>5, <1>6, <1>7 DEF Next, Step

\* The version so far is that of the entries of the table walked so far.
THEOREM SpecDecides == Spec => []AbiInv
<1>1. Init => Deciding /\ Decided
  BY DEF Init, Deciding, Decided, Walking
<1>2. AbiInv /\ [Next]_vars => Deciding' /\ Decided'
  BY StepDecides
<1> QED BY <1>1, <1>2, SpecKeepsInv, PTL DEF Spec, AbiInv

\* The version is that of the interpreter found, or the one asked for.
THEOREM AbiIsRight ==
  ASSUME \A p \in Processes : OneVersion(Home(p))
  PROVE  Spec => []AbiRight
<1>1. AbiInv => AbiRight
  BY DEF AbiInv, Inv, Order, Decided, AbiRight
<1> QED BY <1>1, SpecDecides, PTL

\* An interpreter that is mapped is found, with the list of its thread states,
\* unless this pyflame is not built for its version.
THEOREM FoundIfItIsThere ==
  ASSUME \A p \in Processes : OneVersion(Home(p))
  PROVE  Spec => []FoundIfThere
<1>1. AbiInv => FoundIfThere
  <2> SUFFICES ASSUME AbiInv PROVE FoundIfThere
    OBVIOUS
  <2>1. pc = "retry" => ~HasInterpreter(process)
    BY DEF AbiInv, Inv, Order
  <2>2. pc = "fatal" => Wanted(process) \notin Supported
    BY DEF AbiInv, Inv, Order, Decided
  <2> QED BY <2>1, <2>2 DEF AbiInv, Inv, Placed, FoundIfThere, InterpHead, HeadFn
<1> QED BY <1>1, SpecDecides, PTL
=============================================================================
