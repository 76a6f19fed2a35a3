------------------------------ MODULE Symbols ------------------------------
(***************************************************************************)
(* Where in a process python keeps its state: WalkTable and GetAddresses   *)
(* of symbol.cc, LocateLibPython of aslr.cc, Addrs and DetectABI of        *)
(* pyfrob.cc.  One symbol of an ELF symbol table is a step.                *)
(*                                                                         *)
(* An address is an offset into the file's image; the linker adds the      *)
(* vaddr of the first PT_LOAD to it, the loader the place it maps it at.   *)
(*                                                                         *)
(* Where two definitions stand together, the last one is the code; those   *)
(* before it are the slips that a property below must catch.               *)
(***************************************************************************)
EXTENDS Integers, Sequences

CONSTANTS
  Processes,  \* the targets: see ProcessSet
  Supported,  \* build_abis: the versions this pyflame is built for
  IndexSize   \* values of WalkTable's loop counter, a uint16_t: 65536 in the code

Names == {"_PyThreadState_Current", "interp_head", "PyInterpreterState_Head",
          "PyString_Type", "PyBytes_Type", "_PyCode_GetExtra", "other"}

\* dyn, sym: .dynsym and .symtab, <<>> if there is none.  defines: it defines
\* these symbols, it does not import them.  type: e_type.  base: p_vaddr of
\* the first PT_LOAD.  text: how far behind it the first executable segment
\* is.  at: where the first PT_LOAD is mapped.
ElfSet ==
  [dyn : Seq(Names), sym : Seq(Names), defines : BOOLEAN,
   type : {"exec", "dyn"}, base : Nat, text : Nat, at : Nat \ {0}]

\* lib: the libpython it needs, or the libpython2.7.so it opens with dlopen,
\* which ld.so loads only if it is a shared object; mapped: ld.so is done
\* with it.  abi_opt: the version --abi asks for.
Versions == {"py26", "py34", "py36"}
ProcessSet ==
  [exe : ElfSet, lib : ElfSet, link : {"none", "needed", "dlopen"}, mapped : BOOLEAN,
   abi_opt : {"unknown"} \cup Versions]

ASSUME SymbolsAssumption ==
  /\ IndexSize \in Nat \ {0} /\ Supported \subseteq Versions
  /\ \A p \in Processes :
       p \in ProcessSet /\ (p.link # "none" => p.lib.type = "dyn")

VARIABLES
  process,
  pc,        \* the table being walked, then the outcome
  i,         \* its loop counter
  have_abi, abi,
  addrs      \* the addresses found in this file

vars == <<process, pc, i, have_abi, abi, addrs>>

Offset(name) ==
  CASE name = "_PyThreadState_Current"  -> 1
    [] name = "interp_head"             -> 2
    [] name = "PyInterpreterState_Head" -> 3
    [] OTHER                            -> 4

Nowhere == [tstate |-> 0, head |-> 0, head_fn |-> 0]

Elf   == IF pc \in {"exe_dyn", "exe_sym"} THEN process.exe ELSE process.lib
Table == IF pc \in {"exe_dyn", "lib_dyn"} THEN Elf.dyn ELSE Elf.sym
Value(name) == IF Elf.defines THEN Elf.base + Offset(name) ELSE 0

Walking == pc \in {"exe_dyn", "exe_sym", "lib_dyn", "lib_sym"}

TypeOK ==
  /\ pc \in {"exe_dyn", "exe_sym", "lib_dyn", "lib_sym", "located", "found", "retry", "fatal"}
  /\ Walking => i \in 0..Len(Table)
  /\ have_abi \in BOOLEAN /\ abi \in {"unknown"} \cup Versions
  /\ addrs \in [tstate : Int, head : Int, head_fn : Int]

Init ==
  /\ process \in Processes
  /\ pc = "exe_dyn" /\ i = 0 /\ have_abi = FALSE /\ abi = "unknown"
  /\ addrs = Nowhere

----------------------------------------------------------------------------
(* WalkTable.                                                              *)

\* The address of a symbol is taken if it is wanted.
Noted(name) ==
  IF addrs.tstate = 0 /\ name = "_PyThreadState_Current"
  THEN [addrs EXCEPT !.tstate = Value(name)]
  ELSE IF addrs.head = 0 /\ name = "interp_head"
  THEN [addrs EXCEPT !.head = Value(name)]
  ELSE IF addrs.head = 0 /\ name = "PyInterpreterState_Head"
  THEN [addrs EXCEPT !.head_fn = Value(name)]
  ELSE addrs

\* PyBytes_Type makes it a Python 3, unless a symbol of 3.6 comes later.
DecidesAll == {"PyString_Type", "PyBytes_Type", "_PyCode_GetExtra"}
Decides == {"PyString_Type", "_PyCode_GetExtra"}
AbiBy(name) ==
  CASE have_abi -> abi
    [] ~have_abi /\ name = "PyString_Type"    -> "py26"
    [] ~have_abi /\ name = "PyBytes_Type"     -> "py34"
    [] ~have_abi /\ name = "_PyCode_GetExtra" -> "py36"
    [] OTHER -> abi

BreakEarly == have_abi /\ addrs.tstate # 0
Break == have_abi /\ addrs.tstate # 0 /\ addrs.head # 0 /\ addrs.head_fn # 0

WalkOn == i < Len(Table) /\ ~Break

WalkSymbolNarrow ==
  /\ Walking /\ WalkOn
  /\ LET name == Table[i + 1]
     IN  /\ addrs' = Noted(name)
         /\ abi' = AbiBy(name)
         /\ have_abi' = (have_abi \/ name \in Decides)
  /\ i' = (IF 2 * (i + 1) = IndexSize THEN 0 ELSE i + 1)
  /\ UNCHANGED <<process, pc>>
WalkSymbol ==
  /\ Walking /\ WalkOn
  /\ LET name == Table[i + 1]
     IN  /\ addrs' = Noted(name)
         /\ abi' = AbiBy(name)
         /\ have_abi' = (have_abi \/ name \in Decides)
  /\ i' = (IF i + 1 = IndexSize THEN 0 ELSE i + 1)
  /\ UNCHANGED <<process, pc>>

----------------------------------------------------------------------------
(* GetAddresses and Addrs.                                                 *)

\* .symtab is walked after .dynsym, for what is still missing, and decides
\* the ABI anew.
NextTableOn(table) ==
  /\ pc' = table /\ have_abi' = FALSE /\ abi' = "unknown" /\ UNCHANGED i
NextTable(table) ==
  /\ pc' = table /\ i' = 0 /\ have_abi' = FALSE /\ abi' = "unknown"

WalkSymtab ==
  /\ pc \in {"exe_dyn", "lib_dyn"} /\ ~WalkOn /\ Elf.sym # <<>>
  /\ NextTable(IF pc = "exe_dyn" THEN "exe_sym" ELSE "lib_sym")
  /\ UNCHANGED <<process, addrs>>

WalkedAll == ~WalkOn /\ (pc \in {"exe_sym", "lib_sym"} \/ Elf.sym = <<>>)

Shift(a, n) == [field \in DOMAIN a |-> IF a[field] = 0 THEN 0 ELSE a[field] + n]

\* LocateLibPython: the start of the first executable mapping of the file.
Located == Elf.at + Elf.text

\* GetAddresses: for prelinked shared objects.
Unbased == IF Elf.type = "dyn" THEN Shift(addrs, -Elf.base) ELSE addrs

RelocatedNot == addrs
Relocated == IF Elf.type = "dyn" THEN Shift(Unbased, Located) ELSE Unbased

FoundInExe ==
  /\ pc \in {"exe_dyn", "exe_sym"} /\ WalkedAll /\ addrs.tstate # 0
  /\ addrs' = Relocated /\ pc' = "located"
  /\ UNCHANGED <<process, i, have_abi, abi>>

\* The executable has not got it: a libpython it needs, or libpython2.7.so.
TryLib ==
  /\ pc \in {"exe_dyn", "exe_sym"} /\ WalkedAll /\ addrs.tstate = 0
  /\ IF process.link # "none" /\ process.mapped
     THEN NextTable("lib_dyn") /\ addrs' = Nowhere
     ELSE pc' = "retry" /\ UNCHANGED <<i, have_abi, abi, addrs>>
  /\ UNCHANGED process

EndOfLib ==
  /\ pc \in {"lib_dyn", "lib_sym"} /\ WalkedAll
  /\ pc' = (IF addrs.tstate # 0 THEN "located" ELSE "retry")
  /\ addrs' = (IF addrs.tstate # 0 THEN Shift(Unbased, Located) ELSE addrs)
  /\ UNCHANGED <<process, i, have_abi, abi>>

\* DetectABI: the version must be known, or given, and be one of this build.
DetectABI ==
  /\ pc = "located"
  /\ abi' = (IF process.abi_opt = "unknown" THEN abi ELSE process.abi_opt)
  /\ pc' = (IF abi' \in Supported THEN "found" ELSE "fatal")
  /\ UNCHANGED <<process, i, have_abi, addrs>>

Terminated == pc \in {"found", "retry", "fatal"} /\ UNCHANGED vars

Step == WalkSymbol \/ WalkSymtab \/ FoundInExe \/ TryLib \/ EndOfLib \/ DetectABI
Next == Step \/ Terminated

Spec == Init /\ [][Next]_vars
FairSpec == Spec /\ WF_vars(Step)

----------------------------------------------------------------------------
(* Properties.                                                             *)

Has(elf, name) == \E k \in DOMAIN elf.dyn : elf.dyn[k] = name
Shows(elf, name) ==
  Has(elf, name) \/ \E k \in DOMAIN elf.sym : elf.sym[k] = name

\* The file that has the interpreter, and its version, whatever the order in
\* which its tables name its symbols.
Home(p) == IF p.exe.defines /\ Shows(p.exe, "_PyThreadState_Current") THEN p.exe ELSE p.lib
Version(elf) ==
  IF Shows(elf, "PyString_Type") THEN "py26"
  ELSE IF Shows(elf, "_PyCode_GetExtra") THEN "py36"
  ELSE IF Shows(elf, "PyBytes_Type") THEN "py34" ELSE "unknown"

Wanted(p) == IF p.abi_opt = "unknown" THEN Version(Home(p)) ELSE p.abi_opt
AbiRight == pc = "found" => abi = Wanted(process)

Address(elf, name) ==
  (IF elf.type = "dyn" THEN elf.at ELSE elf.base) + Offset(name)

\* What is found is where the loader put it (LocateLibPython finds "its
\* offset for an ASLR process"), for a file whose first segment is its text:
\* those of another are missed by its Elf.text.
AddressesRight ==
  pc = "found" /\ (Home(process).type = "dyn" => Home(process).text = 0) =>
    LET elf == Home(process)
    IN  /\ addrs.tstate = Address(elf, "_PyThreadState_Current")
        /\ addrs.head \in {0, Address(elf, "interp_head")}
        /\ addrs.head_fn \in {0, Address(elf, "PyInterpreterState_Head")}

\* A process that has mapped an interpreter is not tried again, and is given
\* up only for a version that this build has not got; and the walk, which
\* stops early, misses nothing that --threads needs: the list of thread
\* states is found if the file shows a way to it.
HasInterpreter(p) ==
  \/ p.exe.defines /\ Shows(p.exe, "_PyThreadState_Current")
  \/ /\ p.mapped /\ p.link # "none" /\ p.lib.defines
     /\ Shows(p.lib, "_PyThreadState_Current")
FoundIfThere ==
  /\ pc = "retry" => ~HasInterpreter(process)
  /\ pc = "fatal" => Wanted(process) \notin Supported
  /\ pc = "found" =>
       LET elf == Home(process)
       IN  /\ Shows(elf, "interp_head") => addrs.head # 0
           /\ Shows(elf, "PyInterpreterState_Head") => addrs.head # 0 \/ addrs.head_fn # 0

\* The search ends, for a target that is not python as well (test_sample_
\* not_python expects "Failed to locate libpython"): if its tables have fewer
\* than IndexSize symbols.  The counter never gets to the end of a longer
\* one.
SearchEnds == <>(pc \in {"found", "retry", "fatal"})
=============================================================================
