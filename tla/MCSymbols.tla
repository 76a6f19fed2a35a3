----------------------------- MODULE MCSymbols -----------------------------
(* Instances of Symbols for TLC: interpreters of each version, with their  *)
(* symbols in every order; .symtab, where there is one, shows what .dynsym *)
(* shows and interp_head besides.                                          *)
EXTENDS Symbols, SequencesExt

Public == {"_PyThreadState_Current", "PyInterpreterState_Head"}
Marks == {{"PyString_Type"}, {"PyBytes_Type"}, {"PyBytes_Type", "_PyCode_GetExtra"}}

Image(dyn, sym, defines, type, base, text) ==
  [dyn |-> dyn, sym |-> sym, defines |-> defines, type |-> type, base |-> base,
   text |-> text, at |-> 100]

\* Interpreters, stripped or not, as an executable or a library.
Interpreters(types, texts) ==
  UNION {{Image(dyn, <<>>, TRUE, type, IF type = "exec" THEN 4 ELSE base, text) :
            dyn \in SetToSeqs(Public \cup marks)} \cup
         {Image(SetToSeq(Public \cup marks), sym, TRUE, type,
                IF type = "exec" THEN 4 ELSE base, text) :
            sym \in SetToSeqs(Public \cup marks \cup {"interp_head"})} :
         marks \in Marks, type \in types, base \in {0, 7}, text \in texts}

\* An executable that is no interpreter, but imports from one, or is another
\* program altogether.
Small == Image(<<"other", "PyString_Type">>, <<>>, FALSE, "exec", 4, 0)
Alien(n) == Image(<<"other">>, [k \in 1..n |-> "other"], TRUE, "exec", 4, 0)

Process(exe, lib, link, mapped, opt) ==
  [exe |-> exe, lib |-> lib, link |-> link, mapped |-> mapped, abi_opt |-> opt]

Python36 ==
  Image(<<"PyBytes_Type", "_PyThreadState_Current", "_PyCode_GetExtra">>, <<>>, TRUE, "exec", 4, 0)

MCProcesses ==
  {Process(exe, Small, "none", FALSE, "unknown") : exe \in Interpreters({"exec", "dyn"}, {0, 5})} \cup
  {Process(Small, lib, link, mapped, "unknown") :
     lib \in Interpreters({"dyn"}, {0, 5}), link \in {"needed", "dlopen"}, mapped \in BOOLEAN} \cup
  {Process(Python36, Small, "none", FALSE, opt) : opt \in Versions} \cup
  {Process(Alien(3), Small, "none", FALSE, "unknown"),
   Process(Alien(3), [Small EXCEPT !.type = "dyn"], "needed", TRUE, "py26")}
=============================================================================
