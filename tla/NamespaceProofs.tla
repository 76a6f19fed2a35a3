--------------------------- MODULE NamespaceProofs ---------------------------
(***************************************************************************)
(* Proofs about module Namespace, for every number of attempts and every   *)
(* size of the descriptor table.                                           *)
(***************************************************************************)
EXTENDS Namespace, TLAPS

USE NamespaceAssumption DEF NamespaceAssumption

----------------------------------------------------------------------------
(* The inductive invariant.                                                *)

\* Between the constructor and the destructor.
Inside == pc \in {"exe", "enter", "open", "leave", "map", "parse"}

\* The two descriptors lead home and to the target's namespace, or there are
\* none because that is home too.
Doors ==
  /\ pc \in {"lstat", "open_out", "run"} => out_ = -1 /\ in_ = -1
  /\ pc = "open_in" => out_ # -1 /\ fds[out_] = Ns("home") /\ in_ = -1
  /\ Inside => \/ in_ = -1 /\ out_ = -1 /\ theirs = "home"
               \/ /\ in_ # -1 /\ fds[in_] = Ns(theirs)
                  /\ out_ # -1 /\ fds[out_] = Ns("home")

\* pyflame is abroad only to open a file.
Whereabouts ==
  /\ pc \in {"open", "leave"} => at = theirs
  /\ pc \notin {"open", "leave", "done"} => at = "home"
  /\ kernel = "none" => theirs = "home"

InHand ==
  pc \in {"leave", "map"} /\ fd # -1 => fds[fd] = [what |-> "file", space |-> theirs]

\* The descriptors in use are accounted for.
Accounted ==
  pc # "done" /\ fds[0] = Std =>
    \A f \in Descriptors : \/ fds[f] \in {Free, Std} \/ f = out_ \/ f = in_
                           \/ f = fd /\ pc \in {"leave", "map"}

Unmapped == pc \in {"lstat", "open_out", "open_in", "run"} => maps = {}

Inv ==
  /\ TypeOK /\ Doors /\ Whereabouts /\ InHand /\ Accounted /\ Unmapped
  /\ OutputAtHome /\ FilesAreTheirs
  /\ pc \notin {"run", "done"} => tries < MaxTries

----------------------------------------------------------------------------
(* The descriptor table.                                                   *)

\* The kinds of entry of a descriptor table are told from each other.
LEMMA EntriesDiffer ==
  /\ Free \in EntrySet /\ Std \in EntrySet /\ Free # Std
  /\ \A s \in Spaces : /\ Ns(s) \in EntrySet /\ Ns(s) # Free /\ Ns(s) # Std
                       /\ Ns(s).space = s
                       /\ [what |-> "file", space |-> s] \in EntrySet
                       /\ \A t \in Spaces : [what |-> "file", space |-> s] # Ns(t)
                       /\ [what |-> "file", space |-> s] # Free
                       /\ [what |-> "file", space |-> s] # Std
                       /\ [what |-> "file", space |-> s].space = s
  BY DEF Free, Std, Ns, EntrySet, Spaces

\* open(2) changes one entry, which was free.
LEMMA OpensFacts ==
  ASSUME fds \in [Descriptors -> EntrySet], NEW f \in Descriptors, NEW e \in EntrySet, Opens(f, e)
  PROVE  /\ fds' \in [Descriptors -> EntrySet]
         /\ fds[f] = Free /\ fds'[f] = e
         /\ \A g \in Descriptors : g # f => fds'[g] = fds[g]
  BY DEF Opens

\* Closing frees the entries of the set and no others.
LEMMA CloseFacts ==
  ASSUME fds \in [Descriptors -> EntrySet], NEW set
  PROVE  /\ Close(set) \in [Descriptors -> EntrySet]
         /\ \A g \in Descriptors : Close(set)[g] = IF g \in set THEN Free ELSE fds[g]
  BY EntriesDiffer DEF Close

\* -1 is no descriptor.
LEMMA DescriptorFacts == /\ Descriptors \subseteq Nat /\ 0 \in Descriptors /\ -1 \notin Descriptors
                         /\ Descriptors \cup {-1} = -1..MaxFd
  BY DEF Descriptors

----------------------------------------------------------------------------
(* The ends of an attempt.                                                 *)

\* After Parse, ~Namespace leaves the standard descriptors and nothing else.
LEMMA DestroyFacts ==
  ASSUME Inv, Destroy
  PROVE  /\ fds' \in [Descriptors -> EntrySet]
         /\ out_' = -1 /\ in_' = -1 /\ maps' = {}
         /\ pc = "parse" /\ fds'[0] = Std => \A f \in Descriptors : fds'[f] \in {Free, Std}
<1>1. fds' \in [Descriptors -> EntrySet] /\ out_' = -1 /\ in_' = -1 /\ maps' = {}
  BY CloseFacts DEF Destroy, Inv, TypeOK
<1>2. ASSUME pc = "parse", fds'[0] = Std, NEW f \in Descriptors
      PROVE  fds'[f] \in {Free, Std}
  <2>1. fds[0] = Std /\ out_ # 0
    BY <1>2, CloseFacts, EntriesDiffer, DescriptorFacts DEF Destroy, Inv, TypeOK, Doors, Inside, Spaces
  <2>2. fds'[f] = IF f \in {out_, in_} THEN Free ELSE fds[f]
    BY <2>1, CloseFacts DEF Destroy, Inv, TypeOK
  <2>3. fds[f] \in {Free, Std} \/ f = out_ \/ f = in_
    BY <1>2, <2>1 DEF Inv, Accounted
  <2> QED BY <2>2, <2>3
<1> QED BY <1>1, <1>2

\* An attempt that ends FindSymbols has run the destructor of Namespace.
LEMMA FatalKeepsInv ==
  ASSUME Inv, Fatal PROVE Inv'
<1>1. fds' \in [Descriptors -> EntrySet] /\ out_' = -1 /\ in_' = -1 /\ maps' = {}
  BY DestroyFacts DEF Fatal
<1> QED
  BY <1>1, DescriptorFacts
  DEF Fatal, Inv, TypeOK, Doors, Inside, Whereabouts, InHand, Accounted, Unmapped,
      OutputAtHome, FilesAreTheirs

\* A constructor that throws runs no destructor, and ends FindSymbols.
LEMMA ConstructorThrowKeepsInv ==
  ASSUME Inv, FatalInConstructor PROVE Inv'
  BY DEF FatalInConstructor, nsVars, Inv, TypeOK, Doors, Inside, Whereabouts, InHand,
         Accounted, Unmapped, OutputAtHome, FilesAreTheirs

----------------------------------------------------------------------------
(* The theorem: one step of the proof per action.                          *)

\* pyflame starts in its own namespace, with nothing open but its streams.
LEMMA InitEstablishesInv ==
  Init => Inv
<1> SUFFICES ASSUME Init PROVE Inv
  OBVIOUS
<1>1. TypeOK
  <2>1. fds \in [Descriptors -> EntrySet]
    BY EntriesDiffer DEF Init
  <2> QED BY <2>1, DescriptorFacts DEF Init, TypeOK, Spaces
<1>2. Accounted
  BY EntriesDiffer DEF Init, Accounted, Descriptors
<1> QED
  BY <1>1, <1>2 DEF Init, Inv, Doors, Inside, Whereabouts, InHand, Unmapped, OutputAtHome,
                    FilesAreTheirs, Spaces

\* Without a link, or with two symbolic ones to one namespace, nothing is opened.
LEMMA LstatKeepsInv ==
  ASSUME Inv, Lstat PROVE Inv'
<1>1. CASE FatalInConstructor
  BY <1>1, ConstructorThrowKeepsInv
<1>2. CASE /\ pc = "lstat" /\ UNCHANGED <<nsVars, fd>>
           /\ Goto(IF kernel = "none" \/ (kernel = "symbolic" /\ theirs = at)
                   THEN "exe" ELSE "open_out")
  BY <1>2 DEF Goto, nsVars, Inv, TypeOK, Doors, Inside, Whereabouts, InHand, Accounted,
              Unmapped, OutputAtHome, FilesAreTheirs
<1> QED BY <1>1, <1>2 DEF Lstat

\* out_ leads to pyflame's own namespace.
LEMMA OpenOutKeepsInv ==
  ASSUME Inv, OpenOut PROVE Inv'
<1>1. CASE FatalInConstructor
  BY <1>1, ConstructorThrowKeepsInv
<1>2. ASSUME NEW f \in Descriptors, pc = "open_out", Goto("open_in"), Opens(f, Ns(at)),
             out_' = f, UNCHANGED <<at, in_, fd>>
      PROVE  Inv'
  <2>1. at = "home" /\ Ns(at) \in EntrySet
    BY <1>2, EntriesDiffer DEF Inv, Whereabouts, Spaces
  <2>2. /\ fds' \in [Descriptors -> EntrySet] /\ fds[f] = Free /\ fds'[f] = Ns("home")
        /\ \A g \in Descriptors : g # f => fds'[g] = fds[g]
    BY <1>2, <2>1, OpensFacts DEF Inv, TypeOK
  <2>3. Accounted'
    <3> SUFFICES ASSUME fds'[0] = Std, NEW g \in Descriptors
                 PROVE  fds'[g] \in {Free, Std} \/ g = out_' \/ g = in_'
      BY DEF Accounted
    <3>1. fds[0] = Std
      BY <2>2, EntriesDiffer, DescriptorFacts DEF Spaces
    <3> QED BY <1>2, <2>2, <3>1, DescriptorFacts DEF Inv, Accounted, Doors
  <2>4. TypeOK' /\ Doors'
    BY <1>2, <2>1, <2>2, DescriptorFacts DEF Goto, Inv, TypeOK, Doors, Inside
  <2> QED BY <1>2, <2>3, <2>4 DEF Goto, Inv, Whereabouts, InHand, Unmapped, OutputAtHome,
                                  FilesAreTheirs
<1> QED BY <1>1, <1>2 DEF OpenOut

\* in_ leads to the target's namespace.
LEMMA OpenInKeepsInv ==
  ASSUME Inv, OpenIn PROVE Inv'
<1>1. CASE FatalInConstructor
  BY <1>1, ConstructorThrowKeepsInv
<1>2. ASSUME pc = "open_in", Goto("exe"), kernel = "hard" /\ theirs = at,
             out_' = -1, in_' = -1, fds' = Close({out_}), UNCHANGED <<at, fd>>
      PROVE  Inv'
  <2>1. /\ fds' \in [Descriptors -> EntrySet]
        /\ \A g \in Descriptors : fds'[g] = IF g \in {out_} THEN Free ELSE fds[g]
    BY <1>2, CloseFacts DEF Inv, TypeOK
  <2>2. Accounted'
    <3> SUFFICES ASSUME fds'[0] = Std, NEW g \in Descriptors
                 PROVE  fds'[g] \in {Free, Std}
      BY DEF Accounted
    <3>1. fds[0] = Std
      BY <2>1, EntriesDiffer, DescriptorFacts
    <3> QED BY <1>2, <2>1, <3>1, DescriptorFacts DEF Inv, Accounted, Doors
  <2>3. TypeOK' /\ Doors'
    BY <1>2, <2>1, DescriptorFacts DEF Goto, Inv, TypeOK, Doors, Inside, Whereabouts
  <2> QED BY <1>2, <2>2, <2>3 DEF Goto, Inv, Whereabouts, InHand, Unmapped, OutputAtHome,
                                  FilesAreTheirs
<1>3. ASSUME NEW f \in Descriptors, pc = "open_in", Goto("exe"), Opens(f, Ns(theirs)),
             in_' = f, UNCHANGED <<at, fd, out_>>
      PROVE  Inv'
  <2>1. Ns(theirs) \in EntrySet /\ out_ \in Descriptors /\ fds[out_] = Ns("home")
    BY <1>3, EntriesDiffer, DescriptorFacts DEF Inv, TypeOK, Doors
  <2>2. /\ fds' \in [Descriptors -> EntrySet] /\ fds[f] = Free /\ fds'[f] = Ns(theirs)
        /\ \A g \in Descriptors : g # f => fds'[g] = fds[g]
    BY <1>3, <2>1, OpensFacts DEF Inv, TypeOK
  <2>3. f # out_
    BY <2>1, <2>2, EntriesDiffer DEF Spaces
  <2>4. Accounted'
    <3> SUFFICES ASSUME fds'[0] = Std, NEW g \in Descriptors
                 PROVE  fds'[g] \in {Free, Std} \/ g = out_' \/ g = in_'
      BY DEF Accounted
    <3>1. fds[0] = Std
      BY <2>2, EntriesDiffer, DescriptorFacts DEF Inv, TypeOK
    <3> QED BY <1>3, <2>2, <3>1, DescriptorFacts DEF Inv, Accounted, Doors
  <2>5. TypeOK' /\ Doors'
    BY <1>3, <2>1, <2>2, <2>3, DescriptorFacts DEF Goto, Inv, TypeOK, Doors, Inside
  <2> QED BY <1>3, <2>4, <2>5 DEF Goto, Inv, Whereabouts, InHand, Unmapped, OutputAtHome,
                                  FilesAreTheirs
<1> QED BY <1>1, <1>2, <1>3 DEF OpenIn

\* The name of the executable is read before anything is opened.
LEMMA ReadExeKeepsInv ==
  ASSUME Inv, ReadExe PROVE Inv'
<1>1. CASE Fatal
  BY <1>1, FatalKeepsInv
<1>2. CASE ~Fatal
  BY <1>2 DEF ReadExe, nsVars, Inv, TypeOK, Doors, Inside, Whereabouts, InHand, Accounted,
              Unmapped, OutputAtHome, FilesAreTheirs
<1> QED BY <1>1, <1>2

\* setns(2) leads where the descriptor does.
LEMMA EnterKeepsInv ==
  ASSUME Inv, Enter PROVE Inv'
<1>1. CASE Fatal
  BY <1>1, FatalKeepsInv
<1>2. CASE ~Fatal
  <2>1. at' = theirs
    <3>1. CASE in_ = -1
      BY <1>2, <3>1 DEF Enter, Inv, Doors, Inside, Whereabouts
    <3>2. CASE in_ # -1
      <4>1. fds[in_] = Ns(theirs) /\ theirs \in Spaces
        BY <3>2 DEF Enter, Inv, TypeOK, Doors, Inside
      <4>2. Ns(theirs).space = theirs
        BY <4>1, EntriesDiffer
      <4> QED BY <1>2, <3>2, <4>1, <4>2 DEF Enter
    <3> QED BY <3>1, <3>2
  <2> QED
    BY <1>2, <2>1 DEF Enter, Goto, Inv, TypeOK, Doors, Inside, Whereabouts, InHand,
                      Accounted, Unmapped, OutputAtHome, FilesAreTheirs
<1> QED BY <1>1, <1>2

\* The file is opened in the target's namespace.
LEMMA OpenKeepsInv ==
  ASSUME Inv, Open PROVE Inv'
<1>1. CASE fd' = -1 /\ UNCHANGED fds
  BY <1>1, DescriptorFacts
  DEF Open, Goto, Inv, TypeOK, Doors, Inside, Whereabouts, InHand, Accounted, Unmapped,
      OutputAtHome, FilesAreTheirs
<1>2. ASSUME NEW f \in Descriptors, Opens(f, [what |-> "file", space |-> at]), fd' = f
      PROVE  Inv'
  <2> DEFINE opened == [what |-> "file", space |-> theirs]
  <2>1. at = theirs /\ opened \in EntrySet /\ opened # Std
    BY EntriesDiffer DEF Open, Inv, TypeOK, Whereabouts
  <2>2. /\ fds' \in [Descriptors -> EntrySet] /\ fds[f] = Free /\ fds'[f] = opened
        /\ \A g \in Descriptors : g # f => fds'[g] = fds[g]
    BY <1>2, <2>1, OpensFacts DEF Inv, TypeOK
  <2>3. out_ # f /\ in_ # f
    BY <2>2, EntriesDiffer, DescriptorFacts DEF Open, Inv, TypeOK, Doors, Inside, Spaces
  <2>4. Accounted'
    <3> SUFFICES ASSUME fds'[0] = Std, NEW g \in Descriptors
                 PROVE  fds'[g] \in {Free, Std} \/ g = out_' \/ g = in_' \/ g = fd'
      BY DEF Accounted, Open, Goto
    <3>1. fds[0] = Std
      BY <2>1, <2>2, DescriptorFacts
    <3> QED BY <1>2, <2>2, <3>1 DEF Open, Inv, Accounted
  <2>5. TypeOK' /\ Doors' /\ InHand'
    BY <1>2, <2>1, <2>2, <2>3, DescriptorFacts
    DEF Open, Goto, Inv, TypeOK, Doors, Inside, InHand
  <2> QED
    BY <2>1, <2>4, <2>5
    DEF Open, Goto, Inv, Whereabouts, Unmapped, OutputAtHome, FilesAreTheirs
<1> QED BY <1>1, <1>2 DEF Open

\* setns through out_ leads home.
LEMMA LeaveKeepsInv ==
  ASSUME Inv, Leave PROVE Inv'
<1>1. CASE Fatal
  BY <1>1, FatalKeepsInv
<1>2. CASE ~Fatal
  <2>1. at' = "home"
    BY <1>2, EntriesDiffer DEF Leave, Inv, TypeOK, Doors, Inside, Whereabouts, Spaces
  <2> QED
    BY <1>2, <2>1 DEF Leave, Goto, Inv, TypeOK, Doors, Inside, Whereabouts, InHand,
                      Accounted, Unmapped, OutputAtHome, FilesAreTheirs, Spaces
<1> QED BY <1>1, <1>2

\* The descriptor is closed whether or not the file could be mapped.
LEMMA MapKeepsInv ==
  ASSUME Inv, Map PROVE Inv'
<1>1. CASE Fatal
  BY <1>1, FatalKeepsInv
<1>2. CASE ~Fatal
  <2>1. fd \in Descriptors /\ fds[fd] = [what |-> "file", space |-> theirs]
    BY <1>2, DescriptorFacts DEF Map, Inv, TypeOK, InHand
  <2>2. /\ fds' \in [Descriptors -> EntrySet]
        /\ \A g \in Descriptors : fds'[g] = IF g \in {fd} THEN Free ELSE fds[g]
    BY <1>2, CloseFacts DEF Map, Inv, TypeOK
  <2>3. fd # out_ /\ fd # in_
    BY <1>2, <2>1, EntriesDiffer, DescriptorFacts DEF Map, Inv, TypeOK, Doors, Inside, Spaces
  <2>4. Accounted'
    <3> SUFFICES ASSUME fds'[0] = Std, NEW g \in Descriptors
                 PROVE  fds'[g] \in {Free, Std} \/ g = out_ \/ g = in_
      BY <1>2 DEF Accounted, Map
    <3>1. fds[0] = Std
      BY <2>2, EntriesDiffer, DescriptorFacts
    <3> QED BY <1>2, <2>2, <3>1 DEF Map, Inv, Accounted
  <2>5. Mapped \in [file : {"exe", "lib"}, from : Spaces] /\ Mapped.from = theirs
    BY <2>1 DEF Mapped, Inv, TypeOK
  <2>6. TypeOK' /\ Doors'
    BY <1>2, <2>1, <2>2, <2>3, <2>5, DescriptorFacts DEF Map, Inv, TypeOK, Doors, Inside
  <2> QED
    BY <1>2, <2>4, <2>5, <2>6
    DEF Map, Inv, Inside, Whereabouts, InHand, Unmapped, OutputAtHome, FilesAreTheirs
<1> QED BY <1>1, <1>2

\* The file goes with the attempt, or a library is opened after it.
LEMMA ParseKeepsInv ==
  ASSUME Inv, Parse PROVE Inv'
<1>1. CASE Fatal
  BY <1>1, FatalKeepsInv
<1>2. CASE pc = "parse" /\ (Found \/ Retry)
  <2>1. Destroy
    BY <1>2 DEF Found, Retry
  <2>2. /\ fds' \in [Descriptors -> EntrySet] /\ out_' = -1 /\ in_' = -1 /\ maps' = {}
        /\ fds'[0] = Std => \A f \in Descriptors : fds'[f] \in {Free, Std}
    BY <1>2, <2>1, DestroyFacts
  <2>3. Accounted'
    BY <2>2 DEF Accounted
  <2>4. TypeOK'
    <3>1. CASE Found
      BY <3>1, <2>2, DescriptorFacts DEF Found, Inv, TypeOK
    <3>2. CASE Retry
      <4>1. /\ tries' \in 0..MaxTries
            /\ pc' \notin {"run", "done"} => tries' < MaxTries
            /\ pc' \in {"lstat", "done"}
        BY <1>2, <3>2 DEF Retry, Inv, TypeOK
      <4> QED BY <3>2, <4>1, <2>2, DescriptorFacts DEF Retry, Inv, TypeOK, Spaces
    <3> QED BY <1>2, <3>1, <3>2
  <2>5. /\ pc' \in {"lstat", "run", "done"} /\ output' = output /\ at' = "home"
        /\ pc' \notin {"run", "done"} => tries' < MaxTries
        /\ kernel' = "none" => theirs' = "home"
    BY <1>2 DEF Found, Retry, Inv, TypeOK, Whereabouts
  <2> QED
    BY <2>2, <2>3, <2>4, <2>5
    DEF Inv, Doors, Inside, Whereabouts, InHand, Unmapped, OutputAtHome, FilesAreTheirs
<1>3. CASE pc = "parse" /\ pc' = "enter" /\ file' = "lib"
           /\ UNCHANGED <<kernel, theirs, nsVars, tries, fd, maps, output>>
  BY <1>3 DEF nsVars, Inv, TypeOK, Doors, Inside, Whereabouts, InHand, Accounted, Unmapped,
              OutputAtHome, FilesAreTheirs
<1> QED BY <1>1, <1>2, <1>3 DEF Parse

\* Run opens its output at home.
LEMMA RunKeepsInv ==
  ASSUME Inv, Run PROVE Inv'
  BY DEF Run, nsVars, Inv, TypeOK, Doors, Inside, Whereabouts, InHand, Accounted, Unmapped,
         OutputAtHome, FilesAreTheirs, Spaces

\* A step that changes nothing keeps the invariant.
LEMMA StutterKeepsInv ==
  ASSUME Inv, UNCHANGED vars PROVE Inv'
  BY DEF vars, Inv, TypeOK, Doors, Inside, Whereabouts, InHand, Accounted, Unmapped,
         OutputAtHome, FilesAreTheirs

\* Whichever system call fails: the descriptors, the namespace pyflame is in
\* and the mapped files before each call.
THEOREM SpecKeepsInv == Spec => []Inv
<1>1. Init => Inv
  BY InitEstablishesInv
<1>2. Inv /\ [Next]_vars => Inv'
  <2> SUFFICES ASSUME Inv, [Next]_vars PROVE Inv'
    OBVIOUS
  <2>1. CASE Lstat
    BY <2>1, LstatKeepsInv
  <2>2. CASE OpenOut \/ OpenIn
    BY <2>2, OpenOutKeepsInv, OpenInKeepsInv
  <2>3. CASE ReadExe
    BY <2>3, ReadExeKeepsInv
  <2>4. CASE Enter \/ Open \/ Leave
    BY <2>4, EnterKeepsInv, OpenKeepsInv, LeaveKeepsInv
  <2>5. CASE Map \/ Parse
    BY <2>5, MapKeepsInv, ParseKeepsInv
  <2>6. CASE Run
    BY <2>6, RunKeepsInv
  <2>7. CASE Terminated \/ UNCHANGED vars
    BY <2>7, StutterKeepsInv DEF Terminated
  <2> QED BY <2>1, <2>2, <2>3, <2>4, <2>5, <2>6, <2>7 DEF Next
<1> QED BY <1>1, <1>2, PTL DEF Spec

----------------------------------------------------------------------------
(* What follows.                                                           *)

\* Every variable of the search keeps its type, and FindSymbols never tries
\* more often than MaxRetries().
THEOREM TypeCorrect == Spec => []TypeOK
<1>1. Inv => TypeOK
  BY DEF Inv
<1> QED BY <1>1, SpecKeepsInv, PTL

\* The output file of Run is opened in pyflame's own mount namespace.
THEOREM OutputStaysHome == Spec => []OutputAtHome
<1>1. Inv => OutputAtHome
  BY DEF Inv
<1> QED BY <1>1, SpecKeepsInv, PTL

\* The ELF files that are searched come from the target's mount namespace.
THEOREM SearchesTheirFiles == Spec => []FilesAreTheirs
<1>1. Inv => FilesAreTheirs
  BY DEF Inv
<1> QED BY <1>1, SpecKeepsInv, PTL

\* Attempts leave no descriptor and no mapping behind.
THEOREM AttemptsLeaveNothing == Spec => []NothingLeft
<1>1. Inv => NothingLeft
  <2> SUFFICES ASSUME Inv, pc \in {"lstat", "run"}
               PROVE  /\ maps = {}
                      /\ fds[0] = Std => \A f \in Descriptors : fds[f] \in {Free, Std}
    BY DEF NothingLeft
  <2>1. out_ \notin Descriptors /\ in_ \notin Descriptors
    BY DescriptorFacts DEF Inv, Doors
  <2> QED BY <2>1 DEF Inv, Unmapped, Accounted
<1> QED BY <1>1, SpecKeepsInv, PTL
=============================================================================
