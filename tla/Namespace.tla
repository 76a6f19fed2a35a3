----------------------------- MODULE Namespace -----------------------------
(***************************************************************************)
(* The files that the search for symbols opens: the Namespace class        *)
(* (namespace.cc), its wrappers (posix.cc), ELF::Open and Parse            *)
(* (symbol.cc) and the attempts of FindSymbols around them, up to the      *)
(* output file of Run.  A system call that may fail is a step, or one of   *)
(* the ways out of a step where nothing can come between.                  *)
(*                                                                         *)
(* What is found in a file is module Symbols': here it is a choice.  A     *)
(* descriptor that is open can be looked at (fstat, lseek).                *)
(*                                                                         *)
(* Where two definitions stand together, the last one is the code; those   *)
(* before it are the slips that a property below must catch.               *)
(***************************************************************************)
EXTENDS Integers

CONSTANTS
  MaxTries,  \* MaxRetries() of FindSymbols
  MaxFd      \* no descriptor is greater: open then fails

ASSUME NamespaceAssumption == MaxTries \in Nat \ {0} /\ MaxFd \in Nat /\ MaxFd >= 2

VARIABLES
  kernel,     \* /proc/self/ns/mnt: none, a hard link (before 3.8), a symbolic link
  theirs,     \* the target's mount namespace; pyflame's own is "home"
  at,         \* the mount namespace pyflame is in
  fds,        \* the descriptor table: a file comes from a namespace, or leads to one
  pc, tries,
  out_, in_,  \* Namespace
  file,       \* the ELF file being opened
  fd,         \* its descriptor, in Namespace::Open and ELF::Open
  maps,       \* the mapped ELF files, and the namespace each was opened in
  output      \* the namespace that the output file was opened in

vars == <<kernel, theirs, at, fds, pc, tries, out_, in_, file, fd, maps, output>>
nsVars == <<at, fds, out_, in_>>

Spaces == {"home", "other"}
Descriptors == 0..MaxFd
EntrySet == [what : {"free", "std", "file", "ns"}, space : Spaces]
Free == [what |-> "free", space |-> "home"]
Std == [what |-> "std", space |-> "home"]

TypeOK ==
  /\ kernel \in {"none", "hard", "symbolic"}
  /\ theirs \in Spaces /\ at \in Spaces
  /\ fds \in [Descriptors -> EntrySet]
  /\ pc \in {"lstat", "open_out", "open_in", "exe", "enter", "open", "leave", "map",
             "parse", "run", "done"}
  /\ tries \in 0..MaxTries
  /\ out_ \in -1..MaxFd /\ in_ \in -1..MaxFd /\ fd \in -1..MaxFd
  /\ file \in {"exe", "lib"}
  /\ maps \subseteq [file : {"exe", "lib"}, from : Spaces]
  /\ output \in {"none"} \cup Spaces

\* open(2) takes the lowest descriptor that is free.
Opens(f, entry) ==
  /\ fds[f] = Free /\ \A g \in 0..(f - 1) : fds[g] # Free
  /\ fds' = [fds EXCEPT ![f] = entry]
Close(set) == [f \in Descriptors |-> IF f \in set THEN Free ELSE fds[f]]

\* pyflame may be started with its stdin closed.
Init ==
  /\ kernel \in {"none", "hard", "symbolic"}
  /\ theirs \in (IF kernel = "none" THEN {"home"} ELSE Spaces) /\ at = "home"
  /\ \E stdin \in {Std, Free} :
       fds = [f \in Descriptors |-> IF f = 0 THEN stdin ELSE IF f <= 2 THEN Std ELSE Free]
  /\ pc = "lstat" /\ tries = 0
  /\ out_ = -1 /\ in_ = -1 /\ file = "exe" /\ fd = -1
  /\ maps = {} /\ output = "none"

----------------------------------------------------------------------------
(* How an attempt ends.  What is mapped is unmapped, and ~Namespace runs,  *)
(* unless it is the constructor that throws.                               *)

Destroy == /\ fds' = (IF out_ # 0 THEN Close({out_, in_}) ELSE fds)
           /\ out_' = -1 /\ in_' = -1 /\ maps' = {}

\* set_addrs_ catches the SymbolException: FindSymbols lets the target run,
\* which may change its namespace, and tries again.
RetryLate ==
  /\ Destroy /\ tries' = tries + 1
  /\ pc' = (IF tries' > MaxTries THEN "done" ELSE "lstat")
  /\ UNCHANGED <<kernel, theirs, at, file, fd, output>>
Retry ==
  /\ Destroy /\ tries' = tries + 1
  /\ pc' = (IF tries' >= MaxTries THEN "done" ELSE "lstat")
  /\ theirs' \in (IF kernel = "none" THEN {"home"} ELSE Spaces)
  /\ UNCHANGED <<kernel, at, file, fd, output>>

\* FindSymbols catches any other FatalException, and main returns.
FatalRetried == Retry
Fatal ==
  /\ Destroy /\ pc' = "done"
  /\ UNCHANGED <<kernel, theirs, at, tries, file, fd, output>>
FatalInConstructor ==
  /\ pc' = "done"
  /\ UNCHANGED <<kernel, theirs, nsVars, tries, file, fd, maps, output>>

Found ==
  /\ Destroy /\ pc' = "run"
  /\ UNCHANGED <<kernel, theirs, at, tries, file, fd, output>>

----------------------------------------------------------------------------
(* The constructor.                                                        *)

Goto(label) ==
  /\ pc' = label
  /\ UNCHANGED <<kernel, theirs, tries, file, maps, output>>

\* Both names are read and compared, where they are symbolic links.
Lstat ==
  /\ pc = "lstat"
  /\ \/ Goto(IF kernel = "none" \/ (kernel = "symbolic" /\ theirs = at)
             THEN "exe" ELSE "open_out")
        /\ UNCHANGED <<nsVars, fd>>
     \/ kernel = "symbolic" /\ FatalInConstructor

Ns(space) == [what |-> "ns", space |-> space]

OpenOut ==
  /\ pc = "open_out"
  /\ \/ /\ Goto("open_in")
        /\ \E f \in Descriptors : Opens(f, Ns(at)) /\ out_' = f
        /\ UNCHANGED <<at, in_, fd>>
     \/ FatalInConstructor

\* Hard links are told apart by their inodes, when both are open.
OpenIn ==
  /\ pc = "open_in"
  /\ \/ /\ Goto("exe")
        /\ IF kernel = "hard" /\ theirs = at
           THEN out_' = -1 /\ in_' = -1 /\ fds' = Close({out_})
           ELSE /\ \E f \in Descriptors : Opens(f, Ns(theirs)) /\ in_' = f
                /\ UNCHANGED out_
        /\ UNCHANGED <<at, fd>>
     \/ FatalInConstructor

----------------------------------------------------------------------------
(* Namespace::Open, and the functions that call it.                        *)

\* Addrs begins with the executable.
ReadExe ==
  /\ pc = "exe"
  /\ \/ /\ pc' = "enter" /\ file' = "exe"
        /\ UNCHANGED <<kernel, theirs, nsVars, tries, fd, maps, output>>
     \/ Fatal

\* SetNs(in_)
EnterNever ==
  pc = "enter" /\ Goto("open") /\ UNCHANGED <<nsVars, fd>>
Enter ==
  /\ pc = "enter"
  /\ \/ /\ Goto("open")
        /\ at' = (IF in_ = -1 THEN at ELSE fds[in_].space)
        /\ UNCHANGED <<fds, out_, in_, fd>>
     \/ in_ # -1 /\ Fatal

Open ==
  /\ pc = "open" /\ Goto("leave")
  /\ \/ \E f \in Descriptors : Opens(f, [what |-> "file", space |-> at]) /\ fd' = f
     \/ fd' = -1 /\ UNCHANGED fds
  /\ UNCHANGED <<at, out_, in_>>

\* SetNs(out_)
Leave ==
  /\ pc = "leave"
  /\ \/ /\ Goto("map")
        /\ at' = (IF in_ = -1 THEN at ELSE fds[out_].space)
        /\ UNCHANGED <<fds, out_, in_, fd>>
     \/ in_ # -1 /\ Fatal

\* The rest of ELF::Open.  The descriptor is closed before the result of mmap
\* is looked at.
Mapped == [file |-> file, from |-> fds[fd].space]
MapOpen ==
  /\ pc = "map"
  /\ \/ /\ fd # -1 /\ pc' = "parse"
        /\ maps' \in {maps, maps \cup {Mapped}}
        /\ UNCHANGED <<kernel, theirs, nsVars, tries, file, fd, output>>
     \/ fd = -1 /\ Fatal
Map ==
  /\ pc = "map"
  /\ \/ /\ fd # -1 /\ pc' = "parse"
        /\ fds' = Close({fd}) /\ maps' \in {maps, maps \cup {Mapped}}
        /\ UNCHANGED <<kernel, theirs, at, out_, in_, tries, file, fd, output>>
     \/ fd = -1 /\ Fatal

\* mmap may have failed, the file may be no ELF file of this class, or lack
\* its dynamic sections.  Then what GetAddresses makes of it: without python in
\* the executable, the libpython that the target has mapped, if it has.
Parse ==
  /\ pc = "parse"
  /\ \/ Fatal
     \/ (\E m \in maps : m.file = file) /\ (Found \/ Retry)
     \/ /\ file = "exe" /\ (\E m \in maps : m.file = file)
        /\ file' = "lib" /\ pc' = "enter"
        /\ UNCHANGED <<kernel, theirs, nsVars, tries, fd, maps, output>>

\* Run opens the output file, if one is named.
Run ==
  /\ pc = "run" /\ pc' = "done"
  /\ output' \in {"none", at}
  /\ UNCHANGED <<kernel, theirs, nsVars, tries, file, fd, maps>>

Terminated == pc = "done" /\ UNCHANGED vars

Next ==
  \/ Lstat \/ OpenOut \/ OpenIn \/ ReadExe \/ Enter \/ Open \/ Leave \/ Map \/ Parse
  \/ Run \/ Terminated

Spec == Init /\ [][Next]_vars

----------------------------------------------------------------------------
(* Properties.                                                             *)

\* The output file is the user's: a session that goes on after the search is
\* back in its own mount namespace, whatever has failed.
OutputAtHome == output \in {"none", "home"}

\* What is searched for symbols are the target's files: of the namespace it
\* is in, each time it is tried, on kernels of each age.
FilesAreTheirs == \A m \in maps : m.from = theirs

\* Attempts leave no descriptor behind, and no mapping: there are up to fifty
\* of them.  (If stdin was closed, out_ may be 0, which ~Namespace takes for
\* none.)
NothingLeft ==
  pc \in {"lstat", "run"} =>
    /\ maps = {}
    /\ fds[0] = Std => \A f \in Descriptors : fds[f] \in {Free, Std}
=============================================================================
