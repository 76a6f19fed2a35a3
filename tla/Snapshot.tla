------------------------------ MODULE Snapshot ------------------------------
(***************************************************************************)
(* GetThreads and FollowFrame (frob.cc), which read the stacks of a python *)
(* program word by word, against an interpreter whose other threads run.   *)
(*                                                                         *)
(* PTRACE_SEIZE and PTRACE_INTERRUPT are given the target's pid: they stop *)
(* its leader thread only.  Another thread goes on executing python code   *)
(* as soon as it has the GIL.  The interpreter is CPython's, as frob.cc    *)
(* knows it: thread states in a list that starts at tstate_head, each with *)
(* its newest frame, frames linked by f_back.                              *)
(*                                                                         *)
(* Where two definitions stand together, the last one is the code; those   *)
(* before it are the slips that a property below must catch.               *)
(***************************************************************************)
EXTENDS Integers, Sequences, FiniteSets

CONSTANTS
  Workers,        \* thread states of the threads other than the leader
  Frames,         \* frame objects
  Codes,          \* functions of the program
  Calls,          \* its call graph: pairs <<caller, callee>>
  Entries,        \* the functions that are entered by no call
  MaxDepth        \* bound: how long a stack or a thread list is followed

Leader == "leader"
Null   == "null"     \* the null pointer
Threads == Workers \cup {Leader}

ASSUME SnapshotAssumption ==
  /\ Leader \notin Workers /\ Null \notin Threads \cup Frames
  /\ IsFiniteSet(Frames) /\ Frames # {}
  /\ Calls \subseteq Codes \X Codes /\ Entries \subseteq Codes /\ Entries # {}
  /\ MaxDepth \in Nat

VARIABLES
  \* the interpreter
  current,  \* _PyThreadState_Current: who holds the GIL
  head,     \* interp->tstate_head
  next,     \* tstate->next
  top,      \* tstate->frame
  code,     \* frame->f_code
  back,     \* frame->f_back
  live,     \* thread states in use
  \* GetThreads
  enable_threads,  \* --threads
  head_known,      \* interp_head_addr or interp_head_hint is set
  pc, is_current, tstate, frame, stack, threads

interpVars == <<current, head, next, top, code, back, live>>
modeVars == <<enable_threads, head_known>>
readerVars == <<modeVars, pc, is_current, tstate, frame, stack, threads>>
vars == <<interpVars, readerVars>>

\* No pointer is followed that is null.
TypeOK ==
  /\ current \in Threads \cup {Null} /\ head \in Threads
  /\ next \in [Threads -> Threads \cup {Null}]
  /\ top \in [Threads -> Frames \cup {Null}]
  /\ code \in [Frames -> Codes] /\ back \in [Frames -> Frames \cup {Null}]
  /\ live \subseteq Threads
  /\ enable_threads \in BOOLEAN /\ head_known \in BOOLEAN
  /\ pc \in {"run", "current", "head", "thread", "code", "back", "next", "done"}
  /\ is_current \in Threads \cup {Null}
  /\ tstate \in Threads \cup {Null} /\ frame \in Frames \cup {Null}
  /\ pc \in {"thread", "next"} => tstate # Null
  /\ pc \in {"code", "back"} => frame # Null
  /\ \A i \in DOMAIN stack : stack[i] \in Codes
  /\ \A i \in DOMAIN threads : threads[i].id \in Threads

\* The leader is in its outermost function.
Init ==
  /\ live = {Leader} /\ head = Leader /\ current \in {Leader, Null}
  /\ next = [t \in Threads |-> Null]
  /\ \E f \in Frames : top = [t \in Threads |-> IF t = Leader THEN f ELSE Null]
  /\ \E c \in Entries : code = [f \in Frames |-> c]
  /\ back = [f \in Frames |-> Null]
  /\ enable_threads \in BOOLEAN /\ head_known \in BOOLEAN
  /\ pc = "run" /\ is_current = Null /\ tstate = Null /\ frame = Null
  /\ stack = <<>> /\ threads = <<>>

----------------------------------------------------------------------------
(* The interpreter: every step is one of the thread that holds the GIL, or *)
(* takes it.  The leader makes none while pyflame holds it.                *)

Runs(t) == t \in Workers \/ pc = "run"

\* The n-th frame of a thread, counted from its newest one.
Chain(t) ==
  LET up[n \in 0..Cardinality(Frames)] ==
        IF n = 0 THEN top[t]
        ELSE IF up[n - 1] = Null THEN Null ELSE back[up[n - 1]]
  IN  up
FramesOf(t) == {Chain(t)[n] : n \in 0..Cardinality(Frames)} \ {Null}
FreeFrames == Frames \ UNION {FramesOf(t) : t \in live}

CallFunction(t) ==
  /\ Runs(t) /\ current = t
  /\ \E f \in FreeFrames, c \in Codes :
       /\ IF top[t] = Null THEN c \in Entries ELSE <<code[top[t]], c>> \in Calls
       /\ code' = [code EXCEPT ![f] = c]
       /\ back' = [back EXCEPT ![f] = top[t]]
       /\ top' = [top EXCEPT ![t] = f]
  /\ UNCHANGED <<current, head, next, live, readerVars>>

\* frame_dealloc clears f_back; the frame's memory stays readable.
ReturnFromFunction(t) ==
  /\ Runs(t) /\ current = t /\ top[t] # Null
  /\ top' = [top EXCEPT ![t] = back[top[t]]]
  /\ back' = [back EXCEPT ![top[t]] = Null]
  /\ UNCHANGED <<current, head, next, code, live, readerVars>>

DropGil(t) ==
  /\ Runs(t) /\ current = t
  /\ current' = Null
  /\ UNCHANGED <<head, next, top, code, back, live, readerVars>>
TakeGil(t) ==
  /\ Runs(t) /\ current = Null /\ t \in live
  /\ current' = t
  /\ UNCHANGED <<head, next, top, code, back, live, readerVars>>

\* A thread state is linked in at the head, and its memory may be that of
\* one that was freed before.
StartThread(w) ==
  /\ current # Null /\ Runs(current) /\ w \notin live
  /\ live' = live \cup {w}
  /\ next' = [next EXCEPT ![w] = head] /\ head' = w
  /\ UNCHANGED <<current, top, code, back, readerVars>>
EndThread(w) ==
  /\ current = w /\ top[w] = Null
  /\ live' = live \ {w} /\ current' = Null
  /\ head' = (IF head = w THEN next[w] ELSE head)
  /\ next' = [t \in Threads |->
               IF t \in live \ {w} /\ next[t] = w THEN next[w] ELSE next[t]]
  /\ UNCHANGED <<top, code, back, readerVars>>

InterpreterStep ==
  \/ \E t \in Threads :
       CallFunction(t) \/ ReturnFromFunction(t) \/ DropGil(t) \/ TakeGil(t)
  \/ \E w \in Workers : StartThread(w) \/ EndThread(w)

----------------------------------------------------------------------------
(* GetThreads: one action per PtracePeek whose answer matters.             *)

\* PtraceInterrupt: the leader is held from here to the end of the sample.
Hold ==
  /\ pc = "run" /\ pc' = "current"
  /\ UNCHANGED <<interpVars, modeVars, is_current, tstate, frame, stack, threads>>

\* _PyThreadState_Current, and where the list of thread states is found.
ReadCurrent ==
  /\ pc = "current"
  /\ is_current' = current
  /\ IF enable_threads /\ (current # Null \/ head_known)
     THEN pc' = "head" /\ UNCHANGED tstate
     ELSE /\ tstate' = current
          /\ pc' = (IF current = Null THEN "done" ELSE "thread")
  /\ UNCHANGED <<interpVars, modeVars, frame, stack, threads>>

ReadHeadNot ==
  /\ pc = "head"
  /\ tstate' = (IF is_current = Null THEN head ELSE is_current) /\ pc' = "thread"
  /\ UNCHANGED <<interpVars, modeVars, is_current, frame, stack, threads>>
ReadHead ==
  /\ pc = "head"
  /\ tstate' = head /\ pc' = "thread"
  /\ UNCHANGED <<interpVars, modeVars, is_current, frame, stack, threads>>

\* The thread's newest frame; a thread without one is not reported.
ReadThreadAnyway ==
  /\ pc = "thread"
  /\ frame' = top[tstate] /\ stack' = <<>> /\ pc' = "code"
  /\ UNCHANGED <<interpVars, modeVars, is_current, tstate, threads>>
ReadThread ==
  /\ pc = "thread"
  /\ frame' = top[tstate] /\ stack' = <<>>
  /\ pc' = (IF top[tstate] = Null THEN "next" ELSE "code")
  /\ UNCHANGED <<interpVars, modeVars, is_current, tstate, threads>>

\* FollowFrame.
ReadCode ==
  /\ pc = "code" /\ Len(stack) < MaxDepth
  /\ stack' = Append(stack, code[frame])
  /\ pc' = "back"
  /\ UNCHANGED <<interpVars, modeVars, is_current, tstate, frame, threads>>

Finished(s) == Append(threads, [id |-> tstate, current |-> tstate = is_current, stack |-> s])

ReadBackOnce ==
  /\ pc = "back"
  /\ frame' = back[frame]
  /\ threads' = Finished(stack) /\ pc' = "next"
  /\ UNCHANGED <<interpVars, modeVars, is_current, tstate, stack>>
ReadBack ==
  /\ pc = "back"
  /\ frame' = back[frame]
  /\ IF back[frame] = Null
     THEN threads' = Finished(stack) /\ pc' = "next"
     ELSE UNCHANGED threads /\ pc' = "code"
  /\ UNCHANGED <<interpVars, modeVars, is_current, tstate, stack>>

ReadNext ==
  /\ pc = "next" /\ Len(threads) < MaxDepth
  /\ tstate' = (IF enable_threads THEN next[tstate] ELSE Null)
  /\ pc' = (IF tstate' = Null THEN "done" ELSE "thread")
  /\ UNCHANGED <<interpVars, modeVars, is_current, frame, stack, threads>>

\* PtraceCont, until the next sample.
Continue ==
  /\ pc = "done"
  /\ pc' = "run" /\ is_current' = Null /\ tstate' = Null /\ frame' = Null
  /\ stack' = <<>> /\ threads' = <<>>
  /\ UNCHANGED <<interpVars, modeVars>>

ReaderStep ==
  Hold \/ ReadCurrent \/ ReadHead \/ ReadThread \/ ReadCode \/ ReadBack \/ ReadNext \/ Continue

Next == InterpreterStep \/ ReaderStep

Spec == Init /\ [][Next]_vars

----------------------------------------------------------------------------
(* Properties.                                                             *)

\* Newest frame first, as FollowFrame returns it.
StackOf(t) ==
  LET depth == Cardinality(FramesOf(t))
  IN  [i \in 1..depth |-> code[Chain(t)[i - 1]]]

\* A stack of the stopped leader is its stack, whatever the others do, and
\* however often a changing list leads to it.
LeaderExact ==
  \A i \in DOMAIN threads :
    threads[i].id = Leader => threads[i].stack = StackOf(Leader)

\* While the stopped leader holds the GIL, a sample is the instant at which
\* it was taken: each thread that has a frame once, with its stack, and the
\* leader marked as the current one.
ExactUnderGil ==
  pc = "done" /\ current = Leader =>
    /\ {threads[i].id : i \in DOMAIN threads} =
         {t \in (IF enable_threads THEN live ELSE {Leader}) : top[t] # Null}
    /\ \A i \in DOMAIN threads :
         /\ threads[i].stack = StackOf(threads[i].id)
         /\ threads[i].current <=> threads[i].id = Leader
         /\ \A j \in DOMAIN threads : threads[i].id = threads[j].id => i = j

\* --threads takes "a snapshot of each thread's stack" (faq.rst): each stack
\* is one the program can have, a path of its call graph.
StacksArePaths ==
  enable_threads =>
    \A i \in DOMAIN threads :
      LET s == threads[i].stack
      IN  /\ s[Len(s)] \in Entries
          /\ \A k \in 1..(Len(s) - 1) : <<s[k + 1], s[k]>> \in Calls
=============================================================================
