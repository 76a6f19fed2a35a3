--------------------------- MODULE SnapshotProofs ---------------------------
(***************************************************************************)
(* Proofs about module Snapshot, for any number of threads, frames and     *)
(* functions, and for stacks and thread lists of any length.               *)
(*                                                                         *)
(* First the pointers (Inv), then what the pointers make: stacks, and an   *)
(* order of the threads, along which the reader has come so far            *)
(* (StackInv).  Neither is a variable: a state has them if there are some. *)
(***************************************************************************)
EXTENDS Snapshot, SequenceTheorems, FiniteSetTheorems, Induction, TLAPS

USE SnapshotAssumption DEF SnapshotAssumption, Threads, vars, interpVars, readerVars, modeVars

----------------------------------------------------------------------------
(* The inductive invariant.                                                *)

\* The leader was the first thread and stays: it is the end of the list, so
\* that unlinking another thread never empties it.  Only a live thread has
\* the GIL.
Linked ==
  /\ Leader \in live /\ current \in live \cup {Null}
  /\ \A t \in live : next[t] = Null => t = Leader

\* The samples, and the thread state they are of.
SequencesOK ==
  /\ pc \in {"code", "back"} => tstate # Null
  /\ stack \in Seq(Codes)
  /\ threads \in Seq([id : Threads, current : BOOLEAN, stack : Seq(Codes)])

Inv == TypeOK /\ Linked /\ SequencesOK

\* What the interpreter does keeps the list, and lets the reader be.
LEMMA InterpreterKeeps == ASSUME Inv, InterpreterStep PROVE Inv'
<1> USE DEF Inv, TypeOK, Linked, SequencesOK
<1>1. ASSUME NEW t \in Threads, CallFunction(t) PROVE Inv'
  BY <1>1 DEF CallFunction, Runs, FreeFrames
<1>2. ASSUME NEW t \in Threads, ReturnFromFunction(t) PROVE Inv'
  BY <1>2 DEF ReturnFromFunction, Runs
<1>3. ASSUME NEW t \in Threads, DropGil(t) \/ TakeGil(t) PROVE Inv'
  BY <1>3 DEF DropGil, TakeGil, Runs
<1>4. ASSUME NEW w \in Workers, StartThread(w) PROVE Inv'
  BY <1>4 DEF StartThread
<1>5. ASSUME NEW w \in Workers, EndThread(w) PROVE Inv'
  BY <1>5 DEF EndThread
<1> QED BY <1>1, <1>2, <1>3, <1>4, <1>5 DEF InterpreterStep

\* GetThreads tests every pointer before it follows it.
LEMMA ReaderKeeps == ASSUME Inv, ReaderStep PROVE Inv'
<1> USE DEF Inv, TypeOK, Linked, SequencesOK
<1>1. CASE Hold BY <1>1 DEF Hold
<1>2. CASE ReadCurrent BY <1>2 DEF ReadCurrent
<1>3. CASE ReadHead BY <1>3 DEF ReadHead
<1>4. CASE ReadThread BY <1>4 DEF ReadThread
<1>5. CASE ReadCode BY <1>5 DEF ReadCode
<1>6. CASE ReadBack
  <2> DEFINE Row == [id |-> tstate, current |-> tstate = is_current, stack |-> stack]
             Rows == [id : Threads, current : BOOLEAN, stack : Seq(Codes)]
  <2>1. Row \in Rows
    <3>1. tstate \in Threads /\ stack \in Seq(Codes) BY <1>6 DEF ReadBack
    <3>2. (tstate = is_current) \in BOOLEAN BY Zenon
    <3> QED BY <3>1, <3>2, Zenon
  <2>2. Finished(stack) = Append(threads, Row) BY Zenon DEF Finished
  <2> HIDE DEF Row
  <2>3. Append(threads, Row) \in Seq(Rows) BY <2>1
  <2>4. threads' \in Seq(Rows) /\ pc' \in {"next", "code"}
    BY <1>6, <2>2, <2>3 DEF ReadBack
  <2>5. \A i \in DOMAIN threads' : threads'[i].id \in Threads
    <3>1. ASSUME NEW S \in Seq(Rows), NEW i \in DOMAIN S PROVE S[i].id \in Threads
      <4> HIDE DEF Rows
      <4>1. S[i] \in Rows BY ElementOfSeq
      <4> QED BY <4>1 DEF Rows
    <3> QED BY <2>4, <3>1
  <2>6. pc' = "code" => frame' # Null BY <1>6 DEF ReadBack
  <2>7. frame' \in Frames \cup {Null} BY <1>6 DEF ReadBack
  <2> QED BY <1>6, <2>4, <2>5, <2>6, <2>7 DEF ReadBack
<1>7. CASE ReadNext BY <1>7 DEF ReadNext
<1>8. CASE Continue BY <1>8 DEF Continue
<1> QED BY <1>1, <1>2, <1>3, <1>4, <1>5, <1>6, <1>7, <1>8 DEF ReaderStep

\* Whatever the other threads do while they are read: the list of thread
\* states is never empty and ends with the leader.
THEOREM SpecKeepsInv == Spec => []Inv
<1>1. Init => Inv BY DEF Init, Inv, TypeOK, Linked, SequencesOK
<1>2. Inv /\ [Next]_vars => Inv'
  <2>1. Inv /\ UNCHANGED vars => Inv' BY DEF Inv, TypeOK, Linked, SequencesOK
  <2> QED BY <2>1, InterpreterKeeps, ReaderKeeps DEF Next
<1> QED BY <1>1, <1>2, PTL DEF Spec

\* GetThreads and FollowFrame never read through a null pointer, with or
\* without --threads, however the threads that are not stopped change the
\* list and the frames between two reads.
THEOREM NoNullFollowed == Spec => []TypeOK
<1>1. Inv => TypeOK BY DEF Inv
<1> QED BY <1>1, SpecKeepsInv, PTL

----------------------------------------------------------------------------
(* What a stack is.  fs gives each thread its frames, the outermost first: *)
(* a witness for the chain that top and back make.                         *)

IsStacks(fs) ==
  /\ fs \in [Threads -> Seq(Frames)]
  /\ \A t \in Threads : t \notin live => fs[t] = <<>>
  /\ \A t \in Threads : top[t] = IF fs[t] = <<>> THEN Null ELSE fs[t][Len(fs[t])]
  /\ \A t \in Threads : \A i \in 1..Len(fs[t]) :
       back[fs[t][i]] = IF i = 1 THEN Null ELSE fs[t][i - 1]
  /\ \A t, u \in Threads : \A i \in 1..Len(fs[t]), j \in 1..Len(fs[u]) :
       fs[t][i] = fs[u][j] => t = u /\ i = j

\* Its functions, the innermost first.
CodesOf(fs, t) == [i \in 1..Len(fs[t]) |-> code[fs[t][Len(fs[t]) - i + 1]]]

\* The order of the list of thread states.
IsOrder(pos) ==
  /\ pos \in [Threads -> Int] /\ head \in live
  /\ \A t \in live : pos[head] <= pos[t] /\ pos[t] <= pos[Leader]
  /\ \A t, u \in live : pos[t] = pos[u] => t = u
  /\ \A t \in live : next[t] # Null =>
       /\ next[t] \in live /\ pos[t] < pos[next[t]]
       /\ \A u \in live : pos[u] <= pos[t] \/ pos[next[t]] <= pos[u]

\* FollowFrame is on its way along the stack of thread tstate.
Walk(fs) ==
  LET n == Len(fs[tstate])
      k == Len(stack)
  IN  /\ pc = "code" => k < n /\ frame = fs[tstate][n - k]
      /\ pc = "back" => 0 < k /\ k <= n /\ frame = fs[tstate][n - k + 1]
      /\ \A i \in 1..k : stack[i] = CodesOf(fs, tstate)[i]

\* What is read of the leader, which is stopped, is right.
LeaderInv(fs) ==
  /\ pc \in {"code", "back"} /\ tstate = Leader => Walk(fs)
  /\ \A i \in 1..Len(threads) :
       threads[i].id = Leader => threads[i].stack = CodesOf(fs, Leader)

\* With the GIL, all that is read is: the threads before the one that is
\* read have been sampled, and no other.
Sampled == {threads[i].id : i \in 1..Len(threads)}
SampledTo(S) == Sampled = {t \in S : top[t] # Null}
GilInv(fs, pos) ==
  /\ pc = "current" \/ is_current = Leader
  /\ pc = "head" => enable_threads
  /\ pc \in {"code", "back"} => Walk(fs)
  /\ \A i \in 1..Len(threads) :
       /\ threads[i].stack = CodesOf(fs, threads[i].id)
       /\ threads[i].current <=> threads[i].id = Leader
       /\ \A j \in 1..Len(threads) : threads[i].id = threads[j].id => i = j
  /\ pc \in {"thread", "code", "back", "next"} => tstate \in live
  /\ pc \in {"code", "back"} => top[tstate] # Null
  /\ pc \in {"thread", "code", "back"} =>
       IF enable_threads THEN SampledTo({t \in live : pos[t] < pos[tstate]})
       ELSE tstate = Leader /\ Sampled = {}
  /\ pc = "next" =>
       IF enable_threads THEN SampledTo({t \in live : pos[t] <= pos[tstate]})
       ELSE tstate = Leader /\ SampledTo({Leader})
  /\ pc = "done" => SampledTo(IF enable_threads THEN live ELSE {Leader})

ReadRight(fs, pos) ==
  /\ pc \in {"run", "current", "head"} => threads = <<>>
  /\ pc # "run" => LeaderInv(fs)
  /\ pc # "run" /\ current = Leader => GilInv(fs, pos)

StackInv ==
  \E fs, pos : IsStacks(fs) /\ IsOrder(pos) /\ ReadRight(fs, pos)

----------------------------------------------------------------------------
(* The recursive definition of a chain, and what it computes.              *)

\* The equation that a chain of length n solves.
ChainEq(g, t, n) ==
  g = [k \in 0..n |->
         IF k = 0 THEN top[t]
         ELSE IF g[k - 1] = Null THEN Null ELSE back[g[k - 1]]]

\* It has a solution, so that Chain is one.
LEMMA ChainExists ==
  ASSUME NEW t, NEW n \in Nat
  PROVE  \E g : ChainEq(g, t, n)
<1> DEFINE S == {m \in Nat : \E g : ChainEq(g, t, m)}
<1>1. 0 \in S
  <2>1. ChainEq([k \in 0..0 |-> top[t]], t, 0) BY DEF ChainEq
  <2> QED BY <2>1
<1>2. ASSUME NEW m \in Nat, m \in S PROVE m + 1 \in S
  <2>1. PICK g : ChainEq(g, t, m) BY <1>2
  <2> DEFINE h == [k \in 0..(m + 1) |->
                     IF k <= m THEN g[k]
                     ELSE IF g[m] = Null THEN Null ELSE back[g[m]]]
  <2>2. \A k \in 0..m :
          g[k] = IF k = 0 THEN top[t]
                 ELSE IF g[k - 1] = Null THEN Null ELSE back[g[k - 1]]
    BY <2>1 DEF ChainEq
  <2>3. \A k \in 0..(m + 1) :
          h[k] = IF k = 0 THEN top[t]
                 ELSE IF h[k - 1] = Null THEN Null ELSE back[h[k - 1]]
    BY <2>2
  <2>4. ChainEq(h, t, m + 1)
    <3>1. h = [k \in 0..(m + 1) |-> h[k]] OBVIOUS
    <3> HIDE DEF h
    <3> QED BY <3>1, <2>3, Zenon DEF ChainEq
  <2> QED BY <2>4
<1> HIDE DEF S
<1>3. Nat \subseteq S BY <1>1, <1>2, SetInduction
<1> QED BY <1>3 DEF S

\* The chain that the model chooses solves the equation.
LEMMA ChainSolves ==
  ASSUME NEW t
  PROVE  ChainEq(Chain(t), t, Cardinality(Frames))
<1>1. Cardinality(Frames) \in Nat BY FS_CardinalityType
<1>2. \E g : ChainEq(g, t, Cardinality(Frames)) BY <1>1, ChainExists
<1>3. Chain(t) = CHOOSE g : ChainEq(g, t, Cardinality(Frames)) BY Zenon DEF Chain, ChainEq
<1> QED BY <1>2, <1>3

\* No frame is in a stack twice, so that none is deeper than there are frames.
LEMMA StackFits ==
  ASSUME TypeOK, NEW fs, IsStacks(fs), NEW t \in Threads
  PROVE  Len(fs[t]) \in 0..Cardinality(Frames)
<1>1. fs[t] \in Seq(Frames) BY DEF IsStacks
<1>2. fs[t] \in [1..Len(fs[t]) -> Frames] /\ Len(fs[t]) \in Nat BY <1>1
<1>3. fs[t] \in Injection(1..Len(fs[t]), Frames)
  <2>1. \A i, j \in 1..Len(fs[t]) : fs[t][i] = fs[t][j] => i = j BY DEF IsStacks
  <2> QED BY <1>2, <2>1 DEF Injection, IsInjective
<1>4. Cardinality(1..Len(fs[t])) <= Cardinality(Frames) BY <1>3, FS_Injection
<1>5. Cardinality(1..Len(fs[t])) = Len(fs[t]) BY <1>2, CountTo
<1> QED BY <1>2, <1>4, <1>5, FS_CardinalityType

\* A chain goes through the stack from its newest frame, then is null.
LEMMA ChainIsStack ==
  ASSUME TypeOK, NEW fs, IsStacks(fs), NEW t \in Threads
  PROVE  \A n \in 0..Cardinality(Frames) :
           Chain(t)[n] = IF n < Len(fs[t]) THEN fs[t][Len(fs[t]) - n] ELSE Null
<1> DEFINE C == Cardinality(Frames)
           L == Len(fs[t])
           S == {n \in Nat : n <= C => Chain(t)[n] = IF n < L THEN fs[t][L - n] ELSE Null}
<1>1. C \in Nat BY FS_CardinalityType
<1>2. L \in Nat /\ fs[t] \in Seq(Frames) BY DEF IsStacks
<1>3. \A k \in 0..C :
        Chain(t)[k] = IF k = 0 THEN top[t]
                      ELSE IF Chain(t)[k - 1] = Null THEN Null ELSE back[Chain(t)[k - 1]]
  <2>1. ChainEq(Chain(t), t, C) BY ChainSolves
  <2> HIDE DEF C
  <2> QED BY <2>1 DEF ChainEq
<1> HIDE DEF C
<1>4. 0 \in S
  <2>1. Chain(t)[0] = top[t] BY <1>1, <1>3
  <2> QED BY <1>2, <2>1 DEF IsStacks
<1>5. ASSUME NEW n \in Nat, n \in S PROVE n + 1 \in S
  <2>1. SUFFICES ASSUME n + 1 <= C
                 PROVE  Chain(t)[n + 1] = IF n + 1 < L THEN fs[t][L - (n + 1)] ELSE Null
    OBVIOUS
  <2>2. Chain(t)[n] = IF n < L THEN fs[t][L - n] ELSE Null BY <1>1, <1>5, <2>1
  <2>3. Chain(t)[n + 1] = IF Chain(t)[n] = Null THEN Null ELSE back[Chain(t)[n]]
    BY <1>1, <1>3, <2>1
  <2>4. CASE n < L
    <3>1. fs[t][L - n] \in Frames BY <1>2, <2>4
    <3>2. back[fs[t][L - n]] = IF L - n = 1 THEN Null ELSE fs[t][(L - n) - 1]
      <4>1. \A i \in 1..Len(fs[t]) : back[fs[t][i]] = IF i = 1 THEN Null ELSE fs[t][i - 1]
        BY Zenon DEF IsStacks
      <4>2. L - n \in 1..Len(fs[t]) BY <1>2, <2>4
      <4> QED BY <4>1, <4>2, Zenon
    <3>3. (L - n) - 1 = L - (n + 1) BY <1>2
    <3> QED BY <1>2, <2>2, <2>3, <2>4, <3>1, <3>2, <3>3
  <2>5. CASE ~(n < L) BY <1>2, <2>2, <2>3, <2>5
  <2> QED BY <2>4, <2>5
<1> HIDE DEF S
<1>6. Nat \subseteq S BY <1>4, <1>5, SetInduction
<1> QED BY <1>1, <1>6 DEF S, C

\* The frames of a thread are those of its stack.
LEMMA FramesOfStack ==
  ASSUME TypeOK, NEW fs, IsStacks(fs), NEW t \in Threads
  PROVE  /\ FramesOf(t) = {fs[t][i] : i \in 1..Len(fs[t])}
         /\ Cardinality(FramesOf(t)) = Len(fs[t])
<1> DEFINE L == Len(fs[t])
           F == {fs[t][i] : i \in 1..L}
<1>1. fs[t] \in Seq(Frames) /\ L \in 0..Cardinality(Frames) BY StackFits DEF IsStacks
<1>2. Cardinality(Frames) \in Nat BY FS_CardinalityType
<1>3. \A n \in 0..Cardinality(Frames) :
        Chain(t)[n] = IF n < L THEN fs[t][L - n] ELSE Null
  BY ChainIsStack
<1>4. FramesOf(t) \subseteq F BY <1>1, <1>2, <1>3 DEF FramesOf
<1>5. ASSUME NEW i \in 1..L PROVE fs[t][i] \in FramesOf(t)
  <2>1. L - i \in 0..Cardinality(Frames) /\ L - i < L /\ L - (L - i) = i BY <1>1, <1>2
  <2>2. Chain(t)[L - i] = fs[t][i] BY <1>3, <2>1
  <2>3. fs[t][i] \in Frames BY <1>1
  <2> QED BY <2>1, <2>2, <2>3 DEF FramesOf
<1>6. FramesOf(t) = F BY <1>4, <1>5
<1>7. Cardinality(F) = L
  <2> DEFINE g == [i \in 1..L |-> fs[t][i]]
  <2>1. \A i, j \in 1..L : fs[t][i] = fs[t][j] => i = j BY DEF IsStacks
  <2>2. g \in Bijection(1..L, F)
    BY <2>1 DEF Bijection, Injection, Surjection, IsInjective
  <2>3. L \in Nat BY <1>1, <1>2
  <2> QED BY <2>2, <2>3, FS_CountingElements DEF ExistsBijection
<1> QED BY <1>6, <1>7

\* What the properties of Snapshot call a stack is the functions of its frames.
LEMMA StackOfIsCodes ==
  ASSUME TypeOK, NEW fs, IsStacks(fs), NEW t \in Threads
  PROVE  StackOf(t) = CodesOf(fs, t)
<1> DEFINE L == Len(fs[t])
<1>1. L \in 0..Cardinality(Frames) BY StackFits
<1>2. Cardinality(Frames) \in Nat BY FS_CardinalityType
<1>3. StackOf(t) = [i \in 1..L |-> code[Chain(t)[i - 1]]] BY FramesOfStack DEF StackOf
<1>4. ASSUME NEW i \in 1..L PROVE Chain(t)[i - 1] = fs[t][L - i + 1]
  <2>1. i - 1 \in 0..Cardinality(Frames) /\ i - 1 < L /\ L - (i - 1) = L - i + 1
    BY <1>1, <1>2
  <2>2. Chain(t)[i - 1] = fs[t][L - (i - 1)] BY <2>1, ChainIsStack
  <2> QED BY <2>1, <2>2
<1> HIDE DEF L
<1>5. StackOf(t) = [i \in 1..L |-> code[fs[t][L - i + 1]]] BY <1>3, <1>4
<1> QED BY <1>5 DEF CodesOf, L

\* A frame that is taken for a call is in no stack.
LEMMA FreeIsFree ==
  ASSUME Inv, NEW fs, IsStacks(fs), NEW f \in FreeFrames, NEW t \in Threads
  PROVE  \A i \in 1..Len(fs[t]) : fs[t][i] # f
<1>1. TypeOK BY DEF Inv
<1>2. CASE t \in live
  <2>1. f \notin FramesOf(t) BY <1>2 DEF FreeFrames
  <2> QED BY <1>1, <2>1, FramesOfStack
<1>3. CASE t \notin live BY <1>3 DEF IsStacks
<1> QED BY <1>2, <1>3

----------------------------------------------------------------------------
(* The interpreter's steps keep the stacks and the list.                   *)

\* A call puts one frame onto one stack, and changes the functions of no other.
LEMMA CallKeepsStacks ==
  ASSUME Inv, NEW fs, IsStacks(fs), NEW t \in Threads, CallFunction(t)
  PROVE  \E gs : /\ IsStacks(gs)'
                 /\ \A u \in Threads \ {t} : gs[u] = fs[u] /\ CodesOf(gs, u)' = CodesOf(fs, u)
<1>0. /\ top \in [Threads -> Frames \cup {Null}] /\ code \in [Frames -> Codes]
      /\ back \in [Frames -> Frames \cup {Null}]
  BY DEF Inv, TypeOK
<1>1. PICK f \in FreeFrames, c \in Codes :
        /\ code' = [code EXCEPT ![f] = c]
        /\ back' = [back EXCEPT ![f] = top[t]]
        /\ top' = [top EXCEPT ![t] = f]
  BY DEF CallFunction
<1>2. live' = live /\ t \in live BY DEF CallFunction, Inv, Linked
<1> DEFINE gs == [fs EXCEPT ![t] = Append(fs[t], f)]
<1>3. f \in Frames BY DEF FreeFrames
<1>4. \A u \in Threads : fs[u] \in Seq(Frames) BY DEF IsStacks
<1>5. \A u \in Threads : \A i \in 1..Len(fs[u]) : fs[u][i] # f BY FreeIsFree
<1>6. gs \in [Threads -> Seq(Frames)] /\ \A u \in Threads \ {t} : gs[u] = fs[u]
  BY <1>3, <1>4 DEF IsStacks
<1>7. /\ gs[t] = Append(fs[t], f) /\ Len(gs[t]) = Len(fs[t]) + 1 /\ Len(fs[t]) \in Nat
      /\ gs[t][Len(fs[t]) + 1] = f /\ \A i \in 1..Len(fs[t]) : gs[t][i] = fs[t][i]
  BY <1>4, <1>6 DEF IsStacks
<1>b. \A u \in Threads : \A i \in 1..Len(fs[u]) :
        back[fs[u][i]] = IF i = 1 THEN Null ELSE fs[u][i - 1]
  BY Zenon DEF IsStacks
<1>d. \A u, v \in Threads : \A i \in 1..Len(fs[u]), j \in 1..Len(fs[v]) :
        fs[u][i] = fs[v][j] => u = v /\ i = j
  BY Zenon DEF IsStacks
<1> DEFINE Old(u, i) == i \in 1..Len(fs[u]) /\ gs[u][i] = fs[u][i] /\ fs[u][i] # f
           New(u, i) == u = t /\ i = Len(fs[t]) + 1 /\ gs[u][i] = f
<1> HIDE DEF gs
<1>a. \A u \in Threads : \A i \in 1..Len(fs[u]) : Old(u, i)
  <2>1. \A i \in 1..Len(fs[t]) : Old(t, i) BY <1>5, <1>7
  <2>2. \A u \in Threads \ {t} : \A i \in 1..Len(fs[u]) : Old(u, i) BY <1>5, <1>6
  <2> QED BY <2>1, <2>2
<1>c. \A u \in Threads : \A i \in 1..Len(gs[u]) : Old(u, i) \/ New(u, i)
  <2>1. \A i \in 1..Len(gs[t]) : i \in 1..Len(fs[t]) \/ i = Len(fs[t]) + 1 BY <1>7
  <2>2. \A i \in 1..Len(gs[t]) : Old(t, i) \/ New(t, i) BY <1>7, <1>a, <2>1
  <2>3. \A u \in Threads \ {t} : \A i \in 1..Len(gs[u]) : Old(u, i) BY <1>6, <1>a
  <2> QED BY <2>2, <2>3
<1>8. IsStacks(gs)'
  <2>1. \A u \in Threads : u \notin live' => gs[u] = <<>> BY <1>2, <1>6 DEF IsStacks
  <2>2. \A u \in Threads : top'[u] = IF gs[u] = <<>> THEN Null ELSE gs[u][Len(gs[u])]
    BY <1>0, <1>1, <1>6, <1>7 DEF IsStacks
  <2>3. ASSUME NEW u \in Threads, NEW i \in 1..Len(gs[u])
        PROVE  back'[gs[u][i]] = IF i = 1 THEN Null ELSE gs[u][i - 1]
    <3>1. CASE u = t /\ i = Len(fs[t]) + 1
      <4>1. back'[f] = top[t] BY <1>0, <1>1, <1>3
      <4>2. top[t] = IF fs[t] = <<>> THEN Null ELSE fs[t][Len(fs[t])] BY DEF IsStacks
      <4>3. fs[t] = <<>> <=> Len(fs[t]) = 0 BY <1>4
      <4> QED BY <1>7, <3>1, <4>1, <4>2, <4>3
    <3>2. CASE ~(u = t /\ i = Len(fs[t]) + 1)
      <4>1. Old(u, i) BY <1>c, <3>2
      <4>2. fs[u][i] # f /\ fs[u][i] \in Frames BY <1>4, <1>5, <4>1
      <4>3. back'[fs[u][i]] = back[fs[u][i]] BY <1>0, <1>1, <4>2
      <4>4. i # 1 => gs[u][i - 1] = fs[u][i - 1]
        <5>1. fs[u] \in Seq(Frames) BY <1>4
        <5>2. i # 1 => i - 1 \in 1..Len(fs[u]) BY <4>1, <5>1
        <5> QED BY <1>a, <5>2
      <4>5. back[fs[u][i]] = IF i = 1 THEN Null ELSE fs[u][i - 1] BY <1>b, <4>1
      <4> QED BY <4>1, <4>3, <4>4, <4>5
    <3> QED BY <3>1, <3>2
  <2>4. ASSUME NEW u \in Threads, NEW v \in Threads, NEW i \in 1..Len(gs[u]),
               NEW j \in 1..Len(gs[v]), gs[u][i] = gs[v][j]
        PROVE  u = v /\ i = j
    <3>1. ASSUME Old(u, i), Old(v, j) PROVE u = v /\ i = j
      <4>1. i \in 1..Len(fs[u]) /\ j \in 1..Len(fs[v]) BY <3>1
      <4>2. fs[u][i] = fs[v][j] BY <2>4, <3>1
      <4> HIDE DEF Old
      <4> QED BY <1>d, <4>1, <4>2
    <3>2. New(u, i) /\ New(v, j) => u = v /\ i = j OBVIOUS
    <3>3. ~(Old(u, i) /\ New(v, j)) /\ ~(New(u, i) /\ Old(v, j)) BY <2>4
    <3>4. (Old(u, i) \/ New(u, i)) /\ (Old(v, j) \/ New(v, j)) BY <1>c
    <3> QED BY <3>1, <3>2, <3>3, <3>4
  <2> QED BY <1>6, <2>1, <2>2, <2>3, <2>4 DEF IsStacks
<1>9. ASSUME NEW u \in Threads \ {t} PROVE CodesOf(gs, u)' = CodesOf(fs, u)
  <2>1. \A i \in 1..Len(fs[u]) : code'[fs[u][Len(fs[u]) - i + 1]] = code[fs[u][Len(fs[u]) - i + 1]]
    BY <1>0, <1>1, <1>3, <1>4, <1>5
  <2> QED BY <1>6, <2>1 DEF CodesOf
<1> QED BY <1>6, <1>8, <1>9

\* A return takes the newest frame off one stack.
LEMMA ReturnKeepsStacks ==
  ASSUME Inv, NEW fs, IsStacks(fs), NEW t \in Threads, ReturnFromFunction(t)
  PROVE  \E gs : /\ IsStacks(gs)'
                 /\ \A u \in Threads \ {t} : gs[u] = fs[u] /\ CodesOf(gs, u)' = CodesOf(fs, u)
<1>0. /\ top \in [Threads -> Frames \cup {Null}] /\ code \in [Frames -> Codes]
      /\ back \in [Frames -> Frames \cup {Null}]
  BY DEF Inv, TypeOK
<1>1. /\ top' = [top EXCEPT ![t] = back[top[t]]] /\ back' = [back EXCEPT ![top[t]] = Null]
      /\ live' = live /\ code' = code /\ top[t] # Null
  BY DEF ReturnFromFunction
<1> DEFINE L == Len(fs[t])
           gs == [fs EXCEPT ![t] = SubSeq(fs[t], 1, L - 1)]
<1>2. \A u \in Threads : fs[u] \in Seq(Frames) BY DEF IsStacks
<1>3. fs[t] # <<>> /\ top[t] = fs[t][L] /\ L \in Nat \ {0} /\ top[t] \in Frames
  BY <1>0, <1>1, <1>2 DEF IsStacks
<1>4. /\ \A u \in Threads : \A i \in 1..Len(fs[u]) :
           back[fs[u][i]] = IF i = 1 THEN Null ELSE fs[u][i - 1]
      /\ \A u, v \in Threads : \A i \in 1..Len(fs[u]), j \in 1..Len(fs[v]) :
           fs[u][i] = fs[v][j] => u = v /\ i = j
  BY Zenon DEF IsStacks
<1>5. gs \in [Threads -> Seq(Frames)] /\ \A u \in Threads \ {t} : gs[u] = fs[u]
  BY <1>2, <1>3 DEF IsStacks
<1>6. gs[t] = SubSeq(fs[t], 1, L - 1) BY DEF IsStacks
<1>7. Len(gs[t]) = L - 1 /\ \A i \in 1..(L - 1) : gs[t][i] = fs[t][i]
  BY <1>2, <1>3, <1>6
<1>a. /\ \A i \in 1..L : back[fs[t][i]] = IF i = 1 THEN Null ELSE fs[t][i - 1]
      /\ \A i, j \in 1..L : fs[t][i] = fs[t][j] => i = j
  BY <1>4
<1> HIDE DEF gs, L
<1>8. \A u \in Threads : \A i \in 1..Len(gs[u]) :
        i \in 1..Len(fs[u]) /\ gs[u][i] = fs[u][i] /\ fs[u][i] # top[t]
  <2>1. \A i \in 1..(L - 1) : i \in 1..L /\ L \in 1..L /\ i # L BY <1>3
  <2>2. \A i \in 1..Len(gs[t]) : i \in 1..L /\ gs[t][i] = fs[t][i] /\ fs[t][i] # top[t]
    BY <1>3, <1>7, <1>a, <2>1
  <2>3. \A u \in Threads \ {t} : \A i \in 1..Len(gs[u]) :
          i \in 1..Len(fs[u]) /\ gs[u][i] = fs[u][i] /\ fs[u][i] # top[t]
    <3> SUFFICES ASSUME NEW u \in Threads \ {t}, NEW i \in 1..Len(gs[u])
                 PROVE  i \in 1..Len(fs[u]) /\ gs[u][i] = fs[u][i] /\ fs[u][i] # top[t]
      OBVIOUS
    <3>1. gs[u] = fs[u] BY <1>5
    <3>2. L \in 1..Len(fs[t]) BY <1>3 DEF L
    <3>3. fs[u][i] # fs[t][L] BY <1>4, <3>1, <3>2, Zenon
    <3> QED BY <1>3, <3>1, <3>3
  <2> QED BY <2>2, <2>3 DEF L
<1>9. IsStacks(gs)'
  <2>1. \A u \in Threads : u \notin live' => gs[u] = <<>>
    BY <1>1, <1>3, <1>5 DEF IsStacks
  <2>2. ASSUME NEW u \in Threads
        PROVE  top'[u] = IF gs[u] = <<>> THEN Null ELSE gs[u][Len(gs[u])]
    <3>1. CASE u = t
      <4>1. L \in 1..L BY <1>3
      <4>2. back[top[t]] = IF L = 1 THEN Null ELSE fs[t][L - 1] BY <1>3, <1>a, <4>1
      <4>3. top'[t] = back[top[t]] BY <1>0, <1>1
      <4>4. gs[t] \in Seq(Frames) BY <1>5
      <4>5. gs[t] = <<>> <=> L = 1 BY <1>3, <1>7, <4>4
      <4>6. L # 1 => gs[t][L - 1] = fs[t][L - 1] BY <1>3, <1>7
      <4> QED BY <1>7, <3>1, <4>2, <4>3, <4>5, <4>6
    <3>2. CASE u # t BY <1>0, <1>1, <1>5, <3>2 DEF IsStacks
    <3> QED BY <3>1, <3>2
  <2>3. ASSUME NEW u \in Threads, NEW i \in 1..Len(gs[u])
        PROVE  back'[gs[u][i]] = IF i = 1 THEN Null ELSE gs[u][i - 1]
    <3>1. i \in 1..Len(fs[u]) /\ gs[u][i] = fs[u][i] /\ fs[u][i] # top[t] BY <1>8
    <3>2. fs[u][i] \in Frames BY <1>2, <3>1
    <3>3. back'[fs[u][i]] = back[fs[u][i]] BY <1>0, <1>1, <3>1, <3>2
    <3>4. gs[u] \in Seq(Frames) BY <1>5
    <3>5. i # 1 => i - 1 \in 1..Len(gs[u]) BY <3>4
    <3>6. i # 1 => gs[u][i - 1] = fs[u][i - 1] BY <1>8, <3>5
    <3> QED BY <1>4, <3>1, <3>3, <3>6
  <2>4. ASSUME NEW u \in Threads, NEW v \in Threads, NEW i \in 1..Len(gs[u]),
               NEW j \in 1..Len(gs[v]), gs[u][i] = gs[v][j]
        PROVE  u = v /\ i = j
    <3>1. i \in 1..Len(fs[u]) /\ j \in 1..Len(fs[v]) /\ fs[u][i] = fs[v][j] BY <1>8, <2>4
    <3> QED BY <1>4, <3>1
  <2> QED BY <1>5, <2>1, <2>2, <2>3, <2>4 DEF IsStacks
<1>10. \A u \in Threads \ {t} : CodesOf(gs, u)' = CodesOf(fs, u)
  BY <1>1, <1>5 DEF CodesOf
<1> QED BY <1>5, <1>9, <1>10

\* Threads come and go with no frames.
LEMMA ThreadsKeepStacks ==
  ASSUME Inv, NEW fs, IsStacks(fs), UNCHANGED <<top, back, code>>,
         \A w \in Threads : w \in live /\ w \notin live' => top[w] = Null
  PROVE  IsStacks(fs)' /\ \A u \in Threads : CodesOf(fs, u)' = CodesOf(fs, u)
<1>1. \A w \in Threads : top[w] = Null => fs[w] = <<>>
  BY DEF IsStacks
<1>2. \A w \in Threads : w \notin live' => fs[w] = <<>> BY <1>1 DEF IsStacks
<1>3. IsStacks(fs)' BY <1>2 DEF IsStacks
<1>4. \A u \in Threads : CodesOf(fs, u)' = CodesOf(fs, u) BY DEF CodesOf
<1> QED BY <1>3, <1>4

\* A new thread is the first of the list.
LEMMA StartKeepsOrder ==
  ASSUME Inv, NEW pos, IsOrder(pos), NEW w \in Workers, StartThread(w)
  PROVE  \E p : IsOrder(p)'
<1>0. PICK first \in Int : first = pos[head] - 1
  BY DEF IsOrder, Inv, TypeOK
<1> DEFINE p == [pos EXCEPT ![w] = first]
<1>1. p[w] = pos[head] - 1 /\ pos[head] \in Int /\ \A t \in live : p[t] = pos[t]
  BY <1>0 DEF StartThread, IsOrder, Inv, TypeOK
<1>2. p \in [Threads -> Int] BY <1>1 DEF IsOrder
<1>3. \A t \in live : pos[t] \in Int BY DEF IsOrder, Inv, TypeOK
<1>4. /\ live' = live \cup {w} /\ w \notin live /\ head' = w
      /\ next'[w] = head /\ \A t \in live : next'[t] = next[t]
  BY DEF StartThread, Inv, TypeOK
<1> HIDE DEF p
<1>5. IsOrder(p)'
  <2>1. head' \in live' BY <1>4
  <2>2. \A t \in live' : p[head'] <= p[t] /\ p[t] <= p[Leader]
    BY <1>1, <1>3, <1>4 DEF IsOrder, Inv, Linked
  <2>3. \A t, u \in live' : p[t] = p[u] => t = u
    BY <1>1, <1>3, <1>4 DEF IsOrder
  <2>4. ASSUME NEW t \in live', next'[t] # Null
        PROVE  /\ next'[t] \in live' /\ p[t] < p[next'[t]]
               /\ \A u \in live' : p[u] <= p[t] \/ p[next'[t]] <= p[u]
    <3>1. CASE t = w BY <1>1, <1>3, <1>4, <3>1 DEF IsOrder
    <3>2. CASE t # w
      <4>1. t \in live /\ next'[t] = next[t] /\ p[t] = pos[t] BY <1>1, <1>4, <3>2
      <4>2. /\ next[t] \in live /\ pos[t] < pos[next[t]]
            /\ \A u \in live : pos[u] <= pos[t] \/ pos[next[t]] <= pos[u]
        BY <2>4, <4>1 DEF IsOrder
      <4>3. p[next[t]] = pos[next[t]] /\ p[w] <= p[t] BY <1>1, <1>3, <4>1, <4>2 DEF IsOrder
      <4> QED BY <1>1, <1>4, <4>1, <4>2, <4>3
    <3> QED BY <3>1, <3>2
  <2> QED BY <1>2, <2>1, <2>2, <2>3, <2>4 DEF IsOrder
<1> QED BY <1>5

\* The one that ends is unlinked, wherever it stands.
LEMMA EndKeepsOrder ==
  ASSUME Inv, NEW pos, IsOrder(pos), NEW w \in Workers, EndThread(w)
  PROVE  IsOrder(pos)'
<1>1. /\ live' = live \ {w} /\ w # Leader /\ w \in live
      /\ head' = (IF head = w THEN next[w] ELSE head)
      /\ \A t \in live' : next'[t] = IF next[t] = w THEN next[w] ELSE next[t]
  BY DEF EndThread, Inv, TypeOK, Linked
<1>2. \A t \in live : pos[t] \in Int BY DEF IsOrder, Inv, TypeOK
<1>3. \A t \in live : next[t] # Null =>
        /\ next[t] \in live /\ pos[t] < pos[next[t]]
        /\ \A u \in live : pos[u] <= pos[t] \/ pos[next[t]] <= pos[u]
  BY DEF IsOrder
<1>4. next[w] # Null BY <1>1 DEF Inv, Linked
<1>5. next[w] \in live' BY <1>1, <1>2, <1>3, <1>4
<1>6. head' \in live' BY <1>1, <1>5 DEF IsOrder
<1>7. \A t \in live' : pos[head'] <= pos[t] /\ pos[t] <= pos[Leader]
  <2>1. CASE head = w
    <3>1. \A t \in live' : pos[w] <= pos[t] /\ pos[t] # pos[w] BY <1>1, <2>1 DEF IsOrder
    <3>2. \A t \in live' : pos[next[w]] <= pos[t] BY <1>1, <1>2, <1>3, <1>4, <3>1
    <3> QED BY <1>1, <2>1, <3>2 DEF IsOrder
  <2>2. CASE head # w BY <1>1, <2>2 DEF IsOrder
  <2> QED BY <2>1, <2>2
<1>8. ASSUME NEW t \in live', next'[t] # Null
      PROVE  /\ next'[t] \in live' /\ pos[t] < pos[next'[t]]
             /\ \A u \in live' : pos[u] <= pos[t] \/ pos[next'[t]] <= pos[u]
  <2>1. CASE next[t] = w
    <3>1. next'[t] = next[w] /\ t \in live BY <1>1, <2>1
    <3>2. w # Null BY DEF Inv, TypeOK
    <3>3. /\ pos[t] < pos[w] /\ pos[w] < pos[next[w]]
          /\ \A u \in live : pos[u] <= pos[t] \/ pos[w] <= pos[u]
          /\ \A u \in live : pos[u] <= pos[w] \/ pos[next[w]] <= pos[u]
      BY <1>1, <1>3, <1>4, <2>1, <3>1, <3>2
    <3>4. \A u \in live' : u \in live /\ pos[u] # pos[w] BY <1>1 DEF IsOrder
    <3>5. \A u \in live' : pos[u] <= pos[t] \/ pos[next[w]] <= pos[u]
      BY <1>1, <1>2, <3>1, <3>3, <3>4
    <3> QED BY <1>1, <1>2, <1>5, <3>1, <3>3, <3>5
  <2>2. CASE next[t] # w BY <1>1, <1>3, <1>8, <2>2
  <2> QED BY <2>1, <2>2
<1>9. \A t, u \in live' : pos[t] = pos[u] => t = u BY <1>1 DEF IsOrder
<1> QED BY <1>6, <1>7, <1>8, <1>9 DEF IsOrder

\* What the others do leaves the stopped leader's stack as it is, and they
\* have the GIL for it.
LEMMA InterpreterKeepsStacks ==
  ASSUME Inv, NEW fs, IsStacks(fs), InterpreterStep
  PROVE  \E gs :
           /\ IsStacks(gs)'
           /\ pc # "run" => gs[Leader] = fs[Leader] /\ CodesOf(gs, Leader)' = CodesOf(fs, Leader)
<1>1. ASSUME NEW t \in Threads, CallFunction(t) \/ ReturnFromFunction(t)
      PROVE  \E gs :
               /\ IsStacks(gs)'
               /\ pc # "run" => gs[Leader] = fs[Leader] /\ CodesOf(gs, Leader)' = CodesOf(fs, Leader)
  <2>1. pc # "run" => t # Leader BY <1>1 DEF CallFunction, ReturnFromFunction, Runs
  <2>2. Leader \in Threads OBVIOUS
  <2>3. PICK gs :
          /\ IsStacks(gs)'
          /\ \A u \in Threads \ {t} : gs[u] = fs[u] /\ CodesOf(gs, u)' = CodesOf(fs, u)
    BY <1>1, CallKeepsStacks, ReturnKeepsStacks
  <2> QED BY <2>1, <2>2, <2>3
<1>2. ASSUME NEW t \in Threads, DropGil(t) \/ TakeGil(t)
      PROVE  IsStacks(fs)' /\ CodesOf(fs, Leader)' = CodesOf(fs, Leader)
  <2>1. UNCHANGED <<top, back, code, live>> BY <1>2 DEF DropGil, TakeGil
  <2> QED BY <2>1, ThreadsKeepStacks
<1>3. ASSUME NEW w \in Workers, StartThread(w)
      PROVE  IsStacks(fs)' /\ CodesOf(fs, Leader)' = CodesOf(fs, Leader)
  <2>1. UNCHANGED <<top, back, code>> /\ live \subseteq live' BY <1>3 DEF StartThread
  <2> QED BY <2>1, ThreadsKeepStacks
<1>4. ASSUME NEW w \in Workers, EndThread(w)
      PROVE  IsStacks(fs)' /\ CodesOf(fs, Leader)' = CodesOf(fs, Leader)
  <2>1. UNCHANGED <<top, back, code>> /\ live' = live \ {w} /\ top[w] = Null
    BY <1>4 DEF EndThread
  <2> QED BY <2>1, ThreadsKeepStacks
<1> QED BY <1>1, <1>2, <1>3, <1>4 DEF InterpreterStep

\* Every step of the interpreter leaves the list an order of the live threads.
LEMMA InterpreterKeepsOrder ==
  ASSUME Inv, NEW pos, IsOrder(pos), InterpreterStep
  PROVE  \E p : IsOrder(p)'
<1>1. ASSUME NEW t \in Threads,
             CallFunction(t) \/ ReturnFromFunction(t) \/ DropGil(t) \/ TakeGil(t)
      PROVE  IsOrder(pos)'
  <2>1. UNCHANGED <<head, next, live>>
    BY <1>1 DEF CallFunction, ReturnFromFunction, DropGil, TakeGil
  <2> QED BY <2>1 DEF IsOrder
<1> QED BY <1>1, StartKeepsOrder, EndKeepsOrder DEF InterpreterStep

\* While the leader is stopped the GIL does not come to it.
LEMMA GilStays ==
  ASSUME Inv, InterpreterStep, pc # "run"
  PROVE  current' # Leader
<1> USE DEF Inv, TypeOK, Linked
<1>1. ASSUME NEW t \in Threads, t # Leader,
             CallFunction(t) \/ ReturnFromFunction(t) \/ DropGil(t) \/ TakeGil(t)
      PROVE  current' # Leader
  BY <1>1 DEF CallFunction, ReturnFromFunction, DropGil, TakeGil, Runs
<1>2. ~(CallFunction(Leader) \/ ReturnFromFunction(Leader) \/ DropGil(Leader) \/ TakeGil(Leader))
  BY DEF CallFunction, ReturnFromFunction, DropGil, TakeGil, Runs
<1>3. ASSUME NEW w \in Workers, StartThread(w) PROVE current' # Leader
  BY <1>3 DEF StartThread, Runs
<1>4. ASSUME NEW w \in Workers, EndThread(w) PROVE current' # Leader
  BY <1>4 DEF EndThread
<1> QED BY <1>1, <1>2, <1>3, <1>4 DEF InterpreterStep

\* Whatever the interpreter does, what has been read remains right: of the
\* leader always, of the others while the leader has the GIL.
LEMMA InterpreterKeepsStackInv ==
  ASSUME Inv, StackInv, InterpreterStep
  PROVE  StackInv'
<1>1. PICK fs, pos : IsStacks(fs) /\ IsOrder(pos) /\ ReadRight(fs, pos) BY DEF StackInv
<1>2. PICK gs :
        /\ IsStacks(gs)'
        /\ pc # "run" => gs[Leader] = fs[Leader] /\ CodesOf(gs, Leader)' = CodesOf(fs, Leader)
  BY <1>1, InterpreterKeepsStacks
<1>3. PICK p : IsOrder(p)' BY <1>1, InterpreterKeepsOrder
<1>4. UNCHANGED readerVars
  BY DEF InterpreterStep, CallFunction, ReturnFromFunction, DropGil, TakeGil, StartThread, EndThread
<1>5. ReadRight(gs, p)'
  <2>1. pc' \in {"run", "current", "head"} => threads' = <<>> BY <1>1, <1>4 DEF ReadRight
  <2>2. ASSUME pc' # "run" PROVE LeaderInv(gs)'
    <3>1. LeaderInv(fs) /\ pc # "run" BY <1>1, <1>4, <2>2 DEF ReadRight
    <3>2. gs[Leader] = fs[Leader] /\ CodesOf(gs, Leader)' = CodesOf(fs, Leader) BY <1>2, <3>1
    <3>3. pc' \in {"code", "back"} /\ tstate' = Leader => Walk(gs)'
      BY <1>4, <3>1, <3>2 DEF LeaderInv, Walk
    <3> QED BY <1>4, <3>1, <3>2, <3>3 DEF LeaderInv
  <2>3. pc' # "run" => current' # Leader BY <1>4, GilStays
  <2> QED BY <2>1, <2>2, <2>3 DEF ReadRight
<1> QED BY <1>2, <1>3, <1>5 DEF StackInv

----------------------------------------------------------------------------
(* GetThreads and FollowFrame, on stacks and a list that are kept.         *)

\* What is read next of a thread whose stack is right so far.
LEMMA WalkCode ==
  ASSUME Inv, NEW fs, IsStacks(fs), ReadCode, Walk(fs), tstate \in Threads
  PROVE  Walk(fs)'
<1>1. /\ pc = "code" /\ stack' = Append(stack, code[frame]) /\ pc' = "back"
      /\ frame' = frame /\ tstate' = tstate /\ code' = code
  BY DEF ReadCode, interpVars
<1> DEFINE n == Len(fs[tstate])
           k == Len(stack)
<1>2. n \in Nat /\ k \in Nat /\ stack \in Seq(Codes) BY DEF IsStacks, Inv, SequencesOK
<1>3. k < n /\ frame = fs[tstate][n - k] BY <1>1 DEF Walk
<1>4. frame \in Frames /\ code \in [Frames -> Codes] BY <1>1 DEF Inv, TypeOK
<1>5. Len(stack') = k + 1 /\ stack'[k + 1] = code[frame] /\ \A i \in 1..k : stack'[i] = stack[i]
  BY <1>1, <1>2, <1>4
<1>6. CodesOf(fs, tstate)' = CodesOf(fs, tstate) BY <1>1 DEF CodesOf
<1>7. \A i \in 1..k : stack[i] = CodesOf(fs, tstate)[i] BY DEF Walk
<1>8. CodesOf(fs, tstate)[k + 1] = code[frame]
  <2>1. k + 1 \in 1..n /\ n - (k + 1) + 1 = n - k BY <1>2, <1>3
  <2> HIDE DEF k
  <2> QED BY <1>3, <2>1 DEF CodesOf
<1> HIDE DEF k
<1>9. \A i \in 1..(k + 1) : stack'[i] = CodesOf(fs, tstate)'[i]
  BY <1>2, <1>5, <1>6, <1>7, <1>8
<1>10. 0 < k + 1 /\ k + 1 <= n /\ n - (k + 1) + 1 = n - k BY <1>2, <1>3
<1> QED BY <1>1, <1>3, <1>5, <1>9, <1>10 DEF Walk

\* A walk that has come to a null f_back has the whole stack.
LEMMA WalkBack ==
  ASSUME Inv, NEW fs, IsStacks(fs), ReadBack, Walk(fs), tstate \in Threads
  PROVE  /\ pc' = "code" => Walk(fs)'
         /\ pc' = "next" => stack = CodesOf(fs, tstate)
<1>1. /\ pc = "back" /\ frame' = back[frame] /\ pc' = (IF back[frame] = Null THEN "next" ELSE "code")
      /\ stack' = stack /\ tstate' = tstate /\ code' = code
  BY DEF ReadBack, interpVars
<1> DEFINE n == Len(fs[tstate])
           k == Len(stack)
<1>2. n \in Nat /\ k \in Nat /\ stack \in Seq(Codes) /\ fs[tstate] \in Seq(Frames)
  BY DEF IsStacks, Inv, SequencesOK
<1>3. 0 < k /\ k <= n /\ frame = fs[tstate][n - k + 1] BY <1>1 DEF Walk
<1>4. n - k + 1 \in 1..n BY <1>2, <1>3
<1>5. back[frame] = IF n - k + 1 = 1 THEN Null ELSE fs[tstate][(n - k + 1) - 1]
  BY <1>3, <1>4 DEF IsStacks
<1>6. n - k + 1 # 1 => (n - k + 1) - 1 = n - k /\ n - k \in 1..n BY <1>2, <1>3
<1>7. n - k + 1 # 1 => fs[tstate][n - k] \in Frames BY <1>2, <1>6
<1>8. back[frame] = Null <=> k = n
  <2>1. Null \notin Frames OBVIOUS
  <2> QED BY <1>2, <1>3, <1>5, <1>6, <1>7, <2>1
<1>9. CodesOf(fs, tstate)' = CodesOf(fs, tstate) BY <1>1 DEF CodesOf
<1>10. \A i \in 1..k : stack[i] = CodesOf(fs, tstate)[i] BY DEF Walk
<1>11. ASSUME pc' = "code" PROVE Walk(fs)'
  <2>1. k < n /\ frame' = fs[tstate][n - k] BY <1>1, <1>2, <1>3, <1>5, <1>6, <1>8, <1>11
  <2> QED BY <1>1, <1>9, <1>10, <1>11, <2>1 DEF Walk
<1>12. ASSUME pc' = "next" PROVE stack = CodesOf(fs, tstate)
  <2>1. k = n BY <1>1, <1>8, <1>12
  <2>2. stack = [i \in 1..k |-> stack[i]] BY <1>2
  <2>3. CodesOf(fs, tstate) = [i \in 1..n |-> CodesOf(fs, tstate)[i]] BY DEF CodesOf
  <2> HIDE DEF k, n
  <2> QED BY <1>10, <2>1, <2>2, <2>3
<1> QED BY <1>11, <1>12

\* One more sample.
LEMMA OneMore ==
  ASSUME Inv, ReadBack, back[frame] = Null
  PROVE  /\ Len(threads') = Len(threads) + 1 /\ Len(threads) \in Nat
         /\ \A i \in 1..Len(threads) : threads'[i] = threads[i]
         /\ threads'[Len(threads) + 1].id = tstate
         /\ threads'[Len(threads) + 1].current <=> tstate = is_current
         /\ threads'[Len(threads) + 1].stack = stack
         /\ Sampled' = Sampled \cup {tstate}
<1> DEFINE Row == [id |-> tstate, current |-> tstate = is_current, stack |-> stack]
<1>1. threads' = Append(threads, Row) BY Zenon DEF ReadBack, Finished
<1>2. threads \in Seq([id : Threads, current : BOOLEAN, stack : Seq(Codes)]) BY DEF Inv, SequencesOK
<1>3. Row.id = tstate /\ (Row.current <=> tstate = is_current) /\ Row.stack = stack OBVIOUS
<1> HIDE DEF Row
<1>4. /\ Len(threads') = Len(threads) + 1 /\ Len(threads) \in Nat
      /\ \A i \in 1..Len(threads) : threads'[i] = threads[i]
      /\ threads'[Len(threads) + 1] = Row
  BY <1>1, <1>2
<1>5. Sampled' = Sampled \cup {tstate}
  <2>1. \A i \in 1..Len(threads') : i \in 1..Len(threads) \/ i = Len(threads) + 1 BY <1>4
  <2>2. Len(threads) + 1 \in 1..Len(threads') /\ 1..Len(threads) \subseteq 1..Len(threads') BY <1>4
  <2> QED BY <1>3, <1>4, <2>1, <2>2 DEF Sampled
<1> QED BY <1>3, <1>4, <1>5

\* The reader changes neither the stacks nor the list.
LEMMA HeldUnchanged ==
  ASSUME Inv, NEW fs, NEW pos, IsStacks(fs), IsOrder(pos), UNCHANGED interpVars
  PROVE  /\ IsStacks(fs)' /\ IsOrder(pos)'
         /\ \A t \in Threads : CodesOf(fs, t)' = CodesOf(fs, t)
<1>1. IsStacks(fs)' BY DEF IsStacks
<1>2. IsOrder(pos)' BY DEF IsOrder
<1>3. \A t \in Threads : CodesOf(fs, t)' = CodesOf(fs, t) BY DEF CodesOf
<1> QED BY <1>1, <1>2, <1>3

\* The leader's frames and samples.
LEMMA ReaderKeepsLeader ==
  ASSUME Inv, NEW fs, NEW pos, IsStacks(fs), IsOrder(pos), ReadRight(fs, pos), ReaderStep
  PROVE  pc' # "run" => LeaderInv(fs)'
<1>0. UNCHANGED interpVars
  BY DEF ReaderStep, Hold, ReadCurrent, ReadHead, ReadThread, ReadCode, ReadBack, ReadNext, Continue
<1>1. CodesOf(fs, Leader)' = CodesOf(fs, Leader) BY <1>0, HeldUnchanged
<1>2. CASE Hold
  <2>1. threads' = <<>> /\ pc' = "current" BY <1>2 DEF Hold, ReadRight
  <2> QED BY <2>1 DEF LeaderInv
<1>3. CASE ReadCurrent \/ ReadHead \/ ReadNext
  <2>1. /\ threads' = threads /\ pc # "run"
        /\ pc' \notin {"code", "back"}
    BY <1>3 DEF ReadCurrent, ReadHead, ReadNext
  <2> QED BY <1>1, <2>1 DEF LeaderInv, ReadRight
<1>4. CASE ReadThread
  <2>1. /\ threads' = threads /\ pc # "run" /\ tstate' = tstate /\ frame' = top[tstate] /\ stack' = <<>>
        /\ pc' = (IF top[tstate] = Null THEN "next" ELSE "code")
    BY <1>4 DEF ReadThread
  <2>2. ASSUME pc' = "code", tstate' = Leader PROVE Walk(fs)'
    <3>1. fs[Leader] # <<>> /\ frame' = fs[Leader][Len(fs[Leader])] /\ fs[Leader] \in Seq(Frames)
      BY <2>1, <2>2 DEF IsStacks
    <3>2. 0 < Len(fs[Leader]) /\ Len(fs[Leader]) - 0 = Len(fs[Leader]) BY <3>1
    <3> QED BY <2>1, <2>2, <3>1, <3>2 DEF Walk
  <2> QED BY <1>1, <2>1, <2>2 DEF LeaderInv, ReadRight
<1>5. CASE ReadCode
  <2>1. threads' = threads /\ pc = "code" /\ tstate' = tstate BY <1>5 DEF ReadCode
  <2>2. tstate = Leader => Walk(fs)' BY <1>5, <2>1, WalkCode DEF ReadRight, LeaderInv
  <2> QED BY <1>1, <2>1, <2>2 DEF LeaderInv, ReadRight
<1>6. CASE ReadBack
  <2>1. /\ pc = "back" /\ tstate' = tstate /\ pc' = (IF back[frame] = Null THEN "next" ELSE "code")
        /\ back[frame] # Null => threads' = threads
    BY <1>6 DEF ReadBack
  <2>2. LeaderInv(fs) /\ (tstate = Leader => Walk(fs)) BY <2>1 DEF ReadRight, LeaderInv
  <2>3. CASE back[frame] # Null
    <3>1. tstate = Leader => Walk(fs)' BY <1>6, <2>1, <2>2, <2>3, WalkBack
    <3> QED BY <1>1, <2>1, <2>2, <2>3, <3>1 DEF LeaderInv
  <2>4. CASE back[frame] = Null
    <3>1. tstate = Leader => stack = CodesOf(fs, Leader) BY <1>6, <2>1, <2>2, <2>4, WalkBack
    <3>2. /\ Len(threads') = Len(threads) + 1 /\ Len(threads) \in Nat
          /\ \A i \in 1..Len(threads) : threads'[i] = threads[i]
          /\ threads'[Len(threads) + 1].id = tstate
          /\ threads'[Len(threads) + 1].stack = stack
      BY <1>6, <2>4, OneMore
    <3>3. ASSUME NEW i \in 1..Len(threads'), threads'[i].id = Leader
          PROVE  threads'[i].stack = CodesOf(fs, Leader)
      <4>1. CASE i = Len(threads) + 1 BY <3>1, <3>2, <3>3, <4>1
      <4>2. CASE i \in 1..Len(threads) BY <2>2, <3>2, <3>3, <4>2 DEF LeaderInv
      <4> QED BY <3>2, <4>1, <4>2
    <3> QED BY <1>1, <2>1, <2>4, <3>3 DEF LeaderInv
  <2> QED BY <2>3, <2>4
<1>7. CASE Continue BY <1>7 DEF Continue
<1> QED BY <1>2, <1>3, <1>4, <1>5, <1>6, <1>7 DEF ReaderStep

\* With the GIL: the whole walk along the list.
LEMMA ReaderKeepsGil ==
  ASSUME Inv, NEW fs, NEW pos, IsStacks(fs), IsOrder(pos), ReadRight(fs, pos), ReaderStep,
         pc' # "run", current' = Leader
  PROVE  GilInv(fs, pos)'
<1>0. UNCHANGED interpVars
  BY DEF ReaderStep, Hold, ReadCurrent, ReadHead, ReadThread, ReadCode, ReadBack, ReadNext, Continue
<1>1. /\ \A t \in Threads : CodesOf(fs, t)' = CodesOf(fs, t)
      /\ current = Leader /\ Leader # Null /\ Leader \in live /\ live \subseteq Threads
      /\ \A i \in 1..Len(threads) : threads[i].id \in Threads
      /\ \A t \in live : pos[t] \in Int
  <2>1. \A t \in Threads : CodesOf(fs, t)' = CodesOf(fs, t) BY <1>0, HeldUnchanged
  <2>2. current = Leader /\ Leader # Null BY <1>0
  <2>3. Leader \in live /\ live \subseteq Threads BY DEF Inv, Linked, TypeOK
  <2>4. \A i \in 1..Len(threads) : threads[i].id \in Threads BY DEF Inv, TypeOK, SequencesOK
  <2>5. \A t \in live : pos[t] \in Int BY <2>3 DEF IsOrder
  <2> QED BY <2>1, <2>2, <2>3, <2>4, <2>5
<1>2. CASE Hold
  <2>1. threads' = <<>> /\ pc' = "current" BY <1>2 DEF Hold, ReadRight
  <2> QED BY <2>1 DEF GilInv
<1>3. CASE ReadCurrent
  <2>1. /\ threads' = <<>> /\ is_current' = Leader
        /\ pc' = (IF enable_threads THEN "head" ELSE "thread")
        /\ ~enable_threads => tstate' = Leader
        /\ enable_threads' = enable_threads
    BY <1>1, <1>3 DEF ReadCurrent, ReadRight, modeVars, Inv, TypeOK
  <2>2. Sampled' = {} BY <2>1 DEF Sampled
  <2> QED BY <1>0, <1>1, <2>1, <2>2 DEF GilInv
<1>4. pc \in {"head", "thread", "code", "back", "next"} => GilInv(fs, pos)
  BY <1>1 DEF ReadRight
<1>5. CASE ReadHead
  <2>0. pc = "head" BY <1>5 DEF ReadHead
  <2>1. /\ threads' = <<>> /\ tstate' = head /\ pc' = "thread" /\ is_current' = Leader
        /\ enable_threads' /\ head \in live
    BY <1>4, <1>5, <2>0 DEF ReadHead, ReadRight, IsOrder, GilInv, modeVars
  <2>2. \A t \in live : ~(pos[t] < pos[head]) BY <1>1, <2>1 DEF IsOrder
  <2>3. Sampled' = {} BY <2>1 DEF Sampled
  <2>4. SampledTo({t \in live : pos[t] < pos[tstate]})'
    BY <1>0, <2>1, <2>2, <2>3 DEF SampledTo
  <2> QED BY <1>0, <1>1, <2>1, <2>4 DEF GilInv
<1>6. CASE ReadThread
  <2>1. /\ pc = "thread" /\ threads' = threads /\ tstate' = tstate /\ frame' = top[tstate] /\ stack' = <<>>
        /\ pc' = (IF top[tstate] = Null THEN "next" ELSE "code") /\ is_current' = is_current
        /\ enable_threads' = enable_threads
    BY <1>6 DEF ReadThread
  <2>2. tstate \in live BY <1>4, <2>1 DEF GilInv
  <2>3. Sampled' = Sampled BY <2>1 DEF Sampled
  <2>4. ASSUME top[tstate] # Null PROVE Walk(fs)'
    <3>1. /\ fs[tstate] # <<>> /\ frame' = fs[tstate][Len(fs[tstate])] /\ fs[tstate] \in Seq(Frames)
      BY <1>1, <2>1, <2>2, <2>4 DEF IsStacks
    <3>2. 0 < Len(fs[tstate]) /\ Len(fs[tstate]) - 0 = Len(fs[tstate]) BY <3>1
    <3> QED BY <2>1, <2>4, <3>1, <3>2 DEF Walk
  <2>5. CASE top[tstate] # Null
    <3>1. pc' = "code" BY <2>1, <2>5
    <3>2. enable_threads => SampledTo({t \in live : pos[t] < pos[tstate]})' 
      BY <1>0, <1>4, <2>1, <2>3 DEF GilInv, SampledTo
    <3>3. ~enable_threads => tstate = Leader /\ Sampled' = {} BY <1>4, <2>1, <2>3 DEF GilInv
    <3> QED BY <1>0, <1>1, <1>4, <2>1, <2>2, <2>4, <2>5, <3>1, <3>2, <3>3 DEF GilInv
  <2>6. CASE top[tstate] = Null
    <3>1. pc' = "next" BY <2>1, <2>6
    <3>2. enable_threads => SampledTo({t \in live : pos[t] <= pos[tstate]})'
      <4>1. enable_threads => Sampled = {t \in {u \in live : pos[u] < pos[tstate]} : top[t] # Null}
        BY <1>4, <2>1 DEF GilInv, SampledTo
      <4>2. \A t \in live : t = tstate \/ (pos[t] < pos[tstate] <=> pos[t] <= pos[tstate])
        BY <1>1, <2>2 DEF IsOrder
      <4>3. enable_threads => Sampled = {t \in {u \in live : pos[u] <= pos[tstate]} : top[t] # Null}
        BY <1>1, <2>2, <2>6, <4>1, <4>2
      <4> QED BY <1>0, <2>1, <2>3, <4>3 DEF SampledTo
    <3>3. ~enable_threads => tstate = Leader /\ SampledTo({Leader})'
      BY <1>0, <1>4, <2>1, <2>3, <2>6 DEF GilInv, SampledTo
    <3> QED BY <1>0, <1>1, <1>4, <2>1, <2>2, <3>1, <3>2, <3>3 DEF GilInv
  <2> QED BY <2>5, <2>6
<1>7. CASE ReadCode
  <2>1. /\ pc = "code" /\ threads' = threads /\ tstate' = tstate /\ pc' = "back"
        /\ is_current' = is_current /\ enable_threads' = enable_threads
    BY <1>7 DEF ReadCode
  <2>2. tstate \in live /\ Walk(fs) BY <1>4, <2>1 DEF GilInv
  <2>3. Walk(fs)' BY <1>1, <1>7, <2>2, WalkCode
  <2>4. Sampled' = Sampled BY <2>1 DEF Sampled
  <2>5. enable_threads => SampledTo({t \in live : pos[t] < pos[tstate]})'
    BY <1>0, <1>4, <2>1, <2>4 DEF GilInv, SampledTo
  <2>6. ~enable_threads => tstate = Leader /\ Sampled' = {} BY <1>4, <2>1, <2>4 DEF GilInv
  <2> QED BY <1>0, <1>1, <1>4, <2>1, <2>2, <2>3, <2>5, <2>6 DEF GilInv
<1>8. CASE ReadBack
  <2>1. /\ pc = "back" /\ tstate' = tstate /\ pc' = (IF back[frame] = Null THEN "next" ELSE "code")
        /\ back[frame] # Null => threads' = threads
        /\ is_current' = is_current /\ enable_threads' = enable_threads
    BY <1>8 DEF ReadBack
  <2>2. tstate \in live /\ Walk(fs) /\ is_current = Leader /\ top[tstate] # Null
    BY <1>4, <2>1 DEF GilInv
  <2>3. CASE back[frame] # Null
    <3>1. Walk(fs)' BY <1>1, <1>8, <2>1, <2>2, <2>3, WalkBack
    <3>2. Sampled' = Sampled BY <2>1, <2>3 DEF Sampled
    <3>3. enable_threads => SampledTo({t \in live : pos[t] < pos[tstate]})'
      BY <1>0, <1>4, <2>1, <3>2 DEF GilInv, SampledTo
    <3>4. ~enable_threads => tstate = Leader /\ Sampled' = {} BY <1>4, <2>1, <3>2 DEF GilInv
    <3> QED BY <1>0, <1>1, <1>4, <2>1, <2>2, <2>3, <3>1, <3>3, <3>4 DEF GilInv
  <2>4. CASE back[frame] = Null
    <3>1. stack = CodesOf(fs, tstate) BY <1>1, <1>8, <2>1, <2>2, <2>4, WalkBack
    <3>2. /\ Len(threads') = Len(threads) + 1 /\ Len(threads) \in Nat
          /\ \A i \in 1..Len(threads) : threads'[i] = threads[i]
          /\ threads'[Len(threads) + 1].id = tstate
          /\ threads'[Len(threads) + 1].current <=> tstate = is_current
          /\ threads'[Len(threads) + 1].stack = stack
          /\ Sampled' = Sampled \cup {tstate}
      BY <1>8, <2>4, OneMore
    <3>3. tstate \notin Sampled
      <4>1. ~(pos[tstate] < pos[tstate]) BY <1>1, <2>2
      <4> QED BY <1>4, <2>1, <4>1 DEF GilInv, SampledTo
    <3>4. \A i \in 1..Len(threads') : i = Len(threads) + 1 \/ i \in 1..Len(threads) BY <3>2
    <3>5. ASSUME NEW i \in 1..Len(threads')
          PROVE  /\ threads'[i].stack = CodesOf(fs, threads'[i].id)
                 /\ threads'[i].current <=> threads'[i].id = Leader
                 /\ threads'[i].id \in Threads
      <4>1. CASE i = Len(threads) + 1 BY <1>1, <2>2, <3>1, <3>2, <4>1
      <4>2. CASE i \in 1..Len(threads) BY <1>1, <1>4, <2>1, <3>2, <4>2 DEF GilInv
      <4> QED BY <3>4, <4>1, <4>2
    <3>6. ASSUME NEW i \in 1..Len(threads'), NEW j \in 1..Len(threads'), threads'[i].id = threads'[j].id
          PROVE  i = j
      <4>1. \A m \in 1..Len(threads) : threads[m].id # tstate BY <3>3 DEF Sampled
      <4>2. \A l, m \in 1..Len(threads) : threads[l].id = threads[m].id => l = m
        BY <1>4, <2>1 DEF GilInv
      <4> QED BY <3>2, <3>4, <3>6, <4>1, <4>2
    <3>7. enable_threads => SampledTo({t \in live : pos[t] <= pos[tstate]})'
      <4>1. enable_threads => Sampled = {t \in {u \in live : pos[u] < pos[tstate]} : top[t] # Null}
        BY <1>4, <2>1 DEF GilInv, SampledTo
      <4>2. \A t \in live : pos[t] <= pos[tstate] <=> t = tstate \/ pos[t] < pos[tstate]
        BY <1>1, <2>2 DEF IsOrder
      <4>3. enable_threads =>
              Sampled \cup {tstate} = {t \in {u \in live : pos[u] <= pos[tstate]} : top[t] # Null}
        BY <2>2, <4>1, <4>2
      <4> QED BY <1>0, <2>1, <3>2, <4>3 DEF SampledTo
    <3>8. ~enable_threads => tstate = Leader /\ SampledTo({Leader})'
      BY <1>0, <1>4, <2>1, <2>2, <3>2 DEF GilInv, SampledTo
    <3> QED BY <1>0, <1>1, <2>1, <2>2, <2>4, <3>5, <3>6, <3>7, <3>8 DEF GilInv
  <2> QED BY <2>3, <2>4
<1>9. CASE ReadNext
  <2>1. /\ pc = "next" /\ threads' = threads /\ tstate' = (IF enable_threads THEN next[tstate] ELSE Null)
        /\ pc' = (IF tstate' = Null THEN "done" ELSE "thread")
        /\ is_current' = is_current /\ enable_threads' = enable_threads
    BY <1>9 DEF ReadNext
  <2>2. tstate \in live /\ is_current = Leader BY <1>4, <2>1 DEF GilInv
  <2>3. Sampled' = Sampled BY <2>1 DEF Sampled
  <2>4. CASE ~enable_threads
    <3>1. SampledTo({Leader})' /\ pc' = "done" BY <1>0, <1>4, <2>1, <2>3, <2>4 DEF GilInv, SampledTo
    <3> QED BY <1>0, <1>1, <1>4, <2>1, <2>2, <2>4, <3>1 DEF GilInv
  <2>5. CASE enable_threads
    <3>1. Sampled = {t \in {u \in live : pos[u] <= pos[tstate]} : top[t] # Null}
      BY <1>4, <2>1, <2>5 DEF GilInv, SampledTo
    <3>2. CASE next[tstate] = Null
      <4>1. tstate = Leader BY <2>2, <3>2 DEF Inv, Linked
      <4>2. live = {u \in live : pos[u] <= pos[tstate]} BY <4>1 DEF IsOrder
      <4>3. SampledTo(live)' BY <1>0, <2>3, <3>1, <4>2 DEF SampledTo
      <4>4. pc' = "done" BY <2>1, <2>5, <3>2
      <4> QED BY <1>0, <1>1, <1>4, <2>1, <2>2, <2>5, <4>3, <4>4 DEF GilInv
    <3>3. CASE next[tstate] # Null
      <4>1. tstate' = next[tstate] /\ pc' = "thread" BY <2>1, <2>5, <3>3
      <4>2. /\ next[tstate] \in live /\ pos[tstate] < pos[next[tstate]]
            /\ \A u \in live : pos[u] <= pos[tstate] \/ pos[next[tstate]] <= pos[u]
        BY <2>2, <3>3 DEF IsOrder
      <4>3. \A u \in live : pos[u] <= pos[tstate] <=> pos[u] < pos[next[tstate]]
        BY <1>1, <2>2, <4>2
      <4>4. Sampled = {t \in {u \in live : pos[u] < pos[next[tstate]]} : top[t] # Null}
        BY <3>1, <4>3
      <4>5. SampledTo({t \in live : pos[t] < pos[tstate]})' BY <1>0, <2>3, <4>1, <4>4 DEF SampledTo
      <4> QED BY <1>0, <1>1, <1>4, <2>1, <2>2, <2>5, <4>1, <4>2, <4>5 DEF GilInv
    <3> QED BY <3>2, <3>3
  <2> QED BY <2>4, <2>5
<1>10. CASE Continue BY <1>10 DEF Continue
<1> QED BY <1>2, <1>3, <1>5, <1>6, <1>7, <1>8, <1>9, <1>10 DEF ReaderStep

\* Every step of GetThreads reads on along the stacks and the list.
LEMMA ReaderKeepsStackInv ==
  ASSUME Inv, StackInv, ReaderStep
  PROVE  StackInv'
<1>1. PICK fs, pos : IsStacks(fs) /\ IsOrder(pos) /\ ReadRight(fs, pos) BY DEF StackInv
<1>2. UNCHANGED interpVars
  BY DEF ReaderStep, Hold, ReadCurrent, ReadHead, ReadThread, ReadCode, ReadBack, ReadNext, Continue
<1>3. IsStacks(fs)' /\ IsOrder(pos)' BY <1>1, <1>2, HeldUnchanged
<1>4. pc' \in {"run", "current", "head"} => threads' = <<>>
  BY <1>1 DEF ReaderStep, Hold, ReadCurrent, ReadHead, ReadThread, ReadCode, ReadBack,
              ReadNext, Continue, ReadRight
<1>5. ReadRight(fs, pos)' BY <1>1, <1>4, ReaderKeepsLeader, ReaderKeepsGil DEF ReadRight
<1> QED BY <1>3, <1>5 DEF StackInv

----------------------------------------------------------------------------
(* The theorems.                                                           *)

\* The first state: one thread with one frame, and nothing read.
LEMMA InitStackInv == Init => StackInv
<1> SUFFICES ASSUME Init PROVE StackInv OBVIOUS
<1>1. PICK f \in Frames : top = [t \in Threads |-> IF t = Leader THEN f ELSE Null]
  BY DEF Init
<1> DEFINE fs == [t \in Threads |-> IF t = Leader THEN <<f>> ELSE <<>>]
           pos == [t \in Threads |-> 0]
<1>2. IsStacks(fs)
  <2>1. fs \in [Threads -> Seq(Frames)] OBVIOUS
  <2>2. fs[Leader] = <<f>> /\ \A t \in Threads \ {Leader} : fs[t] = <<>> /\ Len(fs[t]) = 0
    OBVIOUS
  <2>3. Len(fs[Leader]) = 1 /\ fs[Leader][1] = f BY <2>2
  <2> HIDE DEF fs
  <2>4. \A t \in Threads : \A i \in 1..Len(fs[t]) : t = Leader /\ i = 1
    <3>1. \A i \in 1..Len(fs[Leader]) : i = 1 BY <2>3
    <3>2. \A t \in Threads \ {Leader} : Len(fs[t]) = 0 BY <2>2
    <3> HIDE DEF Threads
    <3> QED BY <3>1, <3>2
  <2>5. \A t \in Threads : t \notin live => fs[t] = <<>> BY <2>2 DEF Init
  <2>6. \A t \in Threads : top[t] = IF fs[t] = <<>> THEN Null ELSE fs[t][Len(fs[t])]
    BY <1>1, <2>2, <2>3
  <2>7. \A t \in Threads : \A i \in 1..Len(fs[t]) :
          back[fs[t][i]] = IF i = 1 THEN Null ELSE fs[t][i - 1]
    BY <2>3, <2>4 DEF Init
  <2> QED BY <2>1, <2>4, <2>5, <2>6, <2>7 DEF IsStacks
<1>3. IsOrder(pos) BY DEF IsOrder, Init
<1>4. ReadRight(fs, pos) BY DEF ReadRight, Init
<1> QED BY <1>2, <1>3, <1>4 DEF StackInv

\* In every state there are stacks and an order of the threads such that the
\* reader has read along them: for the leader always, for all threads while
\* the leader has the GIL.
THEOREM SpecKeepsStackInv == Spec => []StackInv
<1>1. Inv /\ StackInv /\ [Next]_vars => StackInv'
  <2>1. Inv /\ StackInv /\ UNCHANGED vars => StackInv'
    <3> SUFFICES ASSUME Inv, StackInv, UNCHANGED vars PROVE StackInv' OBVIOUS
    <3>1. PICK fs, pos : IsStacks(fs) /\ IsOrder(pos) /\ ReadRight(fs, pos) BY DEF StackInv
    <3>2. IsStacks(fs)' /\ IsOrder(pos)' BY <3>1, HeldUnchanged
    <3>3. CodesOf(fs, Leader)' = CodesOf(fs, Leader) /\ Walk(fs)' = Walk(fs) BY DEF CodesOf, Walk
    <3>4. LeaderInv(fs)' = LeaderInv(fs) BY <3>3 DEF LeaderInv
    <3>5. GilInv(fs, pos)' = GilInv(fs, pos) BY <3>3 DEF GilInv, CodesOf, SampledTo, Sampled
    <3> QED BY <3>1, <3>2, <3>4, <3>5 DEF ReadRight, StackInv
  <2> QED BY <2>1, InterpreterKeepsStackInv, ReaderKeepsStackInv DEF Next
<1> QED BY <1>1, InitStackInv, SpecKeepsInv, PTL DEF Spec

\* The threads that are not stopped never spoil what is read of the leader:
\* its stack is exact, whatever is called, returns, starts or ends between
\* two of the reads.
THEOREM LeaderIsExact == Spec => []LeaderExact
<1>1. Inv /\ StackInv => LeaderExact
  <2> SUFFICES ASSUME Inv, StackInv, NEW i \in DOMAIN threads, threads[i].id = Leader
               PROVE  threads[i].stack = StackOf(Leader)
    BY DEF LeaderExact
  <2>1. PICK fs, pos : IsStacks(fs) /\ ReadRight(fs, pos) BY DEF StackInv
  <2>2. DOMAIN threads = 1..Len(threads) BY DEF Inv, SequencesOK
  <2>3. pc # "run" BY <2>1, <2>2 DEF ReadRight
  <2>4. threads[i].stack = CodesOf(fs, Leader) BY <2>1, <2>2, <2>3 DEF ReadRight, LeaderInv
  <2> QED BY <2>1, <2>4, StackOfIsCodes DEF Inv
<1> QED BY <1>1, SpecKeepsInv, SpecKeepsStackInv, PTL

\* A sample that is taken while the stopped leader has the GIL is that of one
\* instant: each thread that has frames is in it once, with its exact stack,
\* and the leader is the one marked as current.
THEOREM ExactSnapshot == Spec => []ExactUnderGil
<1>1. Inv /\ StackInv => ExactUnderGil
  <2> SUFFICES ASSUME Inv, StackInv, pc = "done", current = Leader
               PROVE  /\ {threads[i].id : i \in DOMAIN threads} =
                           {t \in (IF enable_threads THEN live ELSE {Leader}) : top[t] # Null}
                      /\ \A i \in DOMAIN threads :
                           /\ threads[i].stack = StackOf(threads[i].id)
                           /\ threads[i].current <=> threads[i].id = Leader
                           /\ \A j \in DOMAIN threads : threads[i].id = threads[j].id => i = j
    BY DEF ExactUnderGil
  <2>1. PICK fs, pos : IsStacks(fs) /\ GilInv(fs, pos) BY DEF StackInv, ReadRight
  <2>2. DOMAIN threads = 1..Len(threads) BY DEF Inv, SequencesOK
  <2>3. {threads[i].id : i \in DOMAIN threads} =
          {t \in (IF enable_threads THEN live ELSE {Leader}) : top[t] # Null}
    BY <2>1, <2>2 DEF GilInv, SampledTo, Sampled
  <2>4. ASSUME NEW i \in DOMAIN threads PROVE threads[i].stack = StackOf(threads[i].id)
    <3>1. threads[i].id \in Threads BY DEF Inv, TypeOK
    <3>2. threads[i].stack = CodesOf(fs, threads[i].id) BY <2>1, <2>2 DEF GilInv
    <3> QED BY <2>1, <3>1, <3>2, StackOfIsCodes DEF Inv
  <2>5. \A i \in DOMAIN threads :
          /\ threads[i].current <=> threads[i].id = Leader
          /\ \A j \in DOMAIN threads : threads[i].id = threads[j].id => i = j
    BY <2>1, <2>2 DEF GilInv
  <2> QED BY <2>3, <2>4, <2>5
<1> QED BY <1>1, SpecKeepsInv, SpecKeepsStackInv, PTL
=============================================================================
