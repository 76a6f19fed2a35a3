------------------------------- MODULE Report -------------------------------
(***************************************************************************)
(* What a profile says: ProbeLoop counts and keeps what a turn of its loop *)
(* sees, PrintFrames or PrintFramesTS writes it down, and flame-chart-json *)
(* makes a chart of the latter.  When a turn comes, and which way it ends, *)
(* is the matter of module Prober; the command line is that of Options.    *)
(*                                                                         *)
(* A frame is printed as the frame; without its line number, the line is   *)
(* 0.  A line of output is the sequence of what stands between semicolons: *)
(* frames, in which there is a colon, and words without one.               *)
(*                                                                         *)
(* Where two definitions stand together, the last one is the code; those   *)
(* before it are the slips that a property below must catch.               *)
(***************************************************************************)
EXTENDS Options

CONSTANTS
  Names,     \* of files and functions
  Samples,   \* what GetThreads may return: the stacks of the threads
  MaxTurns,  \* bound of the turns of the loop
  MaxStep    \* bound of what the clock goes forward, or back, between two

FrameSet == [file : Names, name : Names, line : Nat]

\* Frames of a thread: the innermost first, never none (GetThreads).
Stacks == UNION {{threads[k] : k \in DOMAIN threads} : threads \in Samples}

\* A failure is pushed as a frame.  A thread of one frame in a file that is
\* called "(failed)" is taken for one by PrintFramesTS.
ASSUME ReportAssumption ==
  /\ {"(failed)", "what"} \subseteq Names
  /\ Samples \subseteq Seq(Seq(FrameSet)) /\ MaxTurns \in Nat /\ MaxStep \in Nat
  /\ \A s \in Stacks : s # <<>> /\ (Len(s) = 1 => s[1].file # "(failed)")

VARIABLES
  pc,            \* parse, loop, finish, convert, done
  turns,         \* turns so far
  now,           \* system_clock
  call_stacks, idle_count, failed_count, return_code,
  out,           \* the lines of the report
  converted,     \* the lines flame-chart-json has read
  prof,          \* its profile
  seen           \* history: what the turns saw

vars == <<optionsVars, pc, turns, now, call_stacks, idle_count, failed_count,
          return_code, out, converted, prof, seen>>
profVars == <<converted, prof>>

Word(text) == [word |-> text]

Root == [name |-> Word("(root)"), children |-> <<2>>]
IdleNode == [name |-> Word("(idle)"), children |-> <<>>]
IDLE_NODE_ID == 2

Init ==
  /\ OptionsInit
  /\ pc = "parse" /\ turns = 0 /\ now = MaxTurns * MaxStep + 1
  /\ call_stacks = <<>> /\ idle_count = 0 /\ failed_count = 0 /\ return_code = 0
  /\ out = <<>> /\ converted = 0 /\ seen = <<>>
  /\ prof = [nodes |-> <<Root, IdleNode>>, samples |-> <<>>, timeDeltas |-> <<>>,
             prev_ts |-> 0]

----------------------------------------------------------------------------
(* main and ProbeLoop.                                                     *)

Parse ==
  /\ pc = "parse" /\ ParseStep
  /\ UNCHANGED <<pc, turns, now, call_stacks, idle_count, failed_count,
                 return_code, out, profVars, seen>>

\* The words are forgotten: their meaning is in opts.
Begin ==
  /\ pc = "parse" /\ status = "go" /\ ~opts.dump
  /\ pc' = "loop" /\ argv' = <<>> /\ optind' = 1
  /\ UNCHANGED <<status, opts, turns, now, call_stacks, idle_count, failed_count,
                 return_code, out, profVars, seen>>

Entry(frames) == [ts |-> now, frames |-> frames]
FailedFrame == [file |-> "(failed)", name |-> "what", line |-> 0]

\* What is pushed for what GetThreads returned.
SampledIdle(threads) ==
  IF threads = <<>> THEN IF opts.idle THEN <<Entry(<<>>)>> ELSE <<>>
  ELSE [k \in DOMAIN threads |-> Entry(threads[k])]
Sampled(threads) ==
  IF threads = <<>> THEN IF opts.idle /\ opts.ts THEN <<Entry(<<>>)>> ELSE <<>>
  ELSE [k \in DOMAIN threads |-> Entry(threads[k])]

\* What is pushed for a PtraceException.
Failure == IF opts.ts THEN <<Entry(<<FailedFrame>>)>> ELSE <<>>

NextTurn == turns' = turns + 1 /\ now' \in (now - MaxStep)..(now + MaxStep)

\* A turn that samples goes on, ends at the deadline or with the target
\* (TerminateException), or fails in PtraceCont or PtraceInterrupt.
Sample ==
  \E threads \in Samples, end \in {"next", "deadline", "terminated", "ptrace"} :
    LET failed == end = "ptrace" IN
    /\ pc = "loop" /\ turns < MaxTurns /\ NextTurn
    /\ idle_count' = idle_count + (IF threads = <<>> /\ opts.idle THEN 1 ELSE 0)
    /\ failed_count' = failed_count + (IF failed THEN 1 ELSE 0)
    /\ call_stacks' = call_stacks \o Sampled(threads) \o (IF failed THEN Failure ELSE <<>>)
    /\ seen' = seen \o (IF threads = <<>> THEN <<Entry(<<>>)>>
                        ELSE [k \in DOMAIN threads |-> Entry(threads[k])])
                    \o (IF failed THEN <<Entry(<<FailedFrame>>)>> ELSE <<>>)
    /\ pc' = IF end \in {"deadline", "terminated"} THEN "finish" ELSE "loop"
    /\ UNCHANGED <<optionsVars, return_code, out, profVars>>

\* GetThreads throws a PtraceException.
SampleFails ==
  /\ pc = "loop" /\ turns < MaxTurns /\ NextTurn
  /\ failed_count' = failed_count + 1 /\ call_stacks' = call_stacks \o Failure
  /\ seen' = Append(seen, Entry(<<FailedFrame>>))
  /\ UNCHANGED <<optionsVars, pc, idle_count, return_code, out, profVars>>

\* GetThreads throws anything else.
SampleThrows ==
  /\ pc = "loop" /\ return_code' = 1 /\ pc' = "finish"
  /\ UNCHANGED <<optionsVars, turns, now, call_stacks, idle_count, failed_count,
                 out, profVars, seen>>

----------------------------------------------------------------------------
(* PrintFrames and PrintFramesTS.                                          *)

\* Frame::operator==
SameFrameFile(f, g) == f.file = g.file
SameFrame(f, g) == f.file = g.file /\ f.line = g.line
SameFrames(s, t) == Len(s) = Len(t) /\ \A k \in DOMAIN s : SameFrame(s[k], t[k])

\* Each stack is added to the bucket of the first one that is equal.
Add(buckets, frames) ==
  LET k == SelectInSeq(buckets, LAMBDA b : SameFrames(b.frames, frames))
  IN  IF k = 0 THEN Append(buckets, [frames |-> frames, count |-> 1])
      ELSE [buckets EXCEPT ![k].count = @ + 1]

\* The buckets after the first n stacks.
Filled ==
  LET buckets[n \in 0..Len(call_stacks)] ==
        IF n = 0 THEN <<>> ELSE Add(buckets[n - 1], call_stacks[n].frames)
  IN  buckets
Bucketed == Filled[Len(call_stacks)]

PrintFrame(frame) == IF opts.lines THEN frame ELSE [frame EXCEPT !.line = 0]
Outermost(frames) == [k \in DOMAIN frames |-> PrintFrame(Reverse(frames)[k])]

CountLine(text, count) == [text |-> text, number |-> count]
Counted(word, count) == IF count = 0 THEN <<>> ELSE <<CountLine(<<Word(word)>>, count)>>

\* An empty bucket would end the report (TypeOK says that there is none), so
\* that the order of the unordered_map is of no account.
PrintFrames ==
  Counted("(idle)", idle_count) \o Counted("(failed)", failed_count)
  \o [k \in DOMAIN Bucketed |->
        CountLine(Outermost(Bucketed[k].frames), Bucketed[k].count)]

\* A stack ends with a semicolon, and so with an empty word.
TsLine(entry) ==
  [number |-> entry.ts,
   text |-> IF entry.frames = <<>> THEN <<Word("(idle)")>>
            ELSE IF Len(entry.frames) = 1 /\ entry.frames[1].file = "(failed)"
            THEN <<Word("(failed)")>>
            ELSE Append(Outermost(entry.frames), Word(""))]
PrintFramesTS == [k \in DOMAIN call_stacks |-> TsLine(call_stacks[k])]

Finish ==
  /\ pc = "finish"
  /\ out' = (IF call_stacks = <<>> /\ idle_count = 0 /\ failed_count = 0 THEN <<>>
             ELSE IF opts.ts THEN PrintFramesTS ELSE PrintFrames)
  /\ pc' = (IF opts.ts THEN "convert" ELSE "done")
  /\ UNCHANGED <<optionsVars, turns, now, call_stacks, idle_count, failed_count,
                 return_code, profVars, seen>>

----------------------------------------------------------------------------
(* FCJson.                                                                 *)

NodeId == Len(prof.nodes) + 1

\* Nothing but what stands behind the last semicolon is empty.
Cells(cs) == IF Last(cs) = Word("") THEN Front(cs) ELSE cs

\* create_cs: is cell k the last frame?
LastCellLate(cs, k) == k - 1 >= Len(cs) - 1
LastCell(cs, k) == k - 1 >= Len(cs) - 2
CreateCs(cs) ==
  [k \in DOMAIN Cells(cs) |->
     [name |-> cs[k], children |-> IF LastCell(cs, k) THEN <<>> ELSE <<NodeId + k>>]]

\* create_node: a timestamp and the stack on the line after it.
CreateNode ==
  /\ pc = "convert" /\ converted < Len(out)
  /\ LET line  == out[converted + 1]
         nodes == prof.nodes \o CreateCs(line.text)
     IN  prof' = [nodes |-> [nodes EXCEPT ![1].children = Append(@, NodeId),
                                          ![2].children = Append(@, NodeId)],
                  samples |-> prof.samples \o <<Len(nodes), IDLE_NODE_ID>>,
                  timeDeltas |-> prof.timeDeltas
                    \o <<IF prof.prev_ts = 0 THEN 0 ELSE line.number - prof.prev_ts - 1000,
                         1000>>,
                  prev_ts |-> line.number]
  /\ converted' = converted + 1
  /\ UNCHANGED <<optionsVars, pc, turns, now, call_stacks, idle_count, failed_count,
                 return_code, out, seen>>

ConvertEnd ==
  /\ pc = "convert" /\ converted = Len(out) /\ pc' = "done"
  /\ UNCHANGED <<optionsVars, turns, now, call_stacks, idle_count, failed_count,
                 return_code, out, profVars, seen>>

Terminated ==
  /\ \/ pc = "done" \/ status \in {"return_0", "return_1", "abort"} \/ (status = "go" /\ opts.dump)
     \/ pc = "loop" /\ turns = MaxTurns
  /\ UNCHANGED vars

Next == \/ Parse \/ Begin \/ Sample \/ SampleFails \/ SampleThrows \/ Finish
        \/ CreateNode \/ ConvertEnd \/ Terminated

Spec == Init /\ [][Next]_vars

----------------------------------------------------------------------------
(* Properties.                                                             *)

\* Every variable keeps its type, and no idle entry gets into the profile
\* that PrintFrames writes, which gives up ("fatal error") at an empty stack.
TypeOK ==
  /\ OptionsTypeOK
  /\ pc \in {"parse", "loop", "finish", "convert", "done"}
  /\ turns \in 0..MaxTurns /\ now \in 1..(2 * MaxTurns * MaxStep + 1)
  /\ \A k \in DOMAIN call_stacks :
       /\ call_stacks[k].ts \in 1..(2 * MaxTurns * MaxStep + 1)
       /\ call_stacks[k].frames \in
            Stacks \cup (IF opts.ts THEN {<<>>, <<FailedFrame>>} ELSE {})
  /\ idle_count \in 0..MaxTurns /\ failed_count \in 0..MaxTurns /\ return_code \in 0..1
  /\ converted \in 0..Len(out)

\* The text of what was seen, the innermost frame last.
Text(frames) ==
  IF frames = <<>> THEN <<Word("(idle)")>>
  ELSE IF frames = <<FailedFrame>> THEN <<Word("(failed)")>> ELSE Outermost(frames)

\* The running totals of a sequence of numbers.
Totals(s) ==
  LET total[n \in 0..Len(s)] == IF n = 0 THEN 0 ELSE total[n - 1] + s[n]
  IN  total
\* The numbers of some lines of the report, added up.
NumberOf(lines) ==
  Totals([k \in DOMAIN out |-> IF k \in lines THEN out[k].number ELSE 0])[Len(out)]

Places(frames) == [k \in DOMAIN frames |-> <<frames[k].file, frames[k].line>>]
OneFunctionALine(text) ==
  \A s, t \in Stacks : Text(s) = text /\ Places(s) = Places(t) => s = t

\* The report accounts for every turn.  Without timestamps, the numbers of
\* the lines of a text add up to how often it was seen, and the lines of
\* stacks to all stacks; with them, the lines are what was seen, in order.
\* Idle turns are in it unless -x excludes them.  The numbers of one text are
\* right if no two functions that are in it share a line of a file.
Reportable == {k \in DOMAIN seen : opts.idle \/ seen[k].frames # <<>>}
Rank(k) == Cardinality({j \in Reportable : j <= k})
ReportRight ==
  pc \in {"convert", "done"} =>
    IF opts.ts
    THEN /\ Len(out) = Cardinality(Reportable)
         /\ \A k \in Reportable :
              /\ out[Rank(k)].number = seen[k].ts
              /\ Cells(out[Rank(k)].text) = Text(seen[k].frames)
    ELSE /\ NumberOf(DOMAIN out) = Cardinality(Reportable)
         /\ \A k \in DOMAIN out :
              OneFunctionALine(out[k].text) =>
                NumberOf({j \in DOMAIN out : out[j].text = out[k].text})
                  = Cardinality({j \in Reportable : Text(seen[j].frames) = out[k].text})

\* The chart is that of the report: the path of frames from the root to the
\* k-th sample's node is the k-th stack, each node has one parent besides
\* the idle node, and the sample is drawn at its time, whatever the clock did
\* and however many threads were sampled at a time.
Parents(id) == {p \in DOMAIN prof.nodes :
                  \E k \in DOMAIN prof.nodes[p].children : prof.nodes[p].children[k] = id}
               \ {IDLE_NODE_ID}
PathTo ==
  LET path[id \in DOMAIN prof.nodes] ==
        IF id = 1 THEN <<>>
        ELSE Append(path[CHOOSE p \in Parents(id) : TRUE], prof.nodes[id].name)
  IN  path
TimeOf(k) == Totals(prof.timeDeltas)[k]
ChartRight ==
  /\ \A id \in 2..Len(prof.nodes) : \E p \in 1..(id - 1) : Parents(id) = {p}
  /\ \A k \in 1..converted :
       /\ PathTo[prof.samples[2 * k - 1]] = Cells(out[k].text)
       /\ TimeOf(2 * k - 1) = out[k].number - out[1].number
       /\ prof.samples[2 * k] = IDLE_NODE_ID
=============================================================================
