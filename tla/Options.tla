------------------------------ MODULE Options ------------------------------
(***************************************************************************)
(* ParseOpts (prober.cc): one word of the command line a step.  A word is  *)
(* an option, with its argument if it takes one, or an operand, which      *)
(* getopt_long skips and presents at the end.                              *)
(*                                                                         *)
(* -r, -o and valid --abi only store a value that nothing here depends on, *)
(* and an unknown option is ignored: they are one name, "--other".  The    *)
(* argument of -r or -s that is no number, "--bad_number", makes stod throw *)
(* what main does not catch.                                               *)
(*                                                                         *)
(* Where two definitions stand together, the last one is the code; those   *)
(* before it are the slips that a property below must catch.               *)
(***************************************************************************)
EXTENDS Integers, SequencesExt

CONSTANTS
  CommandLines,  \* the command lines
  MaxPid         \* the greatest pid_t

\* arg: the number that strtol or stod makes of the argument or the operand.
WordSet ==
  [name : {"-d", "-h", "-v", "-n", "-x", "-t", "--threads", "--flamechart",
           "--other", "--bad_abi", "--bad_number", "-p", "-s", "operand"},
   arg : Int]

ASSUME OptionsAssumption == CommandLines \subseteq Seq(WordSet) /\ MaxPid \in Nat

VARIABLES
  argv,
  optind,   \* the word that getopt_long looks at
  status,   \* "parsing", "parsed", then what main does
  opts      \* the option members of Prober

optionsVars == <<argv, optind, status, opts>>

OptsSet ==
  [pid : Int, dump : BOOLEAN, trace : BOOLEAN, threads : BOOLEAN, idle : BOOLEAN,
   ts : BOOLEAN, lines : BOOLEAN, seconds : Int]

OptionsTypeOK ==
  /\ argv \in Seq(WordSet) /\ optind \in 1..(Len(argv) + 1)
  /\ status \in {"parsing", "parsed", "go", "return_0", "return_1", "abort"}
  /\ opts \in OptsSet

OptionsInit ==
  /\ argv \in CommandLines /\ optind = 1 /\ status = "parsing"
  /\ opts = [pid |-> -1, dump |-> FALSE, trace |-> FALSE, threads |-> FALSE,
             idle |-> TRUE, ts |-> FALSE, lines |-> TRUE, seconds |-> 1]

\* Numbers that are no pid_t, and 0, which strtol makes of a word, are refused.
ParsePidZero(n) == IF n < 0 \/ n > MaxPid THEN -1 ELSE n
ParsePid(n) == IF n <= 0 \/ n > MaxPid THEN -1 ELSE n

\* What a word does to the members of Prober.
Stored(o, word) ==
  CASE word.name = "-d"           -> [o EXCEPT !.dump = TRUE, !.threads = TRUE]
    [] word.name = "--threads"    -> [o EXCEPT !.threads = TRUE]
    [] word.name = "-p"           -> [o EXCEPT !.pid = ParsePid(word.arg)]
    [] word.name = "-s"           -> [o EXCEPT !.seconds = word.arg]
    [] word.name = "-t"           -> [o EXCEPT !.trace = TRUE, !.seconds = -1]
    [] word.name = "--flamechart" -> [o EXCEPT !.ts = TRUE]
    [] word.name = "-x"           -> [o EXCEPT !.idle = FALSE]
    [] word.name = "-n"           -> [o EXCEPT !.lines = FALSE]
    [] OTHER                      -> o

\* The words after -t are the command's: the loop is left.
AfterWord(word) ==
  CASE word.name \in {"-h", "-v"} -> "return_0"
    [] word.name = "--bad_abi" \/ (word.name = "-p" /\ ParsePid(word.arg) = -1) -> "return_1"
    [] word.name = "--bad_number" -> "abort"
    [] word.name = "-t" -> "parsed"
    [] OTHER -> "parsing"

ParseWord ==
  /\ status = "parsing" /\ optind <= Len(argv)
  /\ opts' = Stored(opts, argv[optind])
  /\ status' = AfterWord(argv[optind]) /\ optind' = optind + 1
  /\ UNCHANGED argv

\* What is left over: the operands that were skipped, or the command.
Operands == {k \in DOMAIN argv : argv[k].name = "operand"}

\* The pid without -p: there must be one operand, and nothing else be left.
OperandPid ==
  IF \E k \in Operands : Operands = {k}
  THEN ParsePid(argv[CHOOSE k \in Operands : TRUE].arg) ELSE -1

FinishParse ==
  /\ status = "parsed" \/ (status = "parsing" /\ optind > Len(argv))
  /\ IF opts.trace
     THEN /\ status' = (IF opts.dump \/ opts.pid # -1 \/ optind > Len(argv) THEN "return_1" ELSE "go")
          /\ UNCHANGED opts
     ELSE IF opts.pid # -1 THEN status' = "go" /\ UNCHANGED opts
     ELSE IF OperandPid # -1
     THEN status' = "go" /\ opts' = [opts EXCEPT !.pid = OperandPid]
     ELSE status' = "return_1" /\ UNCHANGED opts
  /\ UNCHANGED <<argv, optind>>

ParseStep == ParseWord \/ FinishParse

----------------------------------------------------------------------------
(* What a command line asks for.                                           *)

\* The words that are pyflame's: up to the first -t.
Own == LET t == SelectInSeq(argv, LAMBDA word : word.name = "-t")
       IN  IF t = 0 THEN argv ELSE SubSeq(argv, 1, t)
Given(name) == \E k \in DOMAIN Own : Own[k].name = name
LastOf(name, default) ==
  LET k == SelectLastInSeq(Own, LAMBDA word : word.name = name)
  IN  IF k = 0 THEN default ELSE Own[k].arg

\* A session that begins is one that module Prober can run: it traces a
\* command, without a duration and a dump, or attaches to a possible pid.
\* Options have their last value, whatever their order, and none is taken
\* from the words of the command.
ParsedRight ==
  status = "go" /\ argv # <<>> =>
    /\ opts.trace = Given("-t") /\ opts.dump = Given("-d")
    /\ opts.idle = ~Given("-x") /\ opts.ts = Given("--flamechart")
    /\ opts.lines = ~Given("-n") /\ opts.threads = (Given("--threads") \/ Given("-d"))
    /\ opts.seconds = IF opts.trace THEN -1 ELSE LastOf("-s", 1)
    /\ IF opts.trace
       THEN ~opts.dump /\ opts.pid = -1 /\ Len(Own) < Len(argv)
       ELSE /\ opts.pid \in 1..MaxPid
            /\ opts.pid = LastOf("-p", LastOf("operand", -1))
=============================================================================
