---------------------------- MODULE ReportProofs ----------------------------
(***************************************************************************)
(* Proofs about modules Options and Report, for any command lines, samples *)
(* and numbers of turns.                                                   *)
(***************************************************************************)
EXTENDS Report, FiniteSetTheorems, Induction, TLAPS

----------------------------------------------------------------------------
(* Greatest elements, which the last word of a name is, and least ones.    *)

\* A set of numbers up to n has a greatest one.
LEMMA MaxExists ==
  ASSUME NEW n \in Nat, NEW S \in SUBSET (1..n), S # {}
  PROVE  Max(S) \in S /\ \A y \in S : Max(S) >= y
<1> DEFINE T == {m \in Nat : \A R \in SUBSET (1..m) :
                               R # {} => \E x \in R : \A y \in R : x >= y}
<1>1. 0 \in T
  <2>1. 1..0 = {} OBVIOUS
  <2> QED BY <2>1
<1>2. ASSUME NEW m \in Nat, m \in T PROVE m + 1 \in T
  <2> SUFFICES ASSUME NEW R \in SUBSET (1..(m + 1)), R # {}
               PROVE  \E x \in R : \A y \in R : x >= y
    OBVIOUS
  <2>1. CASE m + 1 \in R
    <3>1. \A y \in R : m + 1 >= y OBVIOUS
    <3> QED BY <2>1, <3>1
  <2>2. CASE m + 1 \notin R
    <3>1. R \in SUBSET (1..m) BY <2>2
    <3> QED BY <1>2, <3>1
  <2> QED BY <2>1, <2>2
<1> HIDE DEF T
<1>3. Nat \subseteq T BY <1>1, <1>2, SetInduction
<1>4. \E x \in S : \A y \in S : x >= y BY <1>3 DEF T
<1> QED BY <1>4, Zenon DEF Max

\* A set of numbers that is not empty has a least one.
LEMMA MinExists ==
  ASSUME NEW S \in SUBSET Nat, S # {}
  PROVE  Min(S) \in S /\ \A y \in S : Min(S) <= y
<1>1. SUFFICES ASSUME ~ \E x \in S : \A y \in S : x <= y PROVE FALSE
  BY Zenon DEF Min
<1> DEFINE T == {n \in Nat : \A m \in S : n < m}
<1>2. 0 \in T BY <1>1
<1>3. ASSUME NEW n \in Nat, n \in T PROVE n + 1 \in T
  <2>1. \A m \in S : n + 1 <= m BY <1>3
  <2>2. n + 1 \notin S BY <1>1, <2>1
  <2> QED BY <2>1, <2>2
<1> HIDE DEF T
<1>4. Nat \subseteq T BY <1>2, <1>3, SetInduction
<1>5. PICK x \in S : TRUE OBVIOUS
<1>6. x \in Nat /\ x \in T BY <1>4
<1> QED BY <1>5, <1>6 DEF T

----------------------------------------------------------------------------
(* ParseOpts: the options reflect the words that have been read.           *)

Has(n, name) == \E k \in 1..n : argv[k].name = name
IsLast(n, name, k) ==
  /\ k \in 1..n /\ argv[k].name = name
  /\ \A j \in 1..n : argv[j].name = name => j <= k

Reflects(n) ==
  /\ opts.trace <=> Has(n, "-t")
  /\ opts.dump <=> Has(n, "-d")
  /\ opts.idle <=> ~Has(n, "-x")
  /\ opts.ts <=> Has(n, "--flamechart")
  /\ opts.lines <=> ~Has(n, "-n")
  /\ opts.threads <=> Has(n, "--threads") \/ Has(n, "-d")
  /\ \A k \in 1..n : IsLast(n, "-p", k) => opts.pid = argv[k].arg /\ opts.pid \in 1..MaxPid
  /\ ~Has(n, "-p") => opts.pid = -1
  /\ IF opts.trace THEN opts.seconds = -1
     ELSE /\ \A k \in 1..n : IsLast(n, "-s", k) => opts.seconds = argv[k].arg
          /\ ~Has(n, "-s") => opts.seconds = 1

\* Where -t is among the words, it is the last that was read.
OptionsInv ==
  /\ OptionsTypeOK
  /\ status = "parsing" => ~Has(optind - 1, "-t") /\ Reflects(optind - 1)
  /\ status = "parsed" =>
       /\ optind > 1 /\ argv[optind - 1].name = "-t"
       /\ ~Has(optind - 2, "-t") /\ Reflects(optind - 1)
  /\ ParsedRight

\* A word leaves the members of Prober of their types.
LEMMA StoredIsOpts ==
  ASSUME NEW o \in OptsSet, NEW w \in WordSet
  PROVE  Stored(o, w) \in OptsSet
<1>1. ParsePid(w.arg) \in Int /\ w.arg \in Int BY DEF WordSet, ParsePid
<1>2. CASE w.name \in {"-d", "--threads", "-p", "-s"} BY <1>1, <1>2 DEF Stored, OptsSet
<1>3. CASE w.name = "-t"
  <2>1. Stored(o, w) = [o EXCEPT !.trace = TRUE, !.seconds = -1] BY <1>3 DEF Stored
  <2>2. -1 \in Int OBVIOUS
  <2> QED BY <2>1, <2>2 DEF OptsSet
<1>4. CASE w.name = "--flamechart" BY <1>4 DEF Stored, OptsSet
<1>5. CASE w.name \in {"-x", "-n"} BY <1>5 DEF Stored, OptsSet
<1>6. CASE w.name \notin {"-d", "--threads", "-p", "-s", "-t", "--flamechart", "-x", "-n"}
  BY <1>6 DEF Stored
<1> QED BY <1>2, <1>3, <1>4, <1>5, <1>6

\* A word that is read leaves the options reflecting one word more.
LEMMA WordIsReflected ==
  ASSUME OptionsInv, ParseWord, NEW n \in Nat, optind = n + 1,
         status' \in {"parsing", "parsed"}
  PROVE  /\ Reflects(n + 1)' /\ opts' \in OptsSet
         /\ ~Has(n, "-t") /\ (status' = "parsed" <=> argv[n + 1].name = "-t")
<1> DEFINE w == argv[n + 1]
<1>1. /\ status = "parsing" /\ argv' = argv
      /\ opts' = Stored(opts, w) /\ status' = AfterWord(w)
      /\ opts \in OptsSet /\ w \in WordSet /\ optind - 1 = n
  BY DEF ParseWord, OptionsInv, OptionsTypeOK
<1>2. ~Has(n, "-t") /\ Reflects(n) BY <1>1 DEF OptionsInv
<1>3. \A name : Has(n + 1, name)' <=> Has(n, name) \/ w.name = name
  BY <1>1 DEF Has
<1>4. \A name, k : IsLast(n + 1, name, k)' =>
        IF w.name = name THEN k = n + 1 ELSE k \in 1..n /\ IsLast(n, name, k)
  BY <1>1 DEF IsLast
<1> HIDE DEF w
<1>5. opts' \in OptsSet BY <1>1, StoredIsOpts
<1>6. status' = "parsed" <=> w.name = "-t" BY <1>1 DEF AfterWord
<1>7. w.name = "-p" => ParsePid(w.arg) # -1 /\ w.arg \in 1..MaxPid
  <2>1. w.arg \in Int BY <1>1 DEF WordSet
  <2> QED BY <1>1, <2>1, OptionsAssumption DEF AfterWord, ParsePid
<1>8. Reflects(n + 1)'
  <2>1. opts.trace = FALSE BY <1>2 DEF Reflects
  <2>2. /\ opts'.trace <=> w.name = "-t"
        /\ opts'.dump <=> opts.dump \/ w.name = "-d"
        /\ opts'.idle <=> opts.idle /\ w.name # "-x"
        /\ opts'.ts <=> opts.ts \/ w.name = "--flamechart"
        /\ opts'.lines <=> opts.lines /\ w.name # "-n"
        /\ opts'.threads <=> opts.threads \/ w.name \in {"--threads", "-d"}
    BY <1>1, <2>1 DEF Stored, OptsSet
  <2>3. /\ opts'.pid = IF w.name = "-p" THEN w.arg ELSE opts.pid
        /\ opts'.seconds = IF w.name = "-s" THEN w.arg
                           ELSE IF w.name = "-t" THEN -1 ELSE opts.seconds
    BY <1>1, <1>7 DEF Stored, OptsSet, ParsePid
  <2>4. \A k \in 1..(n + 1) : IsLast(n + 1, "-p", k)' =>
          opts'.pid = argv'[k].arg /\ opts'.pid \in 1..MaxPid
    BY <1>1, <1>2, <1>4, <1>7, <2>3 DEF Reflects, w
  <2>5. w.name # "-t" =>
          \A k \in 1..(n + 1) : IsLast(n + 1, "-s", k)' => opts'.seconds = argv'[k].arg
    BY <1>1, <1>2, <1>4, <2>1, <2>2, <2>3 DEF Reflects, w
  <2> QED BY <1>2, <1>3, <2>1, <2>2, <2>3, <2>4, <2>5 DEF Reflects
<1> QED BY <1>2, <1>5, <1>6, <1>8 DEF w

\* What the options reflect at the end of pyflame's own words is what these
\* ask for.
LEMMA OwnIs ==
  ASSUME OptionsTypeOK, NEW n \in 0..Len(argv),
         \/ n = Len(argv) /\ ~Has(n, "-t")
         \/ n > 0 /\ argv[n].name = "-t" /\ ~Has(n - 1, "-t")
  PROVE  Own = SubSeq(argv, 1, n)
<1> DEFINE I == {i \in 1..Len(argv) : argv[i].name = "-t"}
           t == IF I # {} THEN Min(I) ELSE 0
<1>1. Own = IF t = 0 THEN argv ELSE SubSeq(argv, 1, t) BY DEF Own, SelectInSeq
<1>2. argv \in Seq(WordSet) BY DEF OptionsTypeOK
<1>3. CASE n = Len(argv) /\ ~Has(n, "-t")
  <2>1. I = {} BY <1>2, <1>3 DEF Has
  <2>2. argv = SubSeq(argv, 1, Len(argv)) BY <1>2
  <2> QED BY <1>1, <1>3, <2>1, <2>2
<1>4. CASE n > 0 /\ argv[n].name = "-t" /\ ~Has(n - 1, "-t")
  <2>1. n \in I /\ I \subseteq Nat /\ \A y \in I : n <= y BY <1>2, <1>4 DEF Has
  <2>2. Min(I) \in I /\ \A y \in I : Min(I) <= y
    <3> HIDE DEF I
    <3>1. \E x \in I : \A y \in I : x <= y BY <2>1
    <3> QED BY <3>1, Zenon DEF Min
  <2>3. Min(I) = n BY <2>1, <2>2
  <2>4. t = n /\ n # 0 BY <1>2, <1>4, <2>1, <2>3
  <2> QED BY <1>1, <2>4
<1> QED BY <1>3, <1>4

\* What is LastOf is the argument of the last word of that name.
LEMMA LastOfIs ==
  ASSUME OptionsTypeOK, NEW n \in 0..Len(argv), Own = SubSeq(argv, 1, n), NEW name, NEW default
  PROVE  IF Has(n, name) THEN \E k \in 1..n : IsLast(n, name, k) /\ LastOf(name, default) = argv[k].arg
         ELSE LastOf(name, default) = default
<1> DEFINE I == {i \in 1..Len(Own) : Own[i].name = name}
           k == IF I # {} THEN Max(I) ELSE 0
<1>1. LastOf(name, default) = IF k = 0 THEN default ELSE Own[k].arg
  BY DEF LastOf, SelectLastInSeq
<1>2. Len(Own) = n /\ n \in Nat /\ \A i \in 1..n : Own[i] = argv[i] BY DEF OptionsTypeOK
<1>3. I = {i \in 1..n : argv[i].name = name} BY <1>2
<1>4. CASE Has(n, name)
  <2>1. I # {} /\ I \in SUBSET (1..n) BY <1>3, <1>4 DEF Has
  <2> HIDE DEF I
  <2>2. Max(I) \in I /\ \A y \in I : Max(I) >= y BY <1>2, <2>1, MaxExists
  <2>3. k = Max(I) /\ k \in 1..n /\ Own[k] = argv[k] BY <1>2, <2>1, <2>2
  <2>4. IsLast(n, name, k) BY <1>3, <2>2, <2>3 DEF IsLast
  <2> QED BY <1>1, <1>4, <2>3, <2>4
<1>5. CASE ~Has(n, name)
  <2>1. I = {} BY <1>3, <1>5 DEF Has
  <2> QED BY <1>1, <1>5, <2>1
<1> QED BY <1>4, <1>5

\* The options with which parsing ends are those that were asked for.
LEMMA ParsedIsRight ==
  ASSUME OptionsInv, FinishParse
  PROVE  ParsedRight'
<1> SUFFICES ASSUME status' = "go" PROVE ParsedRight' BY DEF ParsedRight
<1>0. OptionsTypeOK /\ argv' = argv BY DEF OptionsInv, FinishParse
<1>1. PICK n \in 0..Len(argv) :
        /\ optind = n + 1 /\ Reflects(n)
        /\ \/ n = Len(argv) /\ ~Has(n, "-t") /\ ~opts.trace
           \/ n > 0 /\ argv[n].name = "-t" /\ ~Has(n - 1, "-t") /\ opts.trace
  <2>1. optind \in Nat /\ Len(argv) \in Nat /\ optind - 1 \in 0..Len(argv) BY <1>0 DEF OptionsTypeOK
  <2>2. CASE status = "parsing"
    <3>1. ~Has(optind - 1, "-t") /\ Reflects(optind - 1) BY <2>2 DEF OptionsInv
    <3>2. optind - 1 = Len(argv) BY <2>1, <2>2 DEF FinishParse
    <3> QED BY <2>1, <3>1, <3>2 DEF Reflects
  <2>3. CASE status = "parsed"
    <3>1. /\ optind > 1 /\ argv[optind - 1].name = "-t"
          /\ ~Has(optind - 2, "-t") /\ Reflects(optind - 1)
      BY <2>3 DEF OptionsInv
    <3>2. opts.trace BY <2>1, <3>1 DEF Reflects, Has
    <3>3. optind - 2 = (optind - 1) - 1 /\ optind - 1 > 0 BY <2>1, <3>1
    <3> QED BY <2>1, <3>1, <3>2, <3>3
  <2> QED BY <2>2, <2>3 DEF FinishParse
<1>2. Own = SubSeq(argv, 1, n) /\ Own' = Own /\ Len(Own) = n /\ \A k \in 1..n : Own[k] = argv[k]
  <2>1. Own = SubSeq(argv, 1, n) BY <1>0, <1>1, OwnIs
  <2>2. Own' = Own BY <1>0 DEF Own, SelectInSeq
  <2> QED BY <1>0, <2>1, <2>2 DEF OptionsTypeOK
<1>3. \A name : Given(name)' <=> Has(n, name)
  <2>1. \A name : Given(name) <=> Has(n, name)
    <3>1. DOMAIN Own = 1..n BY <1>0, <1>2 DEF OptionsTypeOK
    <3> QED BY <1>2, <3>1 DEF Given, Has
  <2> QED BY <1>2, <2>1 DEF Given
<1>4. \A name, default : LastOf(name, default)' = LastOf(name, default)
  BY <1>2 DEF LastOf, SelectLastInSeq
<1>5. /\ opts'.trace = Given("-t")' /\ opts'.dump = Given("-d")'
      /\ opts'.idle = ~Given("-x")' /\ opts'.ts = Given("--flamechart")'
      /\ opts'.lines = ~Given("-n")'
      /\ opts'.threads = (Given("--threads")' \/ Given("-d")')
  <2>1. opts \in OptsSet BY <1>0 DEF OptionsTypeOK
  <2>2. /\ opts'.trace = opts.trace /\ opts'.dump = opts.dump /\ opts'.idle = opts.idle
        /\ opts'.ts = opts.ts /\ opts'.lines = opts.lines /\ opts'.threads = opts.threads
    BY <2>1 DEF FinishParse, OptsSet
  <2> QED BY <1>1, <1>3, <2>1, <2>2 DEF Reflects, OptsSet, Given
<1>6. /\ opts'.seconds = opts.seconds /\ opts'.trace = opts.trace /\ opts'.dump = opts.dump
      /\ n \in Nat
  BY <1>0 DEF FinishParse, OptionsTypeOK, OptsSet
<1>7. opts'.seconds = IF opts'.trace THEN -1 ELSE LastOf("-s", 1)'
  <2> SUFFICES ASSUME ~opts.trace PROVE opts.seconds = LastOf("-s", 1)
    BY <1>1, <1>4, <1>6 DEF Reflects
  <2>1. IF Has(n, "-s") THEN \E k \in 1..n : IsLast(n, "-s", k) /\ LastOf("-s", 1) = argv[k].arg
        ELSE LastOf("-s", 1) = 1
    BY <1>0, <1>2, LastOfIs
  <2> QED BY <1>1, <2>1 DEF Reflects
<1>8. ASSUME opts'.trace PROVE ~opts'.dump /\ opts'.pid = -1 /\ Len(Own') < Len(argv')
  <2>1. opts' = opts /\ ~opts.dump /\ opts.pid = -1 /\ optind <= Len(argv)
    BY <1>0, <1>6, <1>8 DEF FinishParse, OptionsTypeOK
  <2> QED BY <1>0, <1>1, <1>2, <1>6, <2>1 DEF OptionsTypeOK
<1>9. ASSUME ~opts'.trace
      PROVE  opts'.pid \in 1..MaxPid /\ opts'.pid = LastOf("-p", LastOf("operand", -1))'
  <2> DEFINE d == LastOf("operand", -1)
  <2>1. LastOf("-p", d)' = LastOf("-p", d) BY <1>2 DEF LastOf, SelectLastInSeq
  <2>2. IF Has(n, "-p") THEN \E k \in 1..n : IsLast(n, "-p", k) /\ LastOf("-p", d) = argv[k].arg
        ELSE LastOf("-p", d) = d
    BY <1>0, <1>2, LastOfIs
  <2>3. IF Has(n, "operand")
        THEN \E k \in 1..n : IsLast(n, "operand", k) /\ d = argv[k].arg
        ELSE d = -1
    BY <1>0, <1>2, LastOfIs
  <2> HIDE DEF d
  <2>4. n = Len(argv) /\ ~opts.trace BY <1>1, <1>6, <1>9
  <2>5. CASE opts.pid # -1
    <3>1. opts' = opts BY <2>4, <2>5 DEF FinishParse
    <3>2. Has(n, "-p") BY <1>1, <2>5 DEF Reflects
    <3>3. PICK k \in 1..n : IsLast(n, "-p", k) /\ LastOf("-p", d) = argv[k].arg BY <2>2, <3>2
    <3>4. opts.pid = argv[k].arg /\ opts.pid \in 1..MaxPid BY <1>1, <3>3 DEF Reflects
    <3> QED BY <2>1, <3>1, <3>3, <3>4 DEF d
  <2>6. CASE opts.pid = -1
    <3>1. OperandPid # -1 /\ opts'.pid = OperandPid
      BY <1>0, <2>4, <2>6 DEF FinishParse, OptionsTypeOK, OptsSet
    <3>2. PICK k \in Operands : Operands = {k} /\ OperandPid = ParsePid(argv[k].arg)
      BY <3>1 DEF OperandPid
    <3>3. k \in 1..n /\ argv[k].name = "operand" /\ argv[k].arg \in Int
      <4>1. k \in DOMAIN argv /\ argv[k].name = "operand" BY DEF Operands
      <4>2. argv \in Seq(WordSet) BY <1>0 DEF OptionsTypeOK
      <4>3. k \in 1..n /\ argv[k] \in WordSet BY <2>4, <4>1, <4>2
      <4> QED BY <4>1, <4>3 DEF WordSet
    <3>4. \A j \in 1..n : argv[j].name = "operand" => j = k
      BY <1>0, <2>4, <3>2 DEF Operands, OptionsTypeOK
    <3>5. d = argv[k].arg BY <2>3, <3>3, <3>4 DEF Has, IsLast
    <3>6. OperandPid = argv[k].arg /\ OperandPid \in 1..MaxPid
      BY <3>1, <3>2, <3>3, OptionsAssumption DEF ParsePid
    <3>7. ~Has(n, "-p") BY <1>1, <2>2, <2>6 DEF Reflects
    <3> QED BY <2>1, <2>2, <3>1, <3>5, <3>6, <3>7 DEF d
  <2> QED BY <2>5, <2>6
<1> QED BY <1>5, <1>7, <1>8, <1>9 DEF ParsedRight


\* One step of the parser keeps what is known of the options.
LEMMA ParseKeepsOptions ==
  ASSUME OptionsInv, ParseStep
  PROVE  OptionsInv'
<1>1. CASE ParseWord
  <2>1. PICK n \in Nat : optind = n + 1 BY DEF OptionsInv, OptionsTypeOK
  <2>2. /\ argv' = argv /\ optind' = n + 2 /\ optind' \in 1..(Len(argv) + 1)
        /\ argv \in Seq(WordSet) /\ optind' - 1 = n + 1 /\ optind' - 2 = n
        /\ status' \in {"parsing", "parsed", "return_0", "return_1", "abort"}
    BY <1>1, <2>1 DEF ParseWord, AfterWord, OptionsInv, OptionsTypeOK
  <2>3. opts' \in OptsSet
    <3>1. argv[optind] \in WordSet BY <1>1 DEF ParseWord, OptionsInv, OptionsTypeOK
    <3> QED BY <1>1, <3>1, StoredIsOpts DEF ParseWord, OptionsInv, OptionsTypeOK
  <2>4. CASE status' \in {"parsing", "parsed"}
    <3>1. /\ Reflects(n + 1)' /\ opts' \in OptsSet
          /\ ~Has(n, "-t") /\ (status' = "parsed" <=> argv[n + 1].name = "-t")
      BY <1>1, <2>1, <2>4, WordIsReflected
    <3>2. Has(n, "-t")' = Has(n, "-t") BY <2>2 DEF Has
    <3>3. status' = "parsing" => ~Has(n + 1, "-t")' BY <2>2, <3>1 DEF Has
    <3> QED BY <2>2, <2>4, <3>1, <3>2, <3>3 DEF OptionsInv, OptionsTypeOK, ParsedRight
  <2>5. CASE status' \notin {"parsing", "parsed"}
    BY <2>2, <2>3, <2>5 DEF OptionsInv, OptionsTypeOK, ParsedRight
  <2> QED BY <2>4, <2>5
<1>2. CASE FinishParse
  <2>1. ParsedRight' BY <1>2, ParsedIsRight
  <2>2. OptionsTypeOK' /\ status' \in {"go", "return_1"}
    <3>1. opts \in OptsSet /\ argv \in Seq(WordSet) BY DEF OptionsInv, OptionsTypeOK
    <3>2. OperandPid \in Int
      <4>1. ASSUME NEW k \in Operands PROVE ParsePid(argv[k].arg) \in Int
        <5>1. argv[k] \in WordSet BY <3>1 DEF Operands
        <5> QED BY <5>1 DEF WordSet, ParsePid
      <4>2. -1 \in Int OBVIOUS
      <4>3. (\E k \in Operands : Operands = {k}) => (CHOOSE k \in Operands : TRUE) \in Operands
        OBVIOUS
      <4> QED BY <4>1, <4>2, <4>3, Zenon DEF OperandPid
    <3>3. opts' \in OptsSet BY <1>2, <3>1, <3>2 DEF FinishParse, OptsSet
    <3> QED BY <1>2, <3>3 DEF FinishParse, OptionsInv, OptionsTypeOK
  <2> QED BY <2>1, <2>2 DEF OptionsInv
<1> QED BY <1>1, <1>2 DEF ParseStep

\* The rest of a profile leaves the options alone; their words are forgotten
\* when it begins.
LEMMA ReportKeepsOptions ==
  ASSUME OptionsInv, [Next]_vars
  PROVE  OptionsInv'
<1>1. CASE Parse BY <1>1, ParseKeepsOptions DEF Parse
<1>2. CASE Begin
  <2>1. /\ status = "go" /\ status' = status /\ opts' = opts /\ argv' = <<>> /\ optind' = 1
    BY <1>2 DEF Begin
  <2> QED BY <2>1 DEF OptionsInv, OptionsTypeOK, ParsedRight
<1>3. CASE UNCHANGED optionsVars
  <2>1. /\ argv' = argv /\ optind' = optind /\ status' = status /\ opts' = opts
    BY <1>3 DEF optionsVars
  <2>2. \A n, name : Has(n, name)' <=> Has(n, name) BY <2>1 DEF Has
  <2>3. \A n, name, k : IsLast(n, name, k)' <=> IsLast(n, name, k) BY <2>1 DEF IsLast
  <2>4. Reflects(optind - 1)' <=> Reflects(optind - 1) BY <2>1, <2>2, <2>3, Zenon DEF Reflects
  <2>5. Own' = Own BY <2>1 DEF Own, SelectInSeq
  <2>8. ParsedRight' <=> ParsedRight
    BY <2>1, <2>5 DEF ParsedRight, Given, LastOf, SelectLastInSeq
  <2>9. OptionsTypeOK' <=> OptionsTypeOK BY <2>1 DEF OptionsTypeOK
  <2> QED BY <2>1, <2>2, <2>4, <2>8, <2>9 DEF OptionsInv
<1> QED BY <1>1, <1>2, <1>3 DEF Next, Sample, SampleFails, SampleThrows, Finish, CreateNode,
                                ConvertEnd, Terminated, vars

\* A session that begins is the one that was asked for, for command lines of
\* any words, however many: traced, or attached to a possible process, with
\* the last value of each option.
THEOREM OptionsAreRight == Spec => []ParsedRight
<1>1. Init => OptionsInv
  BY OptionsAssumption DEF Init, OptionsInit, OptionsInv, OptionsTypeOK, OptsSet, Reflects, Has, IsLast, ParsedRight
<1>2. OptionsInv /\ [Next]_vars => OptionsInv' BY ReportKeepsOptions
<1>3. OptionsInv => ParsedRight BY DEF OptionsInv
<1> QED BY <1>1, <1>2, <1>3, PTL DEF Spec

----------------------------------------------------------------------------
(* The recursive definitions: they have solutions, and so are solutions.   *)

\* A solution of the equation of Filled.
FilledEq(g, n) ==
  g = [k \in 0..n |-> IF k = 0 THEN <<>> ELSE Add(g[k - 1], call_stacks[k].frames)]

\* Filled is a solution of its equation: there is one for each length.
LEMMA FilledSolves ==
  ASSUME Len(call_stacks) \in Nat
  PROVE  FilledEq(Filled, Len(call_stacks))
<1> DEFINE S == {m \in Nat : \E g : FilledEq(g, m)}
<1>1. 0 \in S
  <2>1. FilledEq([k \in 0..0 |-> <<>>], 0) BY DEF FilledEq
  <2> QED BY <2>1
<1>2. ASSUME NEW m \in Nat, m \in S PROVE m + 1 \in S
  <2>1. PICK g : FilledEq(g, m) BY <1>2
  <2> DEFINE h == [k \in 0..(m + 1) |->
                     IF k <= m THEN g[k] ELSE Add(g[m], call_stacks[m + 1].frames)]
  <2>2. \A k \in 0..m : g[k] = IF k = 0 THEN <<>> ELSE Add(g[k - 1], call_stacks[k].frames)
    BY <2>1 DEF FilledEq
  <2>3. \A k \in 0..(m + 1) :
          h[k] = IF k = 0 THEN <<>> ELSE Add(h[k - 1], call_stacks[k].frames)
    <3> SUFFICES ASSUME NEW k \in 0..(m + 1)
                 PROVE  h[k] = IF k = 0 THEN <<>> ELSE Add(h[k - 1], call_stacks[k].frames)
      OBVIOUS
    <3>1. CASE k <= m
      <4>1. h[k] = g[k] /\ (k # 0 => h[k - 1] = g[k - 1]) BY <3>1
      <4> QED BY <2>2, <3>1, <4>1
    <3>2. CASE k = m + 1
      <4>1. h[k] = Add(g[m], call_stacks[k].frames) /\ h[k - 1] = g[m] /\ k # 0 BY <3>2
      <4> QED BY <4>1
    <3> QED BY <3>1, <3>2
  <2>4. FilledEq(h, m + 1)
    <3>1. h = [k \in 0..(m + 1) |-> h[k]] OBVIOUS
    <3> HIDE DEF h
    <3> QED BY <3>1, <2>3, Zenon DEF FilledEq
  <2> QED BY <2>4
<1> HIDE DEF S
<1>3. Nat \subseteq S BY <1>1, <1>2, SetInduction
<1>4. \E g : FilledEq(g, Len(call_stacks)) BY <1>3 DEF S
<1>5. Filled = CHOOSE g : FilledEq(g, Len(call_stacks)) BY Zenon DEF Filled, FilledEq
<1> QED BY <1>4, <1>5

TotalsEq(g, s, n) == g = [k \in 0..n |-> IF k = 0 THEN 0 ELSE g[k - 1] + s[k]]

\* So do the running totals.
LEMMA TotalsSolves ==
  ASSUME NEW s, Len(s) \in Nat
  PROVE  TotalsEq(Totals(s), s, Len(s))
<1> DEFINE S == {m \in Nat : \E g : TotalsEq(g, s, m)}
<1>1. 0 \in S
  <2>1. TotalsEq([k \in 0..0 |-> 0], s, 0) BY DEF TotalsEq
  <2> QED BY <2>1
<1>2. ASSUME NEW m \in Nat, m \in S PROVE m + 1 \in S
  <2>1. PICK g : TotalsEq(g, s, m) BY <1>2
  <2> DEFINE h == [k \in 0..(m + 1) |-> IF k <= m THEN g[k] ELSE g[m] + s[m + 1]]
  <2>2. \A k \in 0..m : g[k] = IF k = 0 THEN 0 ELSE g[k - 1] + s[k]
    BY <2>1 DEF TotalsEq
  <2>3. \A k \in 0..(m + 1) : h[k] = IF k = 0 THEN 0 ELSE h[k - 1] + s[k]
    <3> SUFFICES ASSUME NEW k \in 0..(m + 1)
                 PROVE  h[k] = IF k = 0 THEN 0 ELSE h[k - 1] + s[k]
      OBVIOUS
    <3>1. CASE k <= m
      <4>1. h[k] = g[k] /\ (k # 0 => h[k - 1] = g[k - 1]) BY <3>1
      <4> QED BY <2>2, <3>1, <4>1
    <3>2. CASE k = m + 1
      <4>1. h[k] = g[m] + s[k] /\ h[k - 1] = g[m] /\ k # 0 BY <3>2
      <4> QED BY <4>1
    <3> QED BY <3>1, <3>2
  <2>4. TotalsEq(h, s, m + 1)
    <3>1. h = [k \in 0..(m + 1) |-> h[k]] OBVIOUS
    <3> HIDE DEF h
    <3> QED BY <3>1, <2>3, Zenon DEF TotalsEq
  <2> QED BY <2>4
<1> HIDE DEF S
<1>3. Nat \subseteq S BY <1>1, <1>2, SetInduction
<1>4. \E g : TotalsEq(g, s, Len(s)) BY <1>3 DEF S
<1>5. Totals(s) = CHOOSE g : TotalsEq(g, s, Len(s)) BY Zenon DEF Totals, TotalsEq
<1> QED BY <1>4, <1>5

\* A running total is a number, the one before it and the number in its place.
LEMMA TotalsStep ==
  ASSUME NEW s \in Seq(Int)
  PROVE  /\ Totals(s)[0] = 0
         /\ \A n \in 1..Len(s) : Totals(s)[n] = Totals(s)[n - 1] + s[n]
         /\ \A n \in 0..Len(s) : Totals(s)[n] \in Int
<1>1. Len(s) \in Nat OBVIOUS
<1>2. TotalsEq(Totals(s), s, Len(s)) BY <1>1, TotalsSolves
<1>3. \A k \in 0..Len(s) : Totals(s)[k] = IF k = 0 THEN 0 ELSE Totals(s)[k - 1] + s[k]
  BY <1>2 DEF TotalsEq
<1>4. Totals(s)[0] = 0 /\ \A n \in 1..Len(s) : Totals(s)[n] = Totals(s)[n - 1] + s[n]
  BY <1>1, <1>3
<1> DEFINE S == {n \in Nat : n <= Len(s) => Totals(s)[n] \in Int}
<1>5. 0 \in S BY <1>4
<1>6. ASSUME NEW n \in Nat, n \in S PROVE n + 1 \in S
  <2> SUFFICES ASSUME n + 1 <= Len(s) PROVE Totals(s)[n + 1] \in Int OBVIOUS
  <2>1. n + 1 \in 1..Len(s) /\ (n + 1) - 1 = n BY <1>1
  <2>2. Totals(s)[n + 1] = Totals(s)[n] + s[n + 1] BY <1>4, <2>1
  <2>3. s[n + 1] \in Int BY <2>1
  <2>4. Totals(s)[n] \in Int BY <1>1, <1>6
  <2> QED BY <2>2, <2>3, <2>4
<1> HIDE DEF S
<1>7. Nat \subseteq S BY <1>5, <1>6, SetInduction
<1> QED BY <1>1, <1>4, <1>7 DEF S

\* Sequences that agree up to n have the same total of n numbers.
LEMMA TotalsAgree ==
  ASSUME NEW s \in Seq(Int), NEW t \in Seq(Int), NEW N \in Nat, N <= Len(s), N <= Len(t),
         \A n \in 1..N : t[n] = s[n]
  PROVE  Totals(t)[N] = Totals(s)[N]
<1> DEFINE S == {n \in Nat : n <= N => Totals(t)[n] = Totals(s)[n]}
<1>0. Len(s) \in Nat /\ Len(t) \in Nat OBVIOUS
<1>1. 0 \in S BY TotalsStep
<1>2. ASSUME NEW n \in Nat, n \in S, n + 1 <= N PROVE Totals(t)[n + 1] = Totals(s)[n + 1]
  <2>1. /\ n + 1 \in 1..Len(s) /\ n + 1 \in 1..Len(t) /\ n + 1 \in 1..N /\ n <= N
        /\ (n + 1) - 1 = n
    BY <1>0, <1>2
  <2>2. Totals(s)[n + 1] = Totals(s)[n] + s[n + 1] /\ Totals(t)[n + 1] = Totals(t)[n] + t[n + 1]
    BY <2>1, TotalsStep
  <2> QED BY <1>2, <2>1, <2>2
<1>3. \A n \in Nat : n \in S => n + 1 \in S BY <1>2
<1> HIDE DEF S
<1>4. Nat \subseteq S BY <1>1, <1>3, SetInduction
<1> QED BY <1>4 DEF S

\* Numbers are added in any order.
LEMMA AddOrder ==
  ASSUME NEW a \in Int, NEW b \in Int, NEW c \in Int
  PROVE  a + (b + c) = (a + b) + c /\ (a + c) + b = (a + b) + c
OBVIOUS

\* The total changes by what one number does.
LEMMA TotalsDiffer ==
  ASSUME NEW s \in Seq(Int), NEW t \in Seq(Int), NEW N \in Nat, N <= Len(s), N <= Len(t),
         NEW j \in 1..N, \A n \in 1..N : n # j => t[n] = s[n]
  PROVE  Totals(t)[N] = Totals(s)[N] + (t[j] - s[j])
<1> DEFINE d == t[j] - s[j]
           S == {n \in Nat : n <= N =>
                   Totals(t)[n] = IF n < j THEN Totals(s)[n] ELSE Totals(s)[n] + d}
<1>0. /\ Len(s) \in Nat /\ Len(t) \in Nat /\ s[j] \in Int /\ t[j] \in Int /\ d \in Int
      /\ t[j] = s[j] + d
  <2>1. Len(s) \in Nat /\ Len(t) \in Nat OBVIOUS
  <2>2. j \in 1..Len(s) /\ j \in 1..Len(t) BY <2>1
  <2>3. s[j] \in Int /\ t[j] \in Int BY <2>2
  <2> QED BY <2>1, <2>3
<1> HIDE DEF d
<1>1. 0 \in S
  <2>1. Totals(t)[0] = 0 /\ Totals(s)[0] = 0 /\ 0 < j BY TotalsStep
  <2> QED BY <2>1
<1>2. ASSUME NEW n \in Nat, n \in S, n + 1 <= N
      PROVE  Totals(t)[n + 1] = IF n + 1 < j THEN Totals(s)[n + 1] ELSE Totals(s)[n + 1] + d
  <2>1. /\ n + 1 \in 1..Len(s) /\ n + 1 \in 1..Len(t) /\ n + 1 \in 1..N
        /\ (n + 1) - 1 = n /\ n <= N /\ n \in 0..Len(s)
    <3> HIDE DEF S
    <3>1. n + 1 <= N /\ N <= Len(s) /\ N <= Len(t) BY <1>2
    <3> QED BY <1>0, <3>1
  <2>2. Totals(s)[n + 1] = Totals(s)[n] + s[n + 1] /\ Totals(t)[n + 1] = Totals(t)[n] + t[n + 1]
    BY <2>1, TotalsStep
  <2>3. Totals(t)[n] = IF n < j THEN Totals(s)[n] ELSE Totals(s)[n] + d BY <1>2, <2>1
  <2>4. Totals(s)[n] \in Int /\ s[n + 1] \in Int BY <2>1, TotalsStep
  <2> HIDE DEF S
  <2>5. CASE n + 1 = j
    <3>1. n < j /\ ~(n + 1 < j) BY <2>5
    <3>2. t[n + 1] = s[n + 1] + d BY <1>0, <2>5
    <3>3. Totals(t)[n + 1] = Totals(s)[n] + (s[n + 1] + d) BY <2>2, <2>3, <3>1, <3>2
    <3>4. d \in Int BY <1>0
    <3>5. Totals(s)[n] + (s[n + 1] + d) = (Totals(s)[n] + s[n + 1]) + d BY <2>4, <3>4, AddOrder
    <3> QED BY <2>2, <3>1, <3>3, <3>5
  <2>6. CASE n + 1 # j
    <3>1. t[n + 1] = s[n + 1] /\ (n < j <=> n + 1 < j) BY <2>1, <2>6
    <3>0. d \in Int BY <1>0
    <3>2. (Totals(s)[n] + d) + s[n + 1] = (Totals(s)[n] + s[n + 1]) + d BY <2>4, <3>0, AddOrder
    <3>3. CASE n < j BY <2>2, <2>3, <3>1, <3>3
    <3>4. CASE ~(n < j) BY <2>2, <2>3, <3>1, <3>2, <3>4
    <3> QED BY <3>3, <3>4
  <2> QED BY <2>5, <2>6
<1>3. \A n \in Nat : n \in S => n + 1 \in S BY <1>2
<1> HIDE DEF S
<1>4. Nat \subseteq S BY <1>1, <1>3, SetInduction
<1>5. N \in S /\ N <= N /\ ~(N < j) BY <1>4
<1> QED BY <1>5 DEF S, d

\* Where sequences are joined, so are their totals.
LEMMA TotalsConcat ==
  ASSUME NEW s \in Seq(Int), NEW t \in Seq(Int)
  PROVE  Totals(s \o t)[Len(s) + Len(t)] = Totals(s)[Len(s)] + Totals(t)[Len(t)]
<1> DEFINE u == s \o t
           L == Len(s)
           S == {n \in Nat : n <= Len(t) => Totals(u)[L + n] = Totals(s)[L] + Totals(t)[n]}
<1>0. /\ L \in Nat /\ Len(t) \in Nat /\ u \in Seq(Int) /\ Len(u) = L + Len(t)
      /\ \A n \in 1..L : u[n] = s[n]
      /\ \A n \in 1..Len(t) : u[L + n] = t[n]
  OBVIOUS
<1> HIDE DEF u
<1>a. Totals(s)[L] \in Int BY <1>0, TotalsStep
<1>1. 0 \in S
  <2>1. Totals(u)[L] = Totals(s)[L]
    <3>1. L <= Len(u) /\ L <= Len(s) BY <1>0
    <3> HIDE DEF L
    <3> QED BY <1>0, <3>1, TotalsAgree
  <2>2. Totals(t)[0] = 0 /\ L + 0 = L BY <1>0, TotalsStep
  <2> QED BY <1>a, <2>1, <2>2
<1>2. ASSUME NEW n \in Nat, n \in S PROVE n + 1 \in S
  <2> SUFFICES ASSUME n + 1 <= Len(t)
               PROVE  Totals(u)[L + (n + 1)] = Totals(s)[L] + Totals(t)[n + 1]
    OBVIOUS
  <2>1. /\ n + 1 \in 1..Len(t) /\ L + (n + 1) \in 1..Len(u) /\ n \in 0..Len(t)
        /\ (n + 1) - 1 = n /\ (L + (n + 1)) - 1 = L + n
    BY <1>0
  <2>2. Totals(t)[n + 1] = Totals(t)[n] + t[n + 1] /\ Totals(t)[n] \in Int BY <2>1, TotalsStep
  <2>3. Totals(u)[L + (n + 1)] = Totals(u)[L + n] + u[L + (n + 1)] BY <1>0, <2>1, TotalsStep
  <2>4. Totals(u)[L + n] = Totals(s)[L] + Totals(t)[n] BY <1>0, <1>2
  <2>5. u[L + (n + 1)] = t[n + 1] /\ t[n + 1] \in Int BY <1>0, <2>1
  <2> HIDE DEF S, L
  <2> QED BY <1>a, <2>2, <2>3, <2>4, <2>5
<1> HIDE DEF S
<1>3. Nat \subseteq S BY <1>1, <1>2, SetInduction
<1> QED BY <1>0, <1>3 DEF S, u

----------------------------------------------------------------------------
(* Types.                                                                  *)

AllFrames == Stacks \cup {<<>>, <<FailedFrame>>}
Times == 1..(2 * MaxTurns * MaxStep + 1)
EntrySet == [ts : Times, frames : AllFrames]
Words == {"", "(idle)", "(failed)"}
Texts == Seq(FrameSet \cup [word : Words])
LineSet == [text : Texts, number : Int]
BucketSet == [frames : Stacks, count : Nat]

\* Each turn moves the clock by one step at most.
TypeInv ==
  /\ pc \in {"parse", "loop", "finish", "convert", "done"}
  /\ pc = "parse" => turns = 0 /\ call_stacks = <<>> /\ seen = <<>>
  /\ pc \in {"parse", "loop", "finish"} => out = <<>> /\ converted = 0
  /\ turns \in 0..MaxTurns
  /\ now \in ((MaxTurns - turns) * MaxStep + 1)..((MaxTurns + turns) * MaxStep + 1)
  /\ call_stacks \in Seq(EntrySet) /\ seen \in Seq(EntrySet)
  /\ ~opts.ts => \A k \in DOMAIN call_stacks : call_stacks[k].frames \in Stacks
  /\ idle_count \in 0..turns /\ failed_count \in 0..turns /\ return_code \in 0..1
  /\ out \in Seq(LineSet) /\ converted \in 0..Len(out)

\* The clock stays within what the turns can move it.
LEMMA ClockBound ==
  ASSUME NEW t \in 0..MaxTurns,
         NEW n \in ((MaxTurns - t) * MaxStep + 1)..((MaxTurns + t) * MaxStep + 1)
  PROVE  /\ n \in Times
         /\ t < MaxTurns => \A m \in (n - MaxStep)..(n + MaxStep) :
              m \in ((MaxTurns - (t + 1)) * MaxStep + 1)..((MaxTurns + (t + 1)) * MaxStep + 1)
<1>1. MaxStep \in Nat /\ MaxTurns \in Nat BY ReportAssumption
<1>2. ASSUME NEW a \in Nat PROVE a * MaxStep \in Nat BY <1>1
<1>3. (MaxTurns - t) * MaxStep >= 0 /\ (MaxTurns - t) * MaxStep \in Nat BY <1>1, <1>2
<1>4. (MaxTurns + t) * MaxStep + (MaxTurns - t) * MaxStep = 2 * MaxTurns * MaxStep BY <1>1
<1>5. (MaxTurns + t) * MaxStep \in Nat
  <2>1. MaxTurns + t \in Nat BY <1>1
  <2> QED BY <1>2, <2>1
<1>6. n \in Times BY <1>3, <1>4, <1>5 DEF Times
<1>7. t < MaxTurns => (MaxTurns - (t + 1)) * MaxStep = (MaxTurns - t) * MaxStep - MaxStep
  BY <1>1
<1>8. (MaxTurns + (t + 1)) * MaxStep = (MaxTurns + t) * MaxStep + MaxStep BY <1>1
<1> QED BY <1>1, <1>3, <1>5, <1>6, <1>7, <1>8

\* What a turn pushes are entries.
LEMMA SampledAreEntries ==
  ASSUME now \in Times, NEW threads \in Samples
  PROVE  /\ threads \in Seq(Stacks)
         /\ [k \in DOMAIN threads |-> Entry(threads[k])] \in Seq(EntrySet)
         /\ Sampled(threads) \in Seq(EntrySet) /\ Failure \in Seq(EntrySet)
         /\ ~opts.ts => /\ Failure = <<>>
                        /\ \A k \in DOMAIN Sampled(threads) : Sampled(threads)[k].frames \in Stacks
<1>1. threads \in Seq(Seq(FrameSet)) BY ReportAssumption
<1>2. \A k \in DOMAIN threads : threads[k] \in Stacks BY DEF Stacks
<1>3. threads \in Seq(Stacks) BY <1>1, <1>2
<1>4. \A frames \in AllFrames : Entry(frames) \in EntrySet BY DEF Entry, EntrySet
<1>5. [k \in DOMAIN threads |-> Entry(threads[k])] \in Seq(EntrySet)
  <2>1. \A k \in DOMAIN threads : Entry(threads[k]) \in EntrySet BY <1>2, <1>4 DEF AllFrames
  <2>2. DOMAIN threads = 1..Len(threads) /\ Len(threads) \in Nat BY <1>1
  <2> QED BY <2>1, <2>2
<1>6. <<Entry(<<>>)>> \in Seq(EntrySet) /\ <<Entry(<<FailedFrame>>)>> \in Seq(EntrySet)
  BY <1>4 DEF AllFrames
<1>7. \A k \in DOMAIN threads : Entry(threads[k]).frames \in Stacks BY <1>2 DEF Entry
<1> QED BY <1>3, <1>5, <1>6, <1>7 DEF Sampled, Failure

----------------------------------------------------------------------------
(* The buckets.  Of a set of stacks that equal ones are in together, they  *)
(* count as many as were put in.                                           *)

Hits(s, n, X) == Cardinality({j \in 1..n : s[j].frames \in X})
One(s, n, X) == IF s[n].frames \in X THEN 1 ELSE 0

\* One entry more is one more of the set, or none.
LEMMA HitsStep ==
  ASSUME NEW s, NEW X, NEW n \in Nat
  PROVE  /\ Hits(s, 0, X) = 0 /\ Hits(s, n, X) \in Nat
         /\ Hits(s, n + 1, X) = Hits(s, n, X) + One(s, n + 1, X) /\ One(s, n + 1, X) \in Nat
<1> DEFINE H(m) == {j \in 1..m : s[j].frames \in X}
<1>1. IsFiniteSet(H(n)) BY CountTo, FS_Subset
<1>2. H(0) = {} OBVIOUS
<1>3. H(n + 1) = IF s[n + 1].frames \in X THEN H(n) \cup {n + 1} ELSE H(n) OBVIOUS
<1>4. n + 1 \notin H(n) OBVIOUS
<1>8. \A m : Hits(s, m, X) = Cardinality(H(m)) BY Zenon DEF Hits
<1> HIDE DEF H
<1>5. Cardinality(H(n)) \in Nat BY <1>1, FS_CardinalityType
<1>6. Cardinality(H(n) \cup {n + 1}) = Cardinality(H(n)) + 1 BY <1>1, <1>4, FS_AddElement
<1>7. Cardinality(H(0)) = 0 BY <1>2, FS_EmptySet
<1>9. Cardinality(H(n + 1)) = Cardinality(H(n)) + (IF s[n + 1].frames \in X THEN 1 ELSE 0)
  BY <1>3, <1>5, <1>6
<1> QED BY <1>5, <1>7, <1>8, <1>9 DEF One

Closed(X) == \A s, t \in Stacks : SameFrames(s, t) => (s \in X <=> t \in X)
Weights(B, X) == [k \in DOMAIN B |-> IF B[k].frames \in X THEN B[k].count ELSE 0]
InBuckets(B, X) == Totals(Weights(B, X))[Len(B)]

\* A stack is counted in a bucket of an equal one, or in a bucket of its own.
LEMMA AddIs ==
  ASSUME NEW B \in Seq(BucketSet), NEW frames
  PROVE  \/ \E k \in 1..Len(B) : /\ SameFrames(B[k].frames, frames)
                                 /\ Add(B, frames) = [B EXCEPT ![k].count = @ + 1]
         \/ Add(B, frames) = Append(B, [frames |-> frames, count |-> 1])
<1> DEFINE I == {i \in 1..Len(B) : SameFrames(B[i].frames, frames)}
           k == IF I # {} THEN Min(I) ELSE 0
<1>1. Add(B, frames) =
        IF k = 0 THEN Append(B, [frames |-> frames, count |-> 1])
        ELSE [B EXCEPT ![k].count = @ + 1]
  BY DEF Add, SelectInSeq
<1>2. I # {} => Min(I) \in I
  <2>1. I \in SUBSET Nat OBVIOUS
  <2> HIDE DEF I
  <2> QED BY <2>1, MinExists
<1> QED BY <1>1, <1>2

\* So the number of a set of stacks goes up by one if it is in the set.
LEMMA AddCounts ==
  ASSUME NEW B \in Seq(BucketSet), NEW frames \in Stacks, NEW X, Closed(X)
  PROVE  /\ Add(B, frames) \in Seq(BucketSet)
         /\ InBuckets(B, X) \in Int
         /\ InBuckets(Add(B, frames), X) =
              InBuckets(B, X) + (IF frames \in X THEN 1 ELSE 0)
<1> DEFINE A == Add(B, frames)
           W == Weights(B, X)
           V == Weights(A, X)
           L == Len(B)
<1>0. L \in Nat /\ DOMAIN B = 1..L /\ \A k \in 1..L : B[k] \in BucketSet OBVIOUS
<1>1. /\ W \in Seq(Int) /\ Len(W) = L
      /\ \A i \in 1..L : W[i] = IF B[i].frames \in X THEN B[i].count ELSE 0
  <2>1. \A i \in 1..L : B[i].count \in Int BY <1>0 DEF BucketSet
  <2> QED BY <1>0, <2>1 DEF Weights
<1>2. InBuckets(B, X) = Totals(W)[L] /\ InBuckets(B, X) \in Int BY <1>0, <1>1, TotalsStep DEF InBuckets
<1>3. ASSUME NEW k \in 1..L, SameFrames(B[k].frames, frames), A = [B EXCEPT ![k].count = @ + 1]
      PROVE  A \in Seq(BucketSet) /\ InBuckets(A, X) = InBuckets(B, X) + (IF frames \in X THEN 1 ELSE 0)
  <2>1. /\ A \in Seq(BucketSet) /\ Len(A) = L /\ DOMAIN A = 1..L
        /\ \A i \in 1..L : A[i].frames = B[i].frames /\ A[i].count \in Nat
        /\ \A i \in 1..L : A[i].count = IF i = k THEN B[i].count + 1 ELSE B[i].count
    <3> DEFINE R == [frames |-> B[k].frames, count |-> B[k].count + 1]
    <3>1. R \in BucketSet /\ [B[k] EXCEPT !.count = @ + 1] = R BY <1>0 DEF BucketSet
    <3>2. A = [B EXCEPT ![k] = R] BY <1>3, <3>1
    <3>3. R.frames = B[k].frames /\ R.count = B[k].count + 1 OBVIOUS
    <3>4. \A i \in 1..L : B[i].count \in Nat BY <1>0 DEF BucketSet
    <3> HIDE DEF R, A
    <3>5. A \in Seq(BucketSet) /\ Len(A) = L /\ DOMAIN A = 1..L BY <1>0, <3>1, <3>2
    <3>6. \A i \in 1..L : A[i] = IF i = k THEN R ELSE B[i] BY <1>0, <3>2
    <3> QED BY <3>3, <3>4, <3>5, <3>6
  <2>2. B[k].frames \in X <=> frames \in X BY <1>0, <1>3 DEF Closed, BucketSet
  <2>3. /\ V \in Seq(Int) /\ Len(V) = L /\ InBuckets(A, X) = Totals(V)[L]
        /\ \A i \in 1..L : V[i] = IF A[i].frames \in X THEN A[i].count ELSE 0
    <3> HIDE DEF A
    <3> QED BY <1>0, <2>1 DEF Weights, InBuckets
  <2> HIDE DEF W, V, A
  <2>4. CASE frames \in X
    <3>1. \A i \in 1..L : i # k => V[i] = W[i] BY <1>1, <2>1, <2>2, <2>3, <2>4
    <3>2. V[k] = W[k] + 1 /\ W[k] \in Int BY <1>1, <2>1, <2>2, <2>3, <2>4
    <3>3. L <= Len(W) /\ L <= Len(V) BY <1>0, <1>1, <2>3
    <3>4. Totals(V)[L] = Totals(W)[L] + (V[k] - W[k])
      BY <1>0, <1>1, <2>3, <3>1, <3>3, TotalsDiffer
    <3> QED BY <1>2, <2>1, <2>3, <2>4, <3>2, <3>4
  <2>5. CASE frames \notin X
    <3>1. \A i \in 1..L : V[i] = W[i] BY <1>1, <2>1, <2>2, <2>3, <2>5
    <3>2. L <= Len(W) /\ L <= Len(V) BY <1>0, <1>1, <2>3
    <3>3. Totals(V)[L] = Totals(W)[L] BY <1>0, <1>1, <2>3, <3>1, <3>2, TotalsAgree
    <3> QED BY <1>2, <2>1, <2>3, <2>5, <3>3
  <2> QED BY <2>4, <2>5
<1>4. ASSUME A = Append(B, [frames |-> frames, count |-> 1])
      PROVE  A \in Seq(BucketSet) /\ InBuckets(A, X) = InBuckets(B, X) + (IF frames \in X THEN 1 ELSE 0)
  <2> DEFINE R == [frames |-> frames, count |-> 1]
  <2>1. R \in BucketSet /\ R.frames = frames /\ R.count = 1 BY DEF BucketSet
  <2>2. A = Append(B, R) BY <1>4
  <2> HIDE DEF R, A
  <2>3. /\ A \in Seq(BucketSet) /\ Len(A) = L + 1 /\ DOMAIN A = 1..(L + 1)
        /\ A[L + 1] = R /\ \A i \in 1..L : A[i] = B[i]
    BY <1>0, <2>1, <2>2
  <2>4. \A i \in 1..(L + 1) : A[i].count \in Int
    <3>1. \A i \in 1..(L + 1) : A[i] \in BucketSet BY <2>3
    <3> QED BY <3>1 DEF BucketSet
  <2>5. /\ V \in Seq(Int) /\ Len(V) = L + 1 /\ InBuckets(A, X) = Totals(V)[L + 1]
        /\ \A i \in 1..(L + 1) : V[i] = IF A[i].frames \in X THEN A[i].count ELSE 0
    BY <1>0, <2>3, <2>4 DEF Weights, InBuckets
  <2> HIDE DEF W, V
  <2>6. Totals(V)[L] = Totals(W)[L]
    <3>1. \A i \in 1..L : i \in 1..(L + 1) BY <1>0
    <3>3. \A i \in 1..L : V[i] = W[i] BY <1>1, <2>3, <2>5, <3>1
    <3>2. L <= Len(W) /\ L <= Len(V) BY <1>0, <1>1, <2>5
    <3> QED BY <1>0, <1>1, <2>5, <3>3, <3>2, TotalsAgree
  <2>7. Totals(V)[L + 1] = Totals(V)[L] + V[L + 1]
    <3>1. L + 1 \in 1..Len(V) /\ (L + 1) - 1 = L BY <1>0, <2>5
    <3> QED BY <2>5, <3>1, TotalsStep
  <2>8. V[L + 1] = IF frames \in X THEN 1 ELSE 0 BY <1>0, <2>1, <2>3, <2>5
  <2> QED BY <1>2, <2>3, <2>5, <2>6, <2>7, <2>8
<1> QED BY <1>2, <1>3, <1>4, AddIs

\* The buckets of all stacks count each set of stacks.
LEMMA FilledCounts ==
  ASSUME call_stacks \in Seq(EntrySet), \A k \in DOMAIN call_stacks : call_stacks[k].frames \in Stacks,
         NEW X, Closed(X)
  PROVE  Bucketed \in Seq(BucketSet) /\ InBuckets(Bucketed, X) = Hits(call_stacks, Len(call_stacks), X)
<1> DEFINE N == Len(call_stacks)
           S == {n \in Nat : n <= N => /\ Filled[n] \in Seq(BucketSet)
                                       /\ InBuckets(Filled[n], X) = Hits(call_stacks, n, X)}
<1>0. N \in Nat /\ DOMAIN call_stacks = 1..N OBVIOUS
<1>1. \A n \in 0..N : Filled[n] = IF n = 0 THEN <<>> ELSE Add(Filled[n - 1], call_stacks[n].frames)
  BY <1>0, FilledSolves DEF FilledEq
<1>2. 0 \in S
  <2>1. Filled[0] = <<>> BY <1>0, <1>1
  <2>2. Weights(<<>>, X) \in Seq(Int) /\ Len(<<>>) = 0 BY DEF Weights
  <2>3. InBuckets(<<>>, X) = 0 BY <2>2, TotalsStep DEF InBuckets
  <2>4. Hits(call_stacks, 0, X) = 0 BY HitsStep
  <2>5. <<>> \in Seq(BucketSet) OBVIOUS
  <2> QED BY <2>1, <2>3, <2>4, <2>5
<1>3. ASSUME NEW n \in Nat, n \in S, n + 1 <= N
      PROVE  /\ Filled[n + 1] \in Seq(BucketSet)
             /\ InBuckets(Filled[n + 1], X) = Hits(call_stacks, n + 1, X)
  <2>1. n + 1 \in 0..N /\ n + 1 \in 1..N /\ (n + 1) - 1 = n /\ n + 1 # 0 /\ n <= N BY <1>0, <1>3
  <2>2. Filled[n + 1] = Add(Filled[n], call_stacks[n + 1].frames) BY <1>1, <2>1
  <2>3. call_stacks[n + 1].frames \in Stacks BY <1>0, <2>1
  <2>4. Filled[n] \in Seq(BucketSet) /\ InBuckets(Filled[n], X) = Hits(call_stacks, n, X)
    BY <1>3, <2>1
  <2> DEFINE B == Filled[n]
             frames == call_stacks[n + 1].frames
  <2>5. /\ Add(B, frames) \in Seq(BucketSet)
        /\ InBuckets(Add(B, frames), X) = InBuckets(B, X) + (IF frames \in X THEN 1 ELSE 0)
    <3> HIDE DEF B, frames
    <3>1. B \in Seq(BucketSet) /\ frames \in Stacks BY <2>3, <2>4 DEF B, frames
    <3> QED BY <3>1, AddCounts
  <2>6. Hits(call_stacks, n + 1, X) = Hits(call_stacks, n, X) + One(call_stacks, n + 1, X)
    BY HitsStep
  <2>7. One(call_stacks, n + 1, X) = IF frames \in X THEN 1 ELSE 0 BY DEF One
  <2> HIDE DEF S, N, frames
  <2> QED BY <2>2, <2>4, <2>5, <2>6, <2>7 DEF frames
<1>4. \A n \in Nat : n \in S => n + 1 \in S BY <1>3
<1> HIDE DEF S
<1>5. Nat \subseteq S BY <1>2, <1>4, SetInduction
<1>6. N \in S /\ N <= N BY <1>0, <1>5
<1> QED BY <1>6 DEF S, Bucketed

All(s, X) == Hits(s, Len(s), X)

\* What is joined counts together.
Together(s, t, X) ==
  /\ All(s \o t, X) = All(s, X) + All(t, X) /\ All(s, X) \in Nat
  /\ \A n \in 0..Len(s) : Hits(s \o t, n, X) = Hits(s, n, X)
  /\ \A n \in 0..Len(t) : Hits(s \o t, Len(s) + n, X) = All(s, X) + Hits(t, n, X)

\* The hits of a joined sequence are those of its parts, one after the other.
LEMMA HitsConcat ==
  ASSUME NEW s \in Seq(EntrySet), NEW t \in Seq(EntrySet), NEW X
  PROVE  Together(s, t, X)
<1> DEFINE u == s \o t
           L == Len(s)
           S == {n \in Nat : n <= Len(t) => Hits(u, L + n, X) = Hits(s, L, X) + Hits(t, n, X)}
<1>0. /\ L \in Nat /\ Len(t) \in Nat /\ Len(u) = L + Len(t)
      /\ \A n \in 1..L : u[n] = s[n]
      /\ \A n \in 1..Len(t) : u[L + n] = t[n]
  OBVIOUS
<1> HIDE DEF u
<1>1. Hits(s, L, X) \in Nat BY <1>0, HitsStep
<1>2. 0 \in S
  <2>1. Hits(u, L, X) = Hits(s, L, X) BY <1>0 DEF Hits
  <2>2. Hits(t, 0, X) = 0 /\ L + 0 = L BY <1>0, HitsStep
  <2> QED BY <1>1, <2>1, <2>2
<1>3. ASSUME NEW n \in Nat, n \in S, n + 1 <= Len(t)
      PROVE  Hits(u, L + (n + 1), X) = Hits(s, L, X) + Hits(t, n + 1, X)
  <2>1. n + 1 \in 1..Len(t) /\ L + (n + 1) = (L + n) + 1 /\ L + n \in Nat /\ n <= Len(t)
    BY <1>0, <1>3
  <2>2. Hits(u, L + n, X) = Hits(s, L, X) + Hits(t, n, X) BY <1>3, <2>1
  <2>3. u[(L + n) + 1] = t[n + 1] BY <1>0, <2>1
  <2>4. Hits(u, (L + n) + 1, X) = Hits(u, L + n, X) + One(u, (L + n) + 1, X)
    BY <2>1, HitsStep
  <2>5. /\ Hits(t, n + 1, X) = Hits(t, n, X) + One(t, n + 1, X)
        /\ Hits(t, n, X) \in Nat /\ One(t, n + 1, X) \in Nat
    BY HitsStep
  <2>6. One(u, (L + n) + 1, X) = One(t, n + 1, X) BY <2>3 DEF One
  <2> HIDE DEF S, L
  <2> QED BY <1>1, <2>1, <2>2, <2>4, <2>5, <2>6
<1>4. \A n \in Nat : n \in S => n + 1 \in S BY <1>3
<1> HIDE DEF S
<1>5. Nat \subseteq S BY <1>2, <1>4, SetInduction
<1>6. \A n \in 0..Len(t) : Hits(u, L + n, X) = Hits(s, L, X) + Hits(t, n, X) BY <1>5 DEF S
<1>7. Hits(u, L + Len(t), X) = Hits(s, L, X) + Hits(t, Len(t), X) BY <1>0, <1>6
<1>8. \A n \in 0..L : Hits(u, n, X) = Hits(s, n, X)
  <2> SUFFICES ASSUME NEW n \in 0..L PROVE Hits(u, n, X) = Hits(s, n, X) OBVIOUS
  <2>1. \A j \in 1..n : u[j] = s[j] BY <1>0
  <2> QED BY <2>1 DEF Hits
<1> QED BY <1>0, <1>1, <1>6, <1>7, <1>8 DEF All, u, Together

\* One entry counts once or not.
LEMMA HitsOne ==
  ASSUME NEW e, NEW X
  PROVE  All(<<e>>, X) = (IF e.frames \in X THEN 1 ELSE 0) /\ All(<<>>, X) = 0
<1>1. Len(<<e>>) = 0 + 1 /\ <<e>>[0 + 1] = e /\ Len(<<>>) = 0 OBVIOUS
<1>2. \A s : Hits(s, 0, X) = 0 BY HitsStep
<1>3. Hits(<<e>>, 0 + 1, X) = Hits(<<e>>, 0, X) + One(<<e>>, 0 + 1, X) BY HitsStep
<1>4. One(<<e>>, 0 + 1, X) = IF e.frames \in X THEN 1 ELSE 0 BY <1>1 DEF One
<1> QED BY <1>1, <1>2, <1>3, <1>4 DEF All

\* An entry of the set is counted, and among those that are.
LEMMA HitsWithin ==
  ASSUME NEW s \in Seq(EntrySet), NEW X, NEW n \in 1..Len(s), s[n].frames \in X
  PROVE  Hits(s, n, X) \in 1..All(s, X)
<1> DEFINE H(m) == {j \in 1..m : s[j].frames \in X}
<1>0. n - 1 \in Nat /\ (n - 1) + 1 = n /\ Len(s) \in Nat /\ n \in Nat OBVIOUS
<1>1. Hits(s, (n - 1) + 1, X) = Hits(s, n - 1, X) + One(s, (n - 1) + 1, X) /\ Hits(s, n - 1, X) \in Nat
  BY <1>0, HitsStep
<1>2. One(s, n, X) = 1 BY DEF One
<1>3. IsFiniteSet(H(Len(s))) BY <1>0, CountTo, FS_Subset
<1>4. H(n) \subseteq H(Len(s)) OBVIOUS
<1>5. \A m : Hits(s, m, X) = Cardinality(H(m)) BY Zenon DEF Hits
<1> HIDE DEF H
<1>6. Cardinality(H(n)) <= Cardinality(H(Len(s))) BY <1>3, <1>4, FS_Subset
<1>7. Hits(s, n, X) <= Hits(s, Len(s), X) BY <1>5, <1>6
<1>8. Hits(s, Len(s), X) \in Nat BY <1>0, HitsStep
<1> QED BY <1>0, <1>1, <1>2, <1>7, <1>8 DEF All

\* If all entries are in the set, all are counted.
LEMMA HitsWhole ==
  ASSUME NEW s \in Seq(EntrySet), NEW X, \A k \in 1..Len(s) : s[k].frames \in X,
         NEW n \in 0..Len(s)
  PROVE  Hits(s, n, X) = n
<1>1. {j \in 1..n : s[j].frames \in X} = 1..n OBVIOUS
<1>2. n \in Nat OBVIOUS
<1> QED BY <1>1, <1>2, CountTo DEF Hits

----------------------------------------------------------------------------
(* Type correctness.                                                       *)

\* Stacks are sequences of frames; neither an idle turn nor a failure is one.
LEMMA StacksAreFrames ==
  /\ AllFrames \subseteq Seq(FrameSet) /\ <<>> \notin Stacks /\ <<FailedFrame>> \notin Stacks
  /\ \A s \in Stacks : Len(s) = 1 => s[1].file # "(failed)"
<1>1. Stacks \subseteq Seq(FrameSet)
  <2> SUFFICES ASSUME NEW threads \in Samples, NEW k \in DOMAIN threads
               PROVE  threads[k] \in Seq(FrameSet)
    BY DEF Stacks
  <2>1. threads \in Seq(Seq(FrameSet)) BY ReportAssumption
  <2> QED BY <2>1
<1>2. FailedFrame \in FrameSet /\ FailedFrame.file = "(failed)" BY ReportAssumption DEF FailedFrame, FrameSet
<1>3. <<FailedFrame>> \in Seq(FrameSet) /\ Len(<<FailedFrame>>) = 1 /\ <<FailedFrame>>[1] = FailedFrame
  BY <1>2
<1>4. <<>> \in Seq(FrameSet) OBVIOUS
<1>5. \A s \in Stacks : s # <<>> /\ (Len(s) = 1 => s[1].file # "(failed)") BY ReportAssumption
<1>6. <<FailedFrame>> \notin Stacks BY <1>2, <1>3, <1>5
<1> QED BY <1>1, <1>3, <1>4, <1>5, <1>6 DEF AllFrames

\* The outermost frame comes first.
LEMMA OutermostIs ==
  ASSUME NEW s \in Seq(FrameSet)
  PROVE  /\ Outermost(s) \in Seq(FrameSet) /\ Len(Outermost(s)) = Len(s)
         /\ \A k \in 1..Len(s) : Outermost(s)[k] = PrintFrame(s[(Len(s) - k) + 1])
<1>1. \A g \in FrameSet : PrintFrame(g) \in FrameSet BY DEF PrintFrame, FrameSet
<1>2. Len(s) \in Nat /\ DOMAIN s = 1..Len(s) OBVIOUS
<1>3. \A k \in 1..Len(s) : (Len(s) - k) + 1 \in 1..Len(s) BY <1>2
<1>4. \A k \in 1..Len(s) : Reverse(s)[k] = s[(Len(s) - k) + 1] /\ Reverse(s)[k] \in FrameSet
  BY <1>2, <1>3 DEF Reverse
<1>5. Outermost(s) = [k \in 1..Len(s) |-> PrintFrame(Reverse(s)[k])] BY <1>2 DEF Outermost
<1>6. \A k \in 1..Len(s) : PrintFrame(Reverse(s)[k]) \in FrameSet BY <1>1, <1>4
<1> QED BY <1>2, <1>4, <1>5, <1>6

\* What is written for a stack, an idle turn or a failure are lines.
LEMMA LinesAre ==
  /\ \A e \in EntrySet : TsLine(e) \in LineSet
  /\ \A s \in Stacks, n \in Nat : CountLine(Outermost(s), n) \in LineSet
  /\ \A t \in Words, n \in Nat : Counted(t, n) \in Seq(LineSet)
<1>1. \A t \in Words : <<Word(t)>> \in Texts BY DEF Word, Texts
<1>2. \A s \in AllFrames : Outermost(s) \in Texts /\ Append(Outermost(s), Word("")) \in Texts
  <2> SUFFICES ASSUME NEW s \in AllFrames
               PROVE  Outermost(s) \in Texts /\ Append(Outermost(s), Word("")) \in Texts
    OBVIOUS
  <2>1. Outermost(s) \in Seq(FrameSet) BY StacksAreFrames, OutermostIs
  <2> DEFINE C == FrameSet \cup [word : Words]
             o == Outermost(s)
             w == Word("")
  <2>2. w \in C BY DEF Word, Words
  <2>3. o \in Seq(C) BY <2>1
  <2> HIDE DEF C, o, w
  <2>4. o \in Seq(C) /\ Append(o, w) \in Seq(C) BY <2>2, <2>3
  <2> QED BY <2>4 DEF Texts, C, o, w
<1>3. ASSUME NEW e \in EntrySet PROVE TsLine(e) \in LineSet
  <2>1. e.frames \in AllFrames /\ e.ts \in Int BY DEF EntrySet, Times
  <2>2. TsLine(e).text \in Texts /\ TsLine(e).number \in Int BY <1>1, <1>2, <2>1 DEF TsLine, Words
  <2> QED BY <2>2 DEF TsLine, LineSet
<1>4. ASSUME NEW s \in Stacks, NEW n \in Nat PROVE CountLine(Outermost(s), n) \in LineSet
  <2>1. Outermost(s) \in Texts BY <1>2 DEF AllFrames
  <2>2. n \in Int OBVIOUS
  <2> QED BY <2>1, <2>2, Zenon DEF CountLine, LineSet
<1>5. ASSUME NEW t \in Words, NEW n \in Nat PROVE Counted(t, n) \in Seq(LineSet)
  <2>1. CountLine(<<Word(t)>>, n) \in LineSet BY <1>1 DEF CountLine, LineSet
  <2> QED BY <2>1 DEF Counted
<1> QED BY <1>3, <1>4, <1>5

\* The report is a sequence of lines.
LEMMA ReportIsLines ==
  ASSUME TypeInv
  PROVE  /\ PrintFramesTS \in Seq(LineSet) /\ (~opts.ts => PrintFrames \in Seq(LineSet))
         /\ Len(PrintFramesTS) = Len(call_stacks)
<1>1. call_stacks \in Seq(EntrySet) /\ idle_count \in Nat /\ failed_count \in Nat BY DEF TypeInv
<1>2. PrintFramesTS \in Seq(LineSet) /\ Len(PrintFramesTS) = Len(call_stacks)
  <2>1. \A k \in 1..Len(call_stacks) : TsLine(call_stacks[k]) \in LineSet BY <1>1, LinesAre
  <2> QED BY <1>1, <2>1 DEF PrintFramesTS
<1>3. ASSUME ~opts.ts PROVE PrintFrames \in Seq(LineSet)
  <2> DEFINE L == [k \in DOMAIN Bucketed |-> CountLine(Outermost(Bucketed[k].frames), Bucketed[k].count)]
             I == Counted("(idle)", idle_count)
             F == Counted("(failed)", failed_count)
  <2>1. \A k \in DOMAIN call_stacks : call_stacks[k].frames \in Stacks BY <1>3 DEF TypeInv
  <2>2. Bucketed \in Seq(BucketSet)
    <3>1. Closed({}) BY DEF Closed
    <3> QED BY <1>1, <2>1, <3>1, FilledCounts
  <2>3. L \in Seq(LineSet)
    <3>1. \A k \in 1..Len(Bucketed) : Bucketed[k].frames \in Stacks /\ Bucketed[k].count \in Nat
      <4>1. \A k \in 1..Len(Bucketed) : Bucketed[k] \in BucketSet BY <2>2
      <4> QED BY <4>1 DEF BucketSet
    <3>2. \A k \in 1..Len(Bucketed) : L[k] \in LineSet BY <2>2, <3>1, LinesAre
    <3>3. DOMAIN Bucketed = 1..Len(Bucketed) /\ Len(Bucketed) \in Nat BY <2>2
    <3> HIDE DEF L
    <3>4. L = [k \in 1..Len(Bucketed) |-> L[k]] BY <3>3 DEF L
    <3> QED BY <3>2, <3>3, <3>4
  <2>4. I \in Seq(LineSet) /\ F \in Seq(LineSet) BY <1>1, LinesAre DEF Words
  <2>5. PrintFrames = I \o F \o L BY DEF PrintFrames
  <2> HIDE DEF L, I, F
  <2> QED BY <2>3, <2>4, <2>5
<1> QED BY <1>2, <1>3

\* Parsing and the beginning of the profile keep its types.
LEMMA BeginTypes ==
  ASSUME TypeInv, Parse \/ Begin
  PROVE  TypeInv'
<1>1. /\ pc = "parse" /\ pc' \in {"parse", "loop"} /\ turns' = turns /\ now' = now
      /\ call_stacks' = call_stacks /\ seen' = seen /\ idle_count' = idle_count
      /\ failed_count' = failed_count /\ return_code' = return_code /\ out' = out
      /\ converted' = converted
  BY DEF Parse, Begin, profVars
<1>2. call_stacks = <<>> BY <1>1 DEF TypeInv
<1> QED BY <1>1, <1>2 DEF TypeInv

\* So do the turns of the loop.
LEMMA TurnTypes ==
  ASSUME TypeInv, Sample \/ SampleFails \/ SampleThrows
  PROVE  TypeInv'
<1>1. /\ pc = "loop" /\ pc' \in {"loop", "finish"} /\ opts' = opts /\ out' = out
      /\ converted' = converted /\ return_code' \in 0..1
  <2>1. return_code \in 0..1 BY DEF TypeInv
  <2>2. CASE Sample BY <2>1, <2>2, Zenon DEF Sample, profVars, optionsVars
  <2>3. CASE SampleFails BY <2>1, <2>3 DEF SampleFails, profVars, optionsVars
  <2>4. CASE SampleThrows BY <2>4 DEF SampleThrows, profVars, optionsVars
  <2> QED BY <2>2, <2>3, <2>4
<1>2. now \in Times /\ out = <<>> /\ converted = 0 /\ MaxTurns \in Nat /\ MaxStep \in Nat
      /\ turns \in Nat
  <2>1. turns \in 0..MaxTurns
        /\ now \in ((MaxTurns - turns) * MaxStep + 1)..((MaxTurns + turns) * MaxStep + 1)
    BY DEF TypeInv
  <2>2. now \in Times BY <2>1, ClockBound
  <2> QED BY <1>1, <2>1, <2>2, ReportAssumption DEF TypeInv
<1>3. ASSUME NextTurn, turns < MaxTurns
      PROVE  /\ turns' = turns + 1 /\ turns' \in 0..MaxTurns
             /\ now' \in ((MaxTurns - turns') * MaxStep + 1)..((MaxTurns + turns') * MaxStep + 1)
  <2>1. turns \in 0..MaxTurns
        /\ now \in ((MaxTurns - turns) * MaxStep + 1)..((MaxTurns + turns) * MaxStep + 1)
    BY DEF TypeInv
  <2>2. \A m \in (now - MaxStep)..(now + MaxStep) :
          m \in ((MaxTurns - (turns + 1)) * MaxStep + 1)..((MaxTurns + (turns + 1)) * MaxStep + 1)
    BY <1>3, <2>1, ClockBound
  <2>3. turns' = turns + 1 /\ now' \in (now - MaxStep)..(now + MaxStep) BY <1>3 DEF NextTurn
  <2>4. turns' \in 0..MaxTurns BY <1>2, <1>3, <2>1, <2>3
  <2> QED BY <2>2, <2>3, <2>4
<1> DEFINE F == <<Entry(<<FailedFrame>>)>>
<1>4. F \in Seq(EntrySet) /\ Failure \in Seq(EntrySet) /\ (~opts.ts => Failure = <<>>)
  <2>1. Entry(<<FailedFrame>>) \in EntrySet BY <1>2 DEF Entry, EntrySet, AllFrames
  <2> QED BY <2>1 DEF Failure
<1>5. Entry(<<>>) \in EntrySet BY <1>2 DEF Entry, EntrySet, AllFrames
<1>6. /\ call_stacks \in Seq(EntrySet) /\ seen \in Seq(EntrySet)
      /\ idle_count \in 0..turns /\ failed_count \in 0..turns
      /\ ~opts.ts => \A k \in DOMAIN call_stacks : call_stacks[k].frames \in Stacks
  BY DEF TypeInv
<1> HIDE DEF F
<1>7. CASE Sample
  <2>1. PICK threads \in Samples, end \in {"next", "deadline", "terminated", "ptrace"} :
          /\ turns < MaxTurns /\ NextTurn
          /\ idle_count' = idle_count + (IF threads = <<>> /\ opts.idle THEN 1 ELSE 0)
          /\ failed_count' = failed_count + (IF end = "ptrace" THEN 1 ELSE 0)
          /\ call_stacks' = call_stacks \o Sampled(threads) \o (IF end = "ptrace" THEN Failure ELSE <<>>)
          /\ seen' = seen \o (IF threads = <<>> THEN <<Entry(<<>>)>>
                              ELSE [k \in DOMAIN threads |-> Entry(threads[k])])
                          \o (IF end = "ptrace" THEN F ELSE <<>>)
    BY <1>7, Zenon DEF Sample, F
  <2>2. idle_count' \in 0..turns' /\ failed_count' \in 0..turns' BY <1>2, <1>3, <1>6, <2>1
  <2>3. /\ [k \in DOMAIN threads |-> Entry(threads[k])] \in Seq(EntrySet)
        /\ Sampled(threads) \in Seq(EntrySet)
        /\ ~opts.ts => \A k \in DOMAIN Sampled(threads) : Sampled(threads)[k].frames \in Stacks
    BY <1>2, SampledAreEntries
  <2> DEFINE R == IF threads = <<>> THEN <<Entry(<<>>)>> ELSE [k \in DOMAIN threads |-> Entry(threads[k])]
             G == IF end = "ptrace" THEN F ELSE <<>>
             H == IF end = "ptrace" THEN Failure ELSE <<>>
             P == Sampled(threads)
  <2>4. R \in Seq(EntrySet) /\ G \in Seq(EntrySet) /\ H \in Seq(EntrySet) BY <1>4, <1>5, <2>3
  <2>5. ~opts.ts => H = <<>> BY <1>4
  <2>6. call_stacks' = call_stacks \o P \o H /\ seen' = seen \o R \o G BY <2>1
  <2> HIDE DEF R, G, H, P
  <2>7. seen' \in Seq(EntrySet) /\ call_stacks' \in Seq(EntrySet)
    BY <1>6, <2>3, <2>4, <2>6 DEF P
  <2>8. ASSUME ~opts.ts, NEW k \in DOMAIN call_stacks' PROVE call_stacks'[k].frames \in Stacks
    <3>1. call_stacks' = call_stacks \o P /\ P \in Seq(EntrySet)
      <4>1. call_stacks \o P \in Seq(EntrySet) /\ H = <<>> BY <1>6, <2>3, <2>5, <2>8 DEF P
      <4>2. (call_stacks \o P) \o <<>> = call_stacks \o P BY <4>1
      <4> QED BY <2>3, <2>6, <4>1, <4>2 DEF P
    <3>2. \A i \in 1..Len(P) : P[i].frames \in Stacks BY <2>3, <2>8, <3>1 DEF P
    <3>3. CASE k <= Len(call_stacks)
      <4>1. k \in DOMAIN call_stacks /\ call_stacks'[k] = call_stacks[k] BY <1>6, <3>1, <3>3
      <4> QED BY <1>6, <2>8, <4>1
    <3>4. CASE k > Len(call_stacks)
      <4>1. k - Len(call_stacks) \in 1..Len(P) /\ call_stacks'[k] = P[k - Len(call_stacks)]
        BY <1>6, <3>1, <3>4
      <4> QED BY <3>2, <4>1
    <3>5. k \in Nat /\ Len(call_stacks) \in Nat BY <1>6, <2>7
    <3> QED BY <3>3, <3>4, <3>5
  <2> QED BY <1>1, <1>2, <1>3, <2>1, <2>2, <2>7, <2>8 DEF TypeInv
<1>8. CASE SampleFails
  <2>1. /\ turns < MaxTurns /\ NextTurn /\ failed_count' = failed_count + 1
        /\ call_stacks' = call_stacks \o Failure /\ idle_count' = idle_count
        /\ seen' = Append(seen, Entry(<<FailedFrame>>))
    BY <1>8 DEF SampleFails
  <2>2. Entry(<<FailedFrame>>) \in EntrySet BY <1>2 DEF Entry, EntrySet, AllFrames
  <2>3. seen' \in Seq(EntrySet) /\ call_stacks' \in Seq(EntrySet) BY <1>4, <1>6, <2>1, <2>2
  <2>4. ~opts.ts => call_stacks' = call_stacks BY <1>4, <1>6, <2>1
  <2>5. idle_count' \in 0..turns' /\ failed_count' \in 0..turns' BY <1>2, <1>3, <1>6, <2>1
  <2> QED BY <1>1, <1>2, <1>3, <1>6, <2>1, <2>3, <2>4, <2>5 DEF TypeInv
<1>9. CASE SampleThrows
  <2>1. /\ turns' = turns /\ now' = now /\ call_stacks' = call_stacks /\ seen' = seen
        /\ idle_count' = idle_count /\ failed_count' = failed_count
    BY <1>9 DEF SampleThrows
  <2> QED BY <1>1, <1>2, <2>1 DEF TypeInv
<1> QED BY <1>7, <1>8, <1>9

\* And the report and its conversion.
LEMMA TypesKept ==
  ASSUME TypeInv, [Next]_vars
  PROVE  TypeInv'
<1>1. CASE Parse \/ Begin BY <1>1, BeginTypes
<1>2. CASE Sample \/ SampleFails \/ SampleThrows BY <1>2, TurnTypes
<1>3. CASE Finish
  <2>1. /\ pc = "finish" /\ pc' \in {"convert", "done"} /\ opts' = opts /\ turns' = turns /\ now' = now
        /\ call_stacks' = call_stacks /\ seen' = seen /\ idle_count' = idle_count
        /\ failed_count' = failed_count /\ return_code' = return_code /\ converted' = converted
    BY <1>3 DEF Finish, profVars, optionsVars
  <2>2. out' \in Seq(LineSet)
    <3>1. PrintFramesTS \in Seq(LineSet) /\ (~opts.ts => PrintFrames \in Seq(LineSet))
      BY ReportIsLines
    <3>2. <<>> \in Seq(LineSet) OBVIOUS
    <3>3. out' \in {<<>>, PrintFramesTS} \/ (~opts.ts /\ out' = PrintFrames) BY <1>3 DEF Finish
    <3> QED BY <3>1, <3>2, <3>3
  <2>3. converted = 0 BY <2>1 DEF TypeInv
  <2> QED BY <2>1, <2>2, <2>3 DEF TypeInv
<1>4. CASE CreateNode
  <2>1. /\ pc = "convert" /\ pc' = pc /\ opts' = opts /\ turns' = turns /\ now' = now
        /\ call_stacks' = call_stacks /\ seen' = seen /\ idle_count' = idle_count
        /\ failed_count' = failed_count /\ return_code' = return_code /\ out' = out
        /\ converted' = converted + 1 /\ converted < Len(out)
    BY <1>4 DEF CreateNode, optionsVars
  <2>2. converted' \in 0..Len(out) BY <2>1 DEF TypeInv
  <2> QED BY <2>1, <2>2 DEF TypeInv
<1>5. CASE ConvertEnd
  <2>1. /\ pc = "convert" /\ pc' = "done" /\ opts' = opts /\ turns' = turns /\ now' = now
        /\ call_stacks' = call_stacks /\ seen' = seen /\ idle_count' = idle_count
        /\ failed_count' = failed_count /\ return_code' = return_code /\ out' = out
        /\ converted' = converted
    BY <1>5 DEF ConvertEnd, optionsVars, profVars
  <2> QED BY <2>1 DEF TypeInv
<1>6. CASE UNCHANGED vars BY <1>6 DEF vars, optionsVars, profVars, TypeInv
<1> QED BY <1>1, <1>2, <1>3, <1>4, <1>5, <1>6 DEF Next, Terminated

\* A profile begins with its types.
LEMMA BeginsTyped ==
  Init => OptionsInv /\ TypeInv
<1> SUFFICES ASSUME Init PROVE OptionsInv /\ TypeInv OBVIOUS
<1>1. TypeInv
  <2>1. MaxTurns \in Nat /\ MaxStep \in Nat BY ReportAssumption
  <2>2. (MaxTurns - 0) * MaxStep = MaxTurns * MaxStep /\ (MaxTurns + 0) * MaxStep = MaxTurns * MaxStep
        /\ MaxTurns * MaxStep \in Int
    BY <2>1
  <2>3. <<>> \in Seq(EntrySet) /\ <<>> \in Seq(LineSet) /\ DOMAIN <<>> = {} /\ Len(<<>>) = 0 OBVIOUS
  <2>4. now \in ((MaxTurns - 0) * MaxStep + 1)..((MaxTurns + 0) * MaxStep + 1)
    <3>1. now = MaxTurns * MaxStep + 1 BY DEF Init
    <3> QED BY <2>2, <3>1
  <2> QED BY <2>1, <2>3, <2>4 DEF Init, TypeInv
<1>2. OptionsInv
  BY OptionsAssumption DEF Init, OptionsInit, OptionsInv, OptionsTypeOK, OptsSet, Reflects, Has, IsLast, ParsedRight
<1> QED BY <1>1, <1>2

\* Every profile keeps its types, whatever is sampled: counters and clock
\* stay in their bounds, and only a report with timestamps has idle turns and
\* failures among the stacks, so that PrintFrames meets no empty one.
THEOREM TypeCorrect == Spec => []TypeOK
<1>1. Init => OptionsInv /\ TypeInv BY BeginsTyped
<1>3. OptionsInv /\ TypeInv /\ [Next]_vars => OptionsInv' /\ TypeInv' BY ReportKeepsOptions, TypesKept
<1>4. OptionsInv /\ TypeInv => TypeOK
  <2> SUFFICES ASSUME OptionsInv, TypeInv PROVE TypeOK OBVIOUS
  <2>1. MaxTurns \in Nat BY ReportAssumption
  <2>2. now \in Times BY ClockBound DEF TypeInv
  <2>3. idle_count \in 0..MaxTurns /\ failed_count \in 0..MaxTurns BY <2>1 DEF TypeInv
  <2>4. ASSUME NEW k \in DOMAIN call_stacks
        PROVE  /\ call_stacks[k].ts \in Times
               /\ call_stacks[k].frames \in Stacks \cup (IF opts.ts THEN {<<>>, <<FailedFrame>>} ELSE {})
    <3>1. call_stacks[k] \in EntrySet BY DEF TypeInv
    <3>2. call_stacks[k].ts \in Times /\ call_stacks[k].frames \in AllFrames BY <3>1 DEF EntrySet
    <3>3. ~opts.ts => call_stacks[k].frames \in Stacks BY DEF TypeInv
    <3> QED BY <3>2, <3>3 DEF AllFrames
  <2>5. OptionsTypeOK BY DEF OptionsInv
  <2> QED BY <2>2, <2>3, <2>4, <2>5 DEF TypeInv, TypeOK, Times
<1> QED BY <1>1, <1>3, <1>4, PTL DEF Spec

----------------------------------------------------------------------------
(* What is kept of what is seen.                                           *)

\* The entries that are to be reported.
Shown == {fr \in AllFrames : opts.idle \/ fr # <<>>}

\* c has those of s that are in X, in their order.
Kept(s, c, X) ==
  /\ Len(c) = All(s, X)
  /\ \A k \in 1..Len(s) : s[k].frames \in X => c[Hits(s, k, X)] = s[k]

KeptInv == opts.ts => Kept(seen, call_stacks, Shown)

\* Without timestamps, the counters stand for the entries that are not kept.
CountInv ==
  ~opts.ts =>
    /\ ~opts.idle => idle_count = 0
    /\ \A X \in SUBSET AllFrames : (opts.idle \/ <<>> \notin X) =>
         All(seen, X) = All(call_stacks, X) + (IF <<>> \in X THEN idle_count ELSE 0)
                        + (IF <<FailedFrame>> \in X THEN failed_count ELSE 0)

\* If all entries are in the set, all are kept; if the only one is not, none.
LEMMA KeptSimple ==
  /\ \A s \in Seq(EntrySet) : \A X :
       (\A k \in 1..Len(s) : s[k].frames \in X) => Kept(s, s, X)
  /\ \A e, X : e.frames \notin X => Kept(<<e>>, <<>>, X)
<1>1. ASSUME NEW s \in Seq(EntrySet), NEW X, \A k \in 1..Len(s) : s[k].frames \in X
      PROVE  Kept(s, s, X)
  <2>1. \A n \in 0..Len(s) : Hits(s, n, X) = n BY <1>1, HitsWhole
  <2>2. Len(s) \in 0..Len(s) /\ \A k \in 1..Len(s) : k \in 0..Len(s) OBVIOUS
  <2> QED BY <2>1, <2>2 DEF Kept, All
<1>2. ASSUME NEW e, NEW X, e.frames \notin X PROVE Kept(<<e>>, <<>>, X)
  <2>1. All(<<e>>, X) = 0 BY <1>2, HitsOne
  <2>2. Len(<<>>) = 0 /\ \A k \in 1..Len(<<e>>) : <<e>>[k] = e OBVIOUS
  <2> QED BY <1>2, <2>1, <2>2 DEF Kept
<1> QED BY <1>1, <1>2

\* What is kept of joined sequences is joined.
LEMMA KeptConcat ==
  ASSUME NEW s \in Seq(EntrySet), NEW c \in Seq(EntrySet), NEW t \in Seq(EntrySet),
         NEW d \in Seq(EntrySet), NEW X, Kept(s, c, X), Kept(t, d, X)
  PROVE  Kept(s \o t, c \o d, X)
<1> DEFINE u == s \o t
           b == c \o d
           L == Len(s)
<1>1. /\ L \in Nat /\ Len(t) \in Nat /\ Len(u) = L + Len(t)
      /\ \A n \in 1..L : u[n] = s[n]
      /\ \A n \in 1..Len(t) : u[L + n] = t[n]
      /\ \A k \in 1..Len(u) : k \notin 1..L => k - L \in 1..Len(t) /\ L + (k - L) = k
  OBVIOUS
<1>2. /\ Len(c) \in Nat /\ Len(d) \in Nat /\ Len(b) = Len(c) + Len(d)
      /\ \A n \in 1..Len(c) : b[n] = c[n]
      /\ \A n \in 1..Len(d) : b[Len(c) + n] = d[n]
  OBVIOUS
<1>3. /\ All(u, X) = All(s, X) + All(t, X)
      /\ \A n \in 0..L : Hits(u, n, X) = Hits(s, n, X)
      /\ \A n \in 0..Len(t) : Hits(u, L + n, X) = All(s, X) + Hits(t, n, X)
  <2>1. Together(s, t, X) BY HitsConcat
  <2> QED BY <2>1 DEF Together
<1>4. Len(c) = All(s, X) /\ Len(d) = All(t, X) BY DEF Kept
<1>5. ASSUME NEW k \in 1..Len(u), u[k].frames \in X PROVE b[Hits(u, k, X)] = u[k]
  <2>1. CASE k \in 1..L
    <3>1. u[k] = s[k] /\ k \in 0..L BY <1>1, <2>1
    <3>2. Hits(s, k, X) \in 1..All(s, X) BY <1>5, <2>1, <3>1, HitsWithin
    <3>3. c[Hits(s, k, X)] = s[k] BY <1>5, <2>1, <3>1 DEF Kept
    <3>4. Hits(u, k, X) = Hits(s, k, X) BY <1>3, <3>1
    <3> HIDE DEF u, b, L
    <3> QED BY <1>2, <1>4, <3>1, <3>2, <3>3, <3>4
  <2>2. CASE k \notin 1..L
    <3>1. PICK n \in 1..Len(t) : k = L + n
      <4>1. k - L \in 1..Len(t) /\ k = L + (k - L) BY <1>1, <2>2
      <4> QED BY <4>1
    <3>2. u[k] = t[n] /\ n \in 0..Len(t) BY <1>1, <3>1
    <3>3. Hits(t, n, X) \in 1..All(t, X) BY <1>5, <3>2, HitsWithin
    <3>4. d[Hits(t, n, X)] = t[n] BY <1>5, <3>2 DEF Kept
    <3>5. Hits(u, k, X) = All(s, X) + Hits(t, n, X) BY <1>3, <3>1, <3>2
    <3> HIDE DEF u, b, L
    <3> QED BY <1>2, <1>4, <3>2, <3>3, <3>4, <3>5
  <2> QED BY <2>1, <2>2
<1> HIDE DEF u, b
<1>6. Len(b) = All(u, X) BY <1>2, <1>3, <1>4
<1> QED BY <1>5, <1>6 DEF Kept, u, b

\* What a turn saw.
Saw(threads) == IF threads = <<>> THEN <<Entry(<<>>)>> ELSE [k \in DOMAIN threads |-> Entry(threads[k])]
SawFailure == <<Entry(<<FailedFrame>>)>>

\* With timestamps, a turn keeps what is to be reported.
LEMMA TurnIsKept ==
  ASSUME now \in Times
  PROVE  /\ \A threads \in Samples :
              /\ Saw(threads) \in Seq(EntrySet) /\ Sampled(threads) \in Seq(EntrySet)
              /\ opts.ts => Kept(Saw(threads), Sampled(threads), Shown)
         /\ SawFailure \in Seq(EntrySet) /\ Failure \in Seq(EntrySet)
         /\ opts.ts => Kept(SawFailure, Failure, Shown)
<1>1. <<>> \in AllFrames /\ <<FailedFrame>> \in Shown /\ Stacks \subseteq Shown
  BY StacksAreFrames DEF AllFrames, Shown
<1>2. Entry(<<>>) \in EntrySet /\ Entry(<<FailedFrame>>) \in EntrySet
      /\ Entry(<<>>).frames = <<>> /\ Entry(<<FailedFrame>>).frames = <<FailedFrame>>
  BY DEF Entry, EntrySet, AllFrames
<1>3. \A e \in EntrySet : /\ e.frames \in Shown => Kept(<<e>>, <<e>>, Shown)
                          /\ e.frames \notin Shown => Kept(<<e>>, <<>>, Shown)
  <2> SUFFICES ASSUME NEW e \in EntrySet
               PROVE  /\ e.frames \in Shown => Kept(<<e>>, <<e>>, Shown)
                      /\ e.frames \notin Shown => Kept(<<e>>, <<>>, Shown)
    OBVIOUS
  <2>1. <<e>> \in Seq(EntrySet) /\ \A k \in 1..Len(<<e>>) : <<e>>[k] = e OBVIOUS
  <2> QED BY <2>1, KeptSimple
<1>4. SawFailure \in Seq(EntrySet) /\ Failure \in Seq(EntrySet)
      /\ (opts.ts => Kept(SawFailure, Failure, Shown))
  BY <1>1, <1>2, <1>3 DEF SawFailure, Failure
<1>5. ASSUME NEW threads \in Samples
      PROVE  /\ Saw(threads) \in Seq(EntrySet) /\ Sampled(threads) \in Seq(EntrySet)
             /\ opts.ts => Kept(Saw(threads), Sampled(threads), Shown)
  <2>1. CASE threads = <<>>
    <3>1. <<>> \in Shown <=> opts.idle BY <1>1 DEF Shown
    <3>2. Saw(threads) = <<Entry(<<>>)>> BY <2>1 DEF Saw
    <3>3. Sampled(threads) \in Seq(EntrySet) BY SampledAreEntries
    <3>4. opts.ts => Sampled(threads) = IF opts.idle THEN <<Entry(<<>>)>> ELSE <<>> BY <2>1 DEF Sampled
    <3> QED BY <1>2, <1>3, <3>1, <3>2, <3>3, <3>4
  <2>2. CASE threads # <<>>
    <3> DEFINE R == [k \in DOMAIN threads |-> Entry(threads[k])]
    <3>1. Saw(threads) = R /\ Sampled(threads) = R BY <2>2 DEF Saw, Sampled
    <3>2. threads \in Seq(Stacks) /\ R \in Seq(EntrySet) BY SampledAreEntries
    <3>3. \A k \in 1..Len(R) : R[k].frames \in Shown
      <4>1. DOMAIN threads = 1..Len(threads) /\ Len(threads) \in Nat BY <3>2
      <4>2. Len(R) = Len(threads) BY <4>1
      <4>3. \A k \in 1..Len(threads) : R[k].frames = threads[k] /\ threads[k] \in Stacks
        BY <3>2, <4>1 DEF Entry
      <4> QED BY <1>1, <4>2, <4>3
    <3> HIDE DEF R
    <3>4. Kept(R, R, Shown) BY <3>2, <3>3, KeptSimple
    <3> QED BY <3>1, <3>2, <3>4
  <2> QED BY <2>1, <2>2
<1> QED BY <1>4, <1>5

\* What a turn that samples, or fails, adds.
LEMMA TurnAdds ==
  ASSUME TypeInv, Sample \/ SampleFails
  PROVE  \E R, G, P, H \in Seq(EntrySet) :
           /\ seen' = (seen \o R) \o G /\ call_stacks' = (call_stacks \o P) \o H
           /\ \/ R = <<>> /\ P = <<>> /\ idle_count' = idle_count
              \/ \E threads \in Samples :
                   /\ R = Saw(threads) /\ P = Sampled(threads)
                   /\ idle_count' = idle_count + (IF threads = <<>> /\ opts.idle THEN 1 ELSE 0)
           /\ \/ G = <<>> /\ H = <<>> /\ failed_count' = failed_count
              \/ G = SawFailure /\ H = Failure /\ failed_count' = failed_count + 1
<1>1. now \in Times BY ClockBound DEF TypeInv
<1>2. /\ SawFailure \in Seq(EntrySet) /\ Failure \in Seq(EntrySet) /\ <<>> \in Seq(EntrySet)
      /\ \A threads \in Samples : Saw(threads) \in Seq(EntrySet) /\ Sampled(threads) \in Seq(EntrySet)
  BY <1>1, TurnIsKept
<1>3. /\ call_stacks \in Seq(EntrySet) /\ seen \in Seq(EntrySet) /\ failed_count \in Nat
      /\ idle_count \in Nat
  BY DEF TypeInv
<1>4. CASE Sample
  <2>1. PICK threads \in Samples, end \in {"next", "deadline", "terminated", "ptrace"} :
          /\ idle_count' = idle_count + (IF threads = <<>> /\ opts.idle THEN 1 ELSE 0)
          /\ failed_count' = failed_count + (IF end = "ptrace" THEN 1 ELSE 0)
          /\ call_stacks' = call_stacks \o Sampled(threads) \o (IF end = "ptrace" THEN Failure ELSE <<>>)
          /\ seen' = seen \o Saw(threads) \o (IF end = "ptrace" THEN SawFailure ELSE <<>>)
    BY <1>4, Zenon DEF Sample, Saw, SawFailure
  <2> DEFINE R == Saw(threads)
             P == Sampled(threads)
             G == IF end = "ptrace" THEN SawFailure ELSE <<>>
             H == IF end = "ptrace" THEN Failure ELSE <<>>
  <2>2. R \in Seq(EntrySet) /\ G \in Seq(EntrySet) /\ P \in Seq(EntrySet) /\ H \in Seq(EntrySet)
    BY <1>2
  <2>3. \/ G = <<>> /\ H = <<>> /\ failed_count' = failed_count
        \/ G = SawFailure /\ H = Failure /\ failed_count' = failed_count + 1
    BY <1>3, <2>1
  <2>4. seen' = (seen \o R) \o G /\ call_stacks' = (call_stacks \o P) \o H BY <2>1
  <2>5. \E th \in Samples :
          /\ R = Saw(th) /\ P = Sampled(th)
          /\ idle_count' = idle_count + (IF th = <<>> /\ opts.idle THEN 1 ELSE 0)
    BY <2>1
  <2> HIDE DEF R, P, G, H
  <2> QED BY <2>2, <2>3, <2>4, <2>5
<1>5. CASE SampleFails
  <2>1. /\ failed_count' = failed_count + 1 /\ idle_count' = idle_count
        /\ call_stacks' = call_stacks \o Failure /\ seen' = Append(seen, Entry(<<FailedFrame>>))
    BY <1>5 DEF SampleFails
  <2>2. Entry(<<FailedFrame>>) \in EntrySet BY <1>1 DEF Entry, EntrySet, AllFrames
  <2>3. seen' = (seen \o <<>>) \o SawFailure BY <1>3, <2>1, <2>2 DEF SawFailure
  <2>4. call_stacks' = (call_stacks \o <<>>) \o Failure BY <1>2, <1>3, <2>1
  <2> QED BY <1>2, <2>1, <2>3, <2>4
<1> QED BY <1>4, <1>5

\* With timestamps, what is kept remains what is to be reported.
LEMMA TurnKeeps ==
  ASSUME TypeInv, KeptInv, Sample \/ SampleFails
  PROVE  KeptInv'
<1>1. opts' = opts BY DEF Sample, SampleFails, optionsVars
<1>2. Shown' = Shown BY <1>1 DEF Shown
<1> SUFFICES ASSUME opts.ts PROVE Kept(seen', call_stacks', Shown) BY <1>1, <1>2 DEF KeptInv, Kept, All, Hits
<1>3. now \in Times BY ClockBound DEF TypeInv
<1>4. PICK R, G, P, H \in Seq(EntrySet) :
        /\ seen' = (seen \o R) \o G /\ call_stacks' = (call_stacks \o P) \o H
        /\ \/ R = <<>> /\ P = <<>>
           \/ \E threads \in Samples : R = Saw(threads) /\ P = Sampled(threads)
        /\ (G = <<>> /\ H = <<>>) \/ (G = SawFailure /\ H = Failure)
  BY TurnAdds
<1>5. Kept(<<>>, <<>>, Shown)
  <2>1. <<>> \in Seq(EntrySet) /\ Len(<<>>) = 0 /\ 1..0 = {} OBVIOUS
  <2> QED BY <2>1, KeptSimple
<1>6. Kept(R, P, Shown) /\ Kept(G, H, Shown) BY <1>3, <1>4, <1>5, TurnIsKept
<1>7. Kept(seen, call_stacks, Shown) /\ seen \in Seq(EntrySet) /\ call_stacks \in Seq(EntrySet)
  BY DEF KeptInv, TypeInv
<1> DEFINE s == seen \o R
           c == call_stacks \o P
<1>8. Kept(s, c, Shown) BY <1>6, <1>7, KeptConcat
<1>9. s \in Seq(EntrySet) /\ c \in Seq(EntrySet) BY <1>7
<1>10. seen' = s \o G /\ call_stacks' = c \o H BY <1>4
<1> HIDE DEF s, c
<1> QED BY <1>6, <1>8, <1>9, <1>10, KeptConcat

\* A balance is kept if what is added to both sides balances.
LEMMA BalanceKept ==
  ASSUME NEW c \in Int, NEW p \in Int, NEW h \in Int,
         NEW i \in Int, NEW j \in Int, NEW f \in Int, NEW g \in Int
  PROVE  (((c + i) + f) + (p + (j - i))) + (h + (g - f)) = (((c + p) + h) + j) + g
OBVIOUS

\* Without, the counters go on standing for the rest.
LEMMA TurnCounts ==
  ASSUME TypeInv, CountInv, Sample \/ SampleFails
  PROVE  CountInv'
<1>1. opts' = opts BY DEF Sample, SampleFails, optionsVars
<1>2. AllFrames' = AllFrames BY DEF AllFrames, FailedFrame
<1> SUFFICES ASSUME ~opts.ts
             PROVE  /\ ~opts.idle => idle_count' = 0
                    /\ \A X \in SUBSET AllFrames : (opts.idle \/ <<>> \notin X) =>
                         All(seen', X) = All(call_stacks', X) + (IF <<>> \in X THEN idle_count' ELSE 0)
                                         + (IF <<FailedFrame>> \in X THEN failed_count' ELSE 0)
  BY <1>1, <1>2 DEF CountInv, All, Hits, FailedFrame
<1>3. now \in Times BY ClockBound DEF TypeInv
<1>4. PICK R, G, P, H \in Seq(EntrySet) :
        /\ seen' = (seen \o R) \o G /\ call_stacks' = (call_stacks \o P) \o H
        /\ \/ R = <<>> /\ P = <<>> /\ idle_count' = idle_count
           \/ \E threads \in Samples :
                /\ R = Saw(threads) /\ P = Sampled(threads)
                /\ idle_count' = idle_count + (IF threads = <<>> /\ opts.idle THEN 1 ELSE 0)
        /\ \/ G = <<>> /\ H = <<>> /\ failed_count' = failed_count
           \/ G = SawFailure /\ H = Failure /\ failed_count' = failed_count + 1
  BY TurnAdds
<1>5. /\ seen \in Seq(EntrySet) /\ call_stacks \in Seq(EntrySet)
      /\ idle_count \in Nat /\ failed_count \in Nat
  BY DEF TypeInv
<1>6. ~opts.idle => idle_count' = idle_count
  BY <1>4, <1>5
<1>7. ASSUME NEW X \in SUBSET AllFrames, opts.idle \/ <<>> \notin X
      PROVE  All(seen', X) = All(call_stacks', X) + (IF <<>> \in X THEN idle_count' ELSE 0)
                             + (IF <<FailedFrame>> \in X THEN failed_count' ELSE 0)
  <2>1. /\ All(seen', X) = (All(seen, X) + All(R, X)) + All(G, X)
        /\ All(call_stacks', X) = (All(call_stacks, X) + All(P, X)) + All(H, X)
        /\ All(call_stacks, X) \in Nat /\ All(P, X) \in Nat /\ All(H, X) \in Nat
        /\ All(R, X) \in Nat /\ All(G, X) \in Nat /\ All(seen, X) \in Nat
    <3>1. Together(seen, R, X) /\ Together(call_stacks, P, X) BY <1>5, HitsConcat
    <3>2. seen \o R \in Seq(EntrySet) /\ call_stacks \o P \in Seq(EntrySet) BY <1>5
    <3>3. Together(seen \o R, G, X) /\ Together(call_stacks \o P, H, X) BY <3>2, HitsConcat
    <3>4. Together(P, P, X) /\ Together(H, H, X) /\ Together(R, R, X) /\ Together(G, G, X) BY HitsConcat
    <3> QED BY <1>4, <3>1, <3>3, <3>4 DEF Together
  <2>2. All(R, X) = All(P, X) + (IF <<>> \in X THEN idle_count' - idle_count ELSE 0)
    <3>1. CASE R = <<>> /\ P = <<>> /\ idle_count' = idle_count BY <1>5, <2>1, <3>1
    <3>2. ASSUME NEW threads \in Samples, R = Saw(threads), P = Sampled(threads),
                 idle_count' = idle_count + (IF threads = <<>> /\ opts.idle THEN 1 ELSE 0)
          PROVE  All(R, X) = All(P, X) + (IF <<>> \in X THEN idle_count' - idle_count ELSE 0)
      <4>1. CASE threads = <<>>
        <5>1. R = <<Entry(<<>>)>> /\ P = <<>> /\ Entry(<<>>).frames = <<>>
          BY <3>2, <4>1 DEF Saw, Sampled, Entry
        <5>2. All(R, X) = (IF <<>> \in X THEN 1 ELSE 0) /\ All(P, X) = 0 BY <5>1, HitsOne
        <5> QED BY <1>5, <1>7, <3>2, <4>1, <5>2
      <4>2. CASE threads # <<>>
        <5>1. R = P /\ idle_count' = idle_count BY <1>5, <3>2, <4>2 DEF Saw, Sampled
        <5> QED BY <1>5, <2>1, <5>1
      <4> QED BY <4>1, <4>2
    <3> QED BY <1>4, <3>1, <3>2
  <2>3. All(G, X) = All(H, X) + (IF <<FailedFrame>> \in X THEN failed_count' - failed_count ELSE 0)
    <3>1. CASE G = <<>> /\ H = <<>> /\ failed_count' = failed_count BY <1>5, <2>1, <3>1
    <3>2. CASE G = SawFailure /\ H = Failure /\ failed_count' = failed_count + 1
      <4>1. G = <<Entry(<<FailedFrame>>)>> /\ H = <<>> /\ Entry(<<FailedFrame>>).frames = <<FailedFrame>>
        BY <3>2 DEF SawFailure, Failure, Entry
      <4>2. All(G, X) = (IF <<FailedFrame>> \in X THEN 1 ELSE 0) /\ All(H, X) = 0 BY <4>1, HitsOne
      <4> QED BY <1>5, <3>2, <4>2
    <3> QED BY <1>4, <3>1, <3>2
  <2>4. All(seen, X) = All(call_stacks, X) + (IF <<>> \in X THEN idle_count ELSE 0)
                       + (IF <<FailedFrame>> \in X THEN failed_count ELSE 0)
    BY <1>7 DEF CountInv
  <2>5. idle_count' \in Int /\ failed_count' \in Int BY <1>4, <1>5
  <2> DEFINE i == IF <<>> \in X THEN idle_count ELSE 0
             j == IF <<>> \in X THEN idle_count' ELSE 0
             f == IF <<FailedFrame>> \in X THEN failed_count ELSE 0
             g == IF <<FailedFrame>> \in X THEN failed_count' ELSE 0
  <2>6. /\ i \in Int /\ j \in Int /\ f \in Int /\ g \in Int
        /\ All(R, X) = All(P, X) + (j - i) /\ All(G, X) = All(H, X) + (g - f)
    BY <1>5, <2>1, <2>2, <2>3, <2>5
  <2> HIDE DEF i, j, f, g
  <2>a. All(seen, X) = (All(call_stacks, X) + i) + f BY <2>4 DEF i, f
  <2>b. /\ All(seen', X) = (((All(call_stacks, X) + i) + f) + (All(P, X) + (j - i))) + (All(H, X) + (g - f))
        /\ All(call_stacks', X) = (All(call_stacks, X) + All(P, X)) + All(H, X)
    BY <2>1, <2>6, <2>a
  <2>7. All(seen', X) = (All(call_stacks', X) + j) + g
    <3> DEFINE c == All(call_stacks, X)
               q == All(P, X)
               h == All(H, X)
    <3>1. c \in Int /\ q \in Int /\ h \in Int BY <2>1
    <3> HIDE DEF c, q, h
    <3>2. (((c + i) + f) + (q + (j - i))) + (h + (g - f)) = (((c + q) + h) + j) + g
      BY <2>6, <3>1, BalanceKept
    <3> QED BY <2>b, <3>2 DEF c, q, h
  <2> QED BY <2>7 DEF j, g
<1> QED BY <1>6, <1>7 DEF CountInv

----------------------------------------------------------------------------
(* What the numbers of a report say of the texts of a set.                 *)

Marked(s, T) == [k \in DOMAIN s |-> IF s[k].text \in T THEN s[k].number ELSE 0]
Said(s, T) == Totals(Marked(s, T))[Len(s)]

\* The numbers of joined reports add up.
LEMMA SaidConcat ==
  ASSUME NEW s \in Seq(LineSet), NEW t \in Seq(LineSet), NEW T
  PROVE  Said(s \o t, T) = Said(s, T) + Said(t, T) /\ Said(s, T) \in Int
<1> DEFINE u == s \o t
           A == Marked(s, T)
           B == Marked(t, T)
           C == Marked(u, T)
<1>1. ASSUME NEW r \in Seq(LineSet)
      PROVE  /\ Marked(r, T) \in Seq(Int) /\ Len(Marked(r, T)) = Len(r)
             /\ \A k \in 1..Len(r) : Marked(r, T)[k] = IF r[k].text \in T THEN r[k].number ELSE 0
  <2>1. \A k \in 1..Len(r) : r[k] \in LineSet OBVIOUS
  <2>2. \A k \in 1..Len(r) : r[k].number \in Int BY <2>1 DEF LineSet
  <2>3. DOMAIN r = 1..Len(r) /\ Len(r) \in Nat OBVIOUS
  <2> QED BY <2>2, <2>3 DEF Marked
<1>2. u \in Seq(LineSet) /\ Len(u) = Len(s) + Len(t) /\ Len(s) \in Nat /\ Len(t) \in Nat OBVIOUS
<1>3. /\ \A n \in 1..Len(s) : u[n] = s[n]
      /\ \A n \in 1..Len(t) : u[Len(s) + n] = t[n]
  OBVIOUS
<1>4. A \in Seq(Int) /\ B \in Seq(Int) /\ C \in Seq(Int) /\ Len(A) = Len(s) /\ Len(B) = Len(t)
      /\ Len(C) = Len(u)
  BY <1>1, <1>2
<1>5. /\ \A n \in 1..Len(s) : C[n] = A[n]
      /\ \A n \in 1..Len(t) : C[Len(s) + n] = B[n]
  <2>1. \A n \in 1..Len(u) : C[n] = IF u[n].text \in T THEN u[n].number ELSE 0 BY <1>1, <1>2
  <2>2. \A n \in 1..Len(s) : A[n] = IF s[n].text \in T THEN s[n].number ELSE 0 BY <1>1
  <2>3. \A n \in 1..Len(t) : B[n] = IF t[n].text \in T THEN t[n].number ELSE 0 BY <1>1
  <2>4. (\A n \in 1..Len(s) : n \in 1..Len(u)) /\ \A n \in 1..Len(t) : Len(s) + n \in 1..Len(u)
    BY <1>2
  <2> HIDE DEF u, A, B, C
  <2> QED BY <1>3, <2>1, <2>2, <2>3, <2>4
<1> HIDE DEF u, A, B, C
<1>6. C = A \o B
  <2> DEFINE D == A \o B
  <2>1. /\ D \in Seq(Int) /\ Len(D) = Len(A) + Len(B)
        /\ \A n \in 1..Len(A) : D[n] = A[n]
        /\ \A n \in 1..Len(B) : D[Len(A) + n] = B[n]
    <3>1. A \in Seq(Int) /\ B \in Seq(Int) BY <1>4
    <3>2. D \in Seq(Int) /\ Len(D) = Len(A) + Len(B) BY <3>1
    <3>3. \A n \in 1..Len(A) : D[n] = A[n] BY <3>1
    <3>4. \A n \in 1..Len(B) : D[Len(A) + n] = B[n] BY <3>1
    <3> QED BY <3>2, <3>3, <3>4
  <2> HIDE DEF D
  <2>2. Len(C) = Len(D) BY <1>2, <1>4, <2>1
  <2>3. ASSUME NEW k \in 1..Len(C) PROVE C[k] = D[k]
    <3>1. CASE k <= Len(s) BY <1>2, <1>4, <1>5, <2>1, <3>1
    <3>2. CASE k > Len(s)
      <4>1. k - Len(s) \in 1..Len(t) /\ Len(s) + (k - Len(s)) = k BY <1>2, <1>4, <3>2
      <4>2. C[k] = B[k - Len(s)] BY <1>5, <4>1
      <4>3. D[k] = B[k - Len(s)] BY <1>4, <2>1, <4>1
      <4> QED BY <4>2, <4>3
    <3>3. k \in Nat /\ Len(s) \in Nat BY <1>2, <1>4
    <3> QED BY <3>1, <3>2, <3>3
  <2>4. C = D BY <1>4, <2>1, <2>2, <2>3
  <2> QED BY <2>4 DEF D
<1>7. Totals(A \o B)[Len(A) + Len(B)] = Totals(A)[Len(A)] + Totals(B)[Len(B)] BY <1>4, TotalsConcat
<1>8. Totals(A)[Len(A)] \in Int
  <2>1. Len(A) \in 0..Len(A) BY <1>2, <1>4
  <2> QED BY <1>4, <2>1, TotalsStep
<1> QED BY <1>2, <1>4, <1>6, <1>7, <1>8 DEF Said, u, A, B, C

\* A counter says its count of its word.
LEMMA SaidCounter ==
  ASSUME NEW w, NEW n \in Nat, NEW T
  PROVE  Said(Counted(w, n), T) = IF <<Word(w)>> \in T THEN n ELSE 0
<1>1. CASE n = 0
  <2>1. Counted(w, n) = <<>> BY <1>1 DEF Counted
  <2>2. Marked(<<>>, T) \in Seq(Int) /\ Len(<<>>) = 0 BY DEF Marked
  <2>3. Said(<<>>, T) = 0 BY <2>2, TotalsStep DEF Said
  <2> QED BY <1>1, <2>1, <2>3
<1>2. CASE n # 0
  <2> DEFINE x == IF <<Word(w)>> \in T THEN n ELSE 0
             s == <<CountLine(<<Word(w)>>, n)>>
  <2>1. Counted(w, n) = s BY <1>2 DEF Counted
  <2>2. Len(s) = 1 /\ DOMAIN s = {1} /\ s[1].text = <<Word(w)>> /\ s[1].number = n BY DEF CountLine
  <2>3. Marked(s, T)[1] = x /\ DOMAIN Marked(s, T) = 1..1 BY <2>2 DEF Marked
  <2>4. x \in Int OBVIOUS
  <2> HIDE DEF s, x
  <2>5. Marked(s, T) \in Seq(Int) /\ Len(Marked(s, T)) = 1
    <3>1. Marked(s, T) = [k \in 1..1 |-> Marked(s, T)[k]] BY <2>3 DEF Marked
    <3> QED BY <2>3, <2>4, <3>1
  <2>6. 1 \in 1..Len(Marked(s, T)) /\ 1 - 1 = 0 BY <2>5
  <2>7. Totals(Marked(s, T))[1] = Totals(Marked(s, T))[1 - 1] + Marked(s, T)[1]
        /\ Totals(Marked(s, T))[0] = 0
    BY <2>5, <2>6, TotalsStep
  <2>8. Said(s, T) = x BY <2>2, <2>3, <2>4, <2>6, <2>7 DEF Said
  <2> QED BY <2>1, <2>8 DEF x
<1> QED BY <1>1, <1>2

BucketLines == [k \in DOMAIN Bucketed |-> CountLine(Outermost(Bucketed[k].frames), Bucketed[k].count)]

\* The lines of the buckets say what is in these.
LEMMA SaidBuckets ==
  ASSUME Bucketed \in Seq(BucketSet), NEW T
  PROVE  Said(BucketLines, T) = InBuckets(Bucketed, {s \in Stacks : Outermost(s) \in T})
<1> DEFINE B == Bucketed
           X == {s \in Stacks : Outermost(s) \in T}
<1>1. DOMAIN BucketLines = DOMAIN B /\ Len(BucketLines) = Len(B)
  <2>1. DOMAIN B = 1..Len(B) /\ Len(B) \in Nat OBVIOUS
  <2> QED BY <2>1 DEF BucketLines
<1>2. \A k \in DOMAIN B : BucketLines[k].text = Outermost(B[k].frames) /\ BucketLines[k].number = B[k].count
  BY DEF BucketLines, CountLine
<1>3. \A k \in DOMAIN B : B[k].frames \in Stacks
  <2>1. \A k \in DOMAIN B : B[k] \in BucketSet OBVIOUS
  <2> QED BY <2>1 DEF BucketSet
<1>4. Marked(BucketLines, T) = Weights(B, X)
  <2>1. Marked(BucketLines, T) = [k \in DOMAIN B |-> IF BucketLines[k].text \in T THEN BucketLines[k].number ELSE 0]
    BY <1>1 DEF Marked
  <2>2. \A k \in DOMAIN B : (BucketLines[k].text \in T <=> B[k].frames \in X) BY <1>2, <1>3
  <2> HIDE DEF B, X
  <2> QED BY <1>2, <2>1, <2>2 DEF Weights
<1> QED BY <1>1, <1>4 DEF Said, InBuckets

----------------------------------------------------------------------------
(* The report is right.                                                    *)

SeenIn(T) == {j \in Reportable : Text(seen[j].frames) \in T}

\* What is to be reported are the shown entries.
LEMMA SeenInIs ==
  ASSUME seen \in Seq(EntrySet), NEW T
  PROVE  Cardinality(SeenIn(T)) = All(seen, {s \in Shown : Text(s) \in T})
<1>1. \A j \in 1..Len(seen) : seen[j].frames \in AllFrames
  <2>1. \A j \in 1..Len(seen) : seen[j] \in EntrySet OBVIOUS
  <2> QED BY <2>1 DEF EntrySet
<1>2. DOMAIN seen = 1..Len(seen) OBVIOUS
<1>3. SeenIn(T) = {j \in 1..Len(seen) : seen[j].frames \in {s \in Shown : Text(s) \in T}}
  BY <1>1, <1>2 DEF SeenIn, Reportable, Shown
<1> QED BY <1>3 DEF All, Hits

\* The lines without timestamps say how often texts were seen, of a set of
\* texts that equal stacks are in together.
LEMMA PrintedIsSeen ==
  ASSUME TypeInv, CountInv, ~opts.ts, NEW T, Closed({s \in Stacks : Outermost(s) \in T})
  PROVE  Said(PrintFrames, T) = Cardinality(SeenIn(T))
<1> DEFINE X == {s \in Stacks : Outermost(s) \in T}
           Y == {s \in Shown : Text(s) \in T}
           I == Counted("(idle)", idle_count)
           F == Counted("(failed)", failed_count)
<1>1. /\ call_stacks \in Seq(EntrySet) /\ seen \in Seq(EntrySet)
      /\ idle_count \in Nat /\ failed_count \in Nat
      /\ \A k \in DOMAIN call_stacks : call_stacks[k].frames \in Stacks
  BY DEF TypeInv
<1>2. Bucketed \in Seq(BucketSet) /\ InBuckets(Bucketed, X) = All(call_stacks, X)
  BY <1>1, FilledCounts DEF All
<1>3. BucketLines \in Seq(LineSet) /\ I \in Seq(LineSet) /\ F \in Seq(LineSet)
  <2>1. \A k \in 1..Len(Bucketed) : Bucketed[k].frames \in Stacks /\ Bucketed[k].count \in Nat
    <3>1. \A k \in 1..Len(Bucketed) : Bucketed[k] \in BucketSet BY <1>2
    <3> QED BY <3>1 DEF BucketSet
  <2>2. DOMAIN Bucketed = 1..Len(Bucketed) /\ Len(Bucketed) \in Nat BY <1>2
  <2>3. \A k \in 1..Len(Bucketed) : BucketLines[k] \in LineSet BY <2>1, <2>2, LinesAre DEF BucketLines
  <2>4. BucketLines = [k \in 1..Len(Bucketed) |-> BucketLines[k]] BY <2>2 DEF BucketLines
  <2>5. BucketLines \in Seq(LineSet) BY <2>2, <2>3, <2>4
  <2> QED BY <1>1, <2>5, LinesAre DEF Words
<1>4. Said(PrintFrames, T) = (Said(I, T) + Said(F, T)) + InBuckets(Bucketed, X)
  <2>1. PrintFrames = (I \o F) \o BucketLines BY DEF PrintFrames, BucketLines
  <2>2. Said(BucketLines, T) = InBuckets(Bucketed, X) BY <1>2, SaidBuckets
  <2> HIDE DEF I, F, X
  <2>3. I \o F \in Seq(LineSet) BY <1>3
  <2>4. Said((I \o F) \o BucketLines, T) = Said(I \o F, T) + Said(BucketLines, T) BY <1>3, <2>3, SaidConcat
  <2>5. Said(I \o F, T) = Said(I, T) + Said(F, T) BY <1>3, SaidConcat
  <2> QED BY <2>1, <2>2, <2>4, <2>5
<1>5. /\ Said(I, T) = IF <<Word("(idle)")>> \in T THEN idle_count ELSE 0
      /\ Said(F, T) = IF <<Word("(failed)")>> \in T THEN failed_count ELSE 0
  BY <1>1, SaidCounter
<1>6. All(call_stacks, Y) = All(call_stacks, X)
  <2>1. \A s \in Stacks : s \in X <=> s \in Y BY StacksAreFrames DEF Shown, Text, AllFrames
  <2>2. \A k \in 1..Len(call_stacks) : call_stacks[k].frames \in X <=> call_stacks[k].frames \in Y
    BY <1>1, <2>1
  <2> HIDE DEF X, Y
  <2>3. {k \in 1..Len(call_stacks) : call_stacks[k].frames \in X}
          = {k \in 1..Len(call_stacks) : call_stacks[k].frames \in Y}
    BY <2>2
  <2> QED BY <2>3 DEF All, Hits
<1>7. /\ <<>> \in Y <=> opts.idle /\ <<Word("(idle)")>> \in T
      /\ <<FailedFrame>> \in Y <=> <<Word("(failed)")>> \in T
      /\ Y \in SUBSET AllFrames
  BY DEF Shown, Text, AllFrames
<1>8. /\ All(seen, Y) = All(call_stacks, Y) + (IF <<>> \in Y THEN idle_count ELSE 0)
                         + (IF <<FailedFrame>> \in Y THEN failed_count ELSE 0)
      /\ ~opts.idle => idle_count = 0
  <2>1. opts.idle \/ <<>> \notin Y BY <1>7
  <2> HIDE DEF Y
  <2> QED BY <1>7, <2>1 DEF CountInv
<1>9. All(call_stacks, X) \in Nat
  <2>1. Len(call_stacks) \in Nat BY <1>1
  <2> QED BY <2>1, HitsStep DEF All
<1>10. Cardinality(SeenIn(T)) = All(seen, Y) BY <1>1, SeenInIs
<1> HIDE DEF X, Y, I, F
<1>11. Said(I, T) = (IF <<>> \in Y THEN idle_count ELSE 0)
       /\ Said(F, T) = (IF <<FailedFrame>> \in Y THEN failed_count ELSE 0)
  BY <1>5, <1>7, <1>8
<1>12. Said(I, T) \in Nat /\ Said(F, T) \in Nat BY <1>1, <1>5
<1> QED BY <1>2, <1>4, <1>6, <1>8, <1>9, <1>10, <1>11, <1>12

\* What FCJson makes cells of, in a line with a timestamp, is the text.
LEMMA CellsOfLine ==
  ASSUME NEW e \in EntrySet
  PROVE  Cells(TsLine(e).text) = Text(e.frames)
<1>1. e.frames \in AllFrames BY DEF EntrySet
<1>2. \A w \in {"(idle)", "(failed)"} : Cells(<<Word(w)>>) = <<Word(w)>>
  <2> SUFFICES ASSUME NEW w \in {"(idle)", "(failed)"} PROVE Cells(<<Word(w)>>) = <<Word(w)>> OBVIOUS
  <2>1. Last(<<Word(w)>>) = Word(w) BY DEF Last
  <2>2. Word(w).word = w /\ Word("").word = "" BY DEF Word
  <2>3. Word(w) # Word("") BY <2>2
  <2> QED BY <2>1, <2>3 DEF Cells
<1>3. CASE e.frames = <<>>
  <2>1. TsLine(e).text = <<Word("(idle)")>> /\ Text(e.frames) = <<Word("(idle)")>>
    BY <1>3 DEF TsLine, Text
  <2> QED BY <1>2, <2>1
<1>4. CASE e.frames = <<FailedFrame>>
  <2>1. Len(e.frames) = 1 /\ e.frames[1].file = "(failed)" /\ e.frames # <<>> BY <1>4 DEF FailedFrame
  <2>2. TsLine(e).text = <<Word("(failed)")>> BY <2>1 DEF TsLine
  <2>3. Text(e.frames) = <<Word("(failed)")>> BY <1>4, <2>1 DEF Text
  <2> QED BY <1>2, <2>2, <2>3
<1>5. CASE e.frames \in Stacks
  <2> DEFINE o == Outermost(e.frames)
             w == Word("")
  <2>1. /\ e.frames # <<>> /\ e.frames # <<FailedFrame>>
        /\ ~(Len(e.frames) = 1 /\ e.frames[1].file = "(failed)")
    BY <1>5, StacksAreFrames
  <2>2. TsLine(e).text = Append(o, w) /\ Text(e.frames) = o BY <2>1 DEF TsLine, Text
  <2>3. o \in Seq(FrameSet) BY <1>1, StacksAreFrames, OutermostIs
  <2> HIDE DEF o, w
  <2>4. o \in Seq(FrameSet \cup {w}) /\ w \in FrameSet \cup {w} BY <2>3
  <2>5. Last(Append(o, w)) = w /\ Front(Append(o, w)) = o
    <3> DEFINE a == Append(o, w)
    <3>1. a \in Seq(FrameSet \cup {w}) /\ Len(a) = Len(o) + 1 /\ a[Len(o) + 1] = w
          /\ \A k \in 1..Len(o) : a[k] = o[k]
      BY <2>4
    <3>2. Len(o) \in Nat /\ (Len(o) + 1) - 1 = Len(o) BY <2>4
    <3>3. SubSeq(a, 1, Len(o)) = o BY <2>4, <3>1, <3>2
    <3> HIDE DEF a
    <3>4. Last(a) = w BY <3>1 DEF Last
    <3>5. Front(a) = o BY <3>1, <3>2, <3>3 DEF Front
    <3> QED BY <3>4, <3>5 DEF a
  <2> QED BY <2>2, <2>5 DEF Cells, w
<1> QED BY <1>1, <1>3, <1>4, <1>5 DEF AllFrames

\* The rank of an entry is its count among those that are to be reported.
LEMMA RankIs ==
  ASSUME seen \in Seq(EntrySet)
  PROVE  /\ Cardinality(Reportable) = All(seen, Shown)
         /\ \A k \in Reportable : /\ k \in 1..Len(seen) /\ Rank(k) = Hits(seen, k, Shown)
                                  /\ seen[k].frames \in Shown
<1>1. \A j \in 1..Len(seen) : seen[j].frames \in AllFrames
  <2>1. \A j \in 1..Len(seen) : seen[j] \in EntrySet OBVIOUS
  <2> QED BY <2>1 DEF EntrySet
<1>2. DOMAIN seen = 1..Len(seen) /\ Len(seen) \in Nat OBVIOUS
<1>3. Reportable = {j \in 1..Len(seen) : seen[j].frames \in Shown} BY <1>1, <1>2 DEF Reportable, Shown
<1>4. \A k \in 1..Len(seen) :
        {j \in Reportable : j <= k} = {j \in 1..k : seen[j].frames \in Shown}
  BY <1>2, <1>3
<1> QED BY <1>2, <1>3, <1>4 DEF Rank, All, Hits

LinesRight(o) ==
  /\ Len(o) = Cardinality(Reportable)
  /\ \A k \in Reportable :
       /\ o[Rank(k)].number = seen[k].ts
       /\ Cells(o[Rank(k)].text) = Text(seen[k].frames)
NumbersRight(o) ==
  /\ Said(o, Texts) = Cardinality(Reportable)
  /\ \A k \in DOMAIN o :
       OneFunctionALine(o[k].text) =>
         Said(o, {o[k].text}) = Cardinality(SeenIn({o[k].text}))

\* With timestamps, the lines are what was seen.
LEMMA LinesAreSeen ==
  ASSUME TypeInv, KeptInv, opts.ts
  PROVE  LinesRight(PrintFramesTS)
<1>1. Kept(seen, call_stacks, Shown) /\ seen \in Seq(EntrySet) /\ call_stacks \in Seq(EntrySet)
  BY DEF KeptInv, TypeInv
<1>2. Len(PrintFramesTS) = Cardinality(Reportable) BY <1>1, RankIs, ReportIsLines DEF Kept
<1>3. ASSUME NEW k \in Reportable
      PROVE  /\ PrintFramesTS[Rank(k)].number = seen[k].ts
             /\ Cells(PrintFramesTS[Rank(k)].text) = Text(seen[k].frames)
  <2>1. k \in 1..Len(seen) /\ Rank(k) = Hits(seen, k, Shown) /\ seen[k].frames \in Shown
    BY <1>1, RankIs
  <2>2. Rank(k) \in 1..Len(call_stacks) BY <1>1, <2>1, HitsWithin DEF Kept
  <2>3. call_stacks[Rank(k)] = seen[k] BY <1>1, <2>1 DEF Kept
  <2>4. PrintFramesTS[Rank(k)] = TsLine(seen[k]) BY <1>1, <2>2, <2>3 DEF PrintFramesTS
  <2>5. seen[k] \in EntrySet BY <1>1, <2>1
  <2>6. TsLine(seen[k]).number = seen[k].ts BY DEF TsLine
  <2> QED BY <2>4, <2>5, <2>6, CellsOfLine
<1> QED BY <1>2, <1>3 DEF LinesRight

\* Without, the numbers of each text are right.
LEMMA NumbersAreSeen ==
  ASSUME TypeInv, CountInv, ~opts.ts
  PROVE  NumbersRight(PrintFrames)
<1>1. \A s \in AllFrames : Text(s) \in Texts /\ Outermost(s) \in Texts
  <2>1. \A s \in AllFrames : Outermost(s) \in Texts
    <3> SUFFICES ASSUME NEW s \in AllFrames PROVE Outermost(s) \in Texts OBVIOUS
    <3>1. Outermost(s) \in Seq(FrameSet) BY StacksAreFrames, OutermostIs
    <3> QED BY <3>1 DEF Texts
  <2>2. <<Word("(idle)")>> \in Texts /\ <<Word("(failed)")>> \in Texts BY DEF Word, Words, Texts
  <2> QED BY <2>1, <2>2 DEF Text
<1>2. Said(PrintFrames, Texts) = Cardinality(Reportable)
  <2>1. Closed({s \in Stacks : Outermost(s) \in Texts}) BY <1>1 DEF Closed, AllFrames
  <2>2. SeenIn(Texts) = Reportable
    <3>1. seen \in Seq(EntrySet) BY DEF TypeInv
    <3>2. \A j \in DOMAIN seen : seen[j] \in EntrySet BY <3>1
    <3>3. \A j \in DOMAIN seen : seen[j].frames \in AllFrames BY <3>2 DEF EntrySet
    <3> QED BY <1>1, <3>3 DEF SeenIn, Reportable
  <2> QED BY <2>1, <2>2, PrintedIsSeen
<1>3. ASSUME NEW text, OneFunctionALine(text)
      PROVE  Said(PrintFrames, {text}) = Cardinality(SeenIn({text}))
  <2>1. ASSUME NEW s \in Stacks, NEW t \in Stacks, SameFrames(s, t), Outermost(s) = text \/ Outermost(t) = text
        PROVE  s = t
    <3>1. s \in Seq(FrameSet) /\ t \in Seq(FrameSet) BY StacksAreFrames DEF AllFrames
    <3>2. Len(s) = Len(t) /\ DOMAIN s = DOMAIN t BY <2>1, <3>1 DEF SameFrames
    <3>3. \A k \in DOMAIN s : s[k].file = t[k].file /\ s[k].line = t[k].line
      BY <2>1 DEF SameFrames, SameFrame
    <3>4. Places(s) = Places(t) BY <3>2, <3>3 DEF Places
    <3>5. Text(s) = Outermost(s) /\ Text(t) = Outermost(t) BY StacksAreFrames DEF Text
    <3> QED BY <1>3, <2>1, <3>4, <3>5 DEF OneFunctionALine
  <2>2. Closed({s \in Stacks : Outermost(s) \in {text}}) BY <2>1 DEF Closed
  <2> QED BY <2>2, PrintedIsSeen
<1> QED BY <1>2, <1>3 DEF NumbersRight

ReportInv ==
  pc \in {"convert", "done"} => IF opts.ts THEN LinesRight(out) ELSE NumbersRight(out)
ReportIInv == OptionsInv /\ TypeInv /\ CountInv /\ KeptInv /\ ReportInv

\* What is written at the end of the profile is right.
LEMMA FinishIsRight ==
  ASSUME ReportIInv, Finish
  PROVE  IF opts.ts THEN LinesRight(out') ELSE NumbersRight(out')
<1>1. out' = IF opts.ts THEN PrintFramesTS ELSE PrintFrames
  <2>1. CASE call_stacks = <<>> /\ idle_count = 0 /\ failed_count = 0
    <3>1. PrintFramesTS = <<>> BY <2>1 DEF PrintFramesTS
    <3>2. Len(call_stacks) = 0 BY <2>1
    <3>3. Bucketed = <<>> BY <3>2, FilledSolves DEF Bucketed, FilledEq
    <3>4. Counted("(idle)", idle_count) = <<>> /\ Counted("(failed)", failed_count) = <<>>
      BY <2>1 DEF Counted
    <3>5. PrintFrames = (<<>> \o <<>>) \o <<>> BY <3>3, <3>4 DEF PrintFrames
    <3>6. PrintFrames = <<>> BY <3>5
    <3> QED BY <2>1, <3>1, <3>6 DEF Finish
  <2>2. CASE ~(call_stacks = <<>> /\ idle_count = 0 /\ failed_count = 0) BY <2>2 DEF Finish
  <2> QED BY <2>1, <2>2
<1> QED BY <1>1, LinesAreSeen, NumbersAreSeen DEF ReportIInv

\* The rest of a step leaves the report, and what was seen, alone.
LEMMA ReportKept ==
  ASSUME ReportIInv, [Next]_vars
  PROVE  ReportIInv'
<1>1. OptionsInv' /\ TypeInv' BY ReportKeepsOptions, TypesKept DEF ReportIInv
<1>2. TypeInv /\ CountInv /\ KeptInv BY DEF ReportIInv
<1>3. AllFrames' = AllFrames BY DEF AllFrames, FailedFrame
<1>4. CASE Parse
  <2>1. /\ pc = "parse" /\ pc' = pc /\ seen' = <<>> /\ call_stacks' = <<>>
        /\ idle_count' = 0 /\ failed_count' = 0
    BY <1>2, <1>4 DEF Parse, TypeInv
  <2>2. \A X : All(<<>>, X) = 0 BY HitsOne
  <2>3. CountInv' BY <2>1, <2>2 DEF CountInv
  <2>4. KeptInv' BY <2>1, <2>2 DEF KeptInv, Kept
  <2> QED BY <1>1, <2>1, <2>3, <2>4 DEF ReportIInv, ReportInv
<1>5. ASSUME opts' = opts, seen' = seen, call_stacks' = call_stacks, idle_count' = idle_count,
             failed_count' = failed_count
      PROVE  CountInv' /\ KeptInv'
  <2>1. CountInv' BY <1>2, <1>5 DEF CountInv, All, Hits, AllFrames, FailedFrame
  <2>2. KeptInv' BY <1>2, <1>5 DEF KeptInv, Kept, Shown, All, Hits, AllFrames, FailedFrame
  <2> QED BY <2>1, <2>2
<1>6. ASSUME opts' = opts, seen' = seen
      PROVE  \A o : (LinesRight(o)' <=> LinesRight(o)) /\ (NumbersRight(o)' <=> NumbersRight(o))
  <2>1. Reportable' = Reportable BY <1>6 DEF Reportable
  <2>2. \A k : Rank(k)' = Rank(k) BY <2>1 DEF Rank
  <2>3. \A s : Text(s)' = Text(s) BY <1>6 DEF Text, Outermost, PrintFrame, FailedFrame
  <2>4. \A T : SeenIn(T)' = SeenIn(T) BY <1>6, <2>1, <2>3 DEF SeenIn
  <2>5. \A text : OneFunctionALine(text)' <=> OneFunctionALine(text) BY <2>3 DEF OneFunctionALine, Stacks, Places
  <2>6. ASSUME NEW o PROVE LinesRight(o)' <=> LinesRight(o)
    BY <1>6, <2>1, <2>2, <2>3 DEF LinesRight
  <2>7. ASSUME NEW o PROVE NumbersRight(o)' <=> NumbersRight(o)
    BY <2>1, <2>4, <2>5 DEF NumbersRight
  <2> QED BY <2>6, <2>7
<1>7. CASE Begin \/ SampleThrows
  <2>1. /\ opts' = opts /\ seen' = seen /\ call_stacks' = call_stacks /\ idle_count' = idle_count
        /\ failed_count' = failed_count /\ pc' \in {"loop", "finish"}
    BY <1>7 DEF Begin, SampleThrows, optionsVars
  <2> QED BY <1>1, <1>5, <2>1 DEF ReportIInv, ReportInv
<1>8. CASE Sample \/ SampleFails
  <2>1. CountInv' /\ KeptInv' BY <1>2, <1>8, TurnKeeps, TurnCounts
  <2>2. pc' \in {"loop", "finish"}
    <3>1. CASE Sample BY <3>1, Zenon DEF Sample
    <3>2. CASE SampleFails BY <3>2 DEF SampleFails
    <3> QED BY <1>8, <3>1, <3>2
  <2> QED BY <1>1, <2>1, <2>2 DEF ReportIInv, ReportInv
<1>9. CASE Finish
  <2>1. /\ opts' = opts /\ seen' = seen /\ call_stacks' = call_stacks /\ idle_count' = idle_count
        /\ failed_count' = failed_count
    BY <1>9 DEF Finish, optionsVars
  <2>2. IF opts.ts THEN LinesRight(out') ELSE NumbersRight(out') BY <1>9, FinishIsRight
  <2>3. ReportInv' BY <1>6, <2>1, <2>2 DEF ReportInv
  <2> QED BY <1>1, <1>5, <2>1, <2>3 DEF ReportIInv
<1>10. CASE CreateNode \/ ConvertEnd \/ UNCHANGED vars
  <2>1. /\ opts' = opts /\ seen' = seen /\ call_stacks' = call_stacks /\ idle_count' = idle_count
        /\ failed_count' = failed_count /\ out' = out
        /\ pc' \in {"convert", "done"} => pc \in {"convert", "done"}
    BY <1>10 DEF CreateNode, ConvertEnd, vars, optionsVars
  <2>2. ReportInv' BY <1>6, <2>1 DEF ReportInv, ReportIInv
  <2> QED BY <1>1, <1>5, <2>1, <2>2 DEF ReportIInv
<1> QED BY <1>4, <1>7, <1>8, <1>9, <1>10 DEF Next, Terminated

\* The report accounts for every turn of the loop, for any samples and any
\* number of turns: no stack, idle turn or failure is lost or reported twice,
\* whatever the clock did and whichever stacks share a bucket.
THEOREM ReportIsRight == Spec => []ReportRight
<1>1. Init => ReportIInv
  <2> SUFFICES ASSUME Init PROVE ReportIInv OBVIOUS
  <2>1. OptionsInv /\ TypeInv BY BeginsTyped
  <2>2. /\ seen = <<>> /\ call_stacks = <<>> /\ idle_count = 0 /\ failed_count = 0 /\ pc = "parse"
    BY DEF Init
  <2>3. \A X : All(<<>>, X) = 0 BY HitsOne
  <2>4. CountInv /\ KeptInv BY <2>2, <2>3 DEF CountInv, KeptInv, Kept
  <2> QED BY <2>1, <2>2, <2>4 DEF ReportIInv, ReportInv
<1>2. ReportIInv /\ [Next]_vars => ReportIInv' BY ReportKept
<1>3. ReportIInv => ReportRight
  <2> SUFFICES ASSUME ReportIInv, pc \in {"convert", "done"}
               PROVE  IF opts.ts THEN LinesRight(out)
                      ELSE /\ NumberOf(DOMAIN out) = Cardinality(Reportable)
                           /\ \A k \in DOMAIN out :
                                OneFunctionALine(out[k].text) =>
                                  NumberOf({j \in DOMAIN out : out[j].text = out[k].text})
                                    = Cardinality({j \in Reportable : Text(seen[j].frames) = out[k].text})
    BY DEF ReportRight, LinesRight
  <2>1. IF opts.ts THEN LinesRight(out) ELSE NumbersRight(out) BY DEF ReportIInv, ReportInv
  <2>2. out \in Seq(LineSet) BY DEF ReportIInv, TypeInv
  <2>3. NumberOf(DOMAIN out) = Said(out, Texts)
    <3>1. \A k \in DOMAIN out : out[k].text \in Texts
      <4>1. \A k \in DOMAIN out : out[k] \in LineSet BY <2>2
      <4> QED BY <4>1 DEF LineSet
    <3>2. [k \in DOMAIN out |-> IF k \in DOMAIN out THEN out[k].number ELSE 0] = Marked(out, Texts)
      BY <3>1 DEF Marked
    <3> QED BY <3>2 DEF NumberOf, Said
  <2>4. ASSUME NEW text
        PROVE  NumberOf({j \in DOMAIN out : out[j].text = text}) = Said(out, {text})
    <3>1. [k \in DOMAIN out |-> IF k \in {j \in DOMAIN out : out[j].text = text} THEN out[k].number ELSE 0]
            = Marked(out, {text})
      BY DEF Marked
    <3> QED BY <3>1, Zenon DEF NumberOf, Said
  <2>5. \A text : SeenIn({text}) = {j \in Reportable : Text(seen[j].frames) = text} BY DEF SeenIn
  <2> QED BY <2>1, <2>3, <2>4, <2>5 DEF NumbersRight
<1> QED BY <1>1, <1>2, <1>3, PTL DEF Spec

----------------------------------------------------------------------------
(* The flame chart.                                                        *)

CellSet == FrameSet \cup [word : Words]
NodeSet == [name : CellSet \cup {Word("(root)")}, children : Seq(Nat)]
ProfSet == [nodes : Seq(NodeSet), samples : Seq(Nat), timeDeltas : Seq(Int), prev_ts : Int]

\* A line with a timestamp that create_cs ends at the last cell.
Drawable(line) ==
  /\ line \in LineSet /\ line.number # 0
  /\ Cells(line.text) \in Seq(CellSet) /\ Len(Cells(line.text)) > 0
  /\ \A k \in 1..Len(Cells(line.text)) :
       /\ Cells(line.text)[k] = line.text[k]
       /\ LastCell(line.text, k) <=> k = Len(Cells(line.text))

\* Where stacks begin: the children of the root, and the next node.
Starts == {prof.nodes[1].children[k] : k \in 2..Len(prof.nodes[1].children)} \cup {NodeId}

\* A node has the next one for a child, unless a stack begins there.
TreeInv ==
  /\ prof \in ProfSet /\ Len(prof.nodes) >= 2
  /\ Len(prof.nodes[1].children) >= 1 /\ prof.nodes[1].children[1] = 2
  /\ 3 \in Starts /\ Starts \subseteq 3..NodeId
  /\ \A id \in 3..Len(prof.nodes) :
       prof.nodes[id].children = IF id + 1 \in Starts THEN <<>> ELSE <<id + 1>>

\* The nodes from the first one have the cells for their names.
IsStack(first, cells) ==
  /\ cells \in Seq(CellSet) /\ Len(cells) > 0
  /\ first \in Starts /\ first + Len(cells) <= NodeId
  /\ \A i \in 0..(Len(cells) - 1) :
       prof.nodes[first + i].name = cells[i + 1] /\ (i > 0 => first + i \notin Starts)

\* Two samples are made of a line, 1000 apart.
Drawn(k) ==
  /\ \E first \in Nat :
       /\ IsStack(first, Cells(out[k].text))
       /\ prof.samples[2 * k - 1] = first + (Len(Cells(out[k].text)) - 1)
  /\ prof.samples[2 * k] = 2
Timed(k) ==
  /\ Totals(prof.timeDeltas)[2 * k - 1] = out[k].number - out[1].number
  /\ Totals(prof.timeDeltas)[2 * k] = (out[k].number - out[1].number) + 1000

SamplesInv ==
  /\ Len(prof.samples) = 2 * converted /\ Len(prof.timeDeltas) = 2 * converted
  /\ prof.prev_ts = IF converted = 0 THEN 0 ELSE out[converted].number
  /\ \A k \in 1..converted : Drawn(k) /\ Timed(k)

LinesInv == pc = "convert" => \A k \in 1..Len(out) : Drawable(out[k])

ChartInv == TreeInv /\ SamplesInv /\ LinesInv

\* What PrintFramesTS writes can be drawn.
LEMMA LinesAreDrawable ==
  \A e \in EntrySet : Drawable(TsLine(e))
<1> SUFFICES ASSUME NEW e \in EntrySet PROVE Drawable(TsLine(e)) OBVIOUS
<1>1. e.frames \in AllFrames /\ e.ts \in Times BY DEF EntrySet
<1>2. TsLine(e) \in LineSet /\ TsLine(e).number # 0
  <2>1. e.ts # 0 BY <1>1 DEF Times
  <2> QED BY <2>1, LinesAre DEF TsLine
<1>3. Cells(TsLine(e).text) = Text(e.frames) BY CellsOfLine
<1>4. CASE e.frames \notin Stacks
  <2>1. \E w \in Words : TsLine(e).text = <<Word(w)>> /\ Text(e.frames) = <<Word(w)>>
    <3>1. CASE e.frames = <<>> BY <3>1 DEF TsLine, Text, Words
    <3>2. CASE e.frames = <<FailedFrame>>
      <4>1. Len(e.frames) = 1 /\ e.frames[1].file = "(failed)" /\ e.frames # <<>> BY <3>2 DEF FailedFrame
      <4> QED BY <3>2, <4>1 DEF TsLine, Text, Words
    <3> QED BY <1>1, <1>4, <3>1, <3>2 DEF AllFrames
  <2>2. PICK w \in Words : TsLine(e).text = <<Word(w)>> /\ Text(e.frames) = <<Word(w)>> BY <2>1
  <2>3. Word(w) \in CellSet BY DEF Word, CellSet
  <2>4. \A x \in CellSet : <<x>> \in Seq(CellSet) /\ Len(<<x>>) = 1 /\ <<x>>[1] = x OBVIOUS
  <2>5. \A k \in 1..1 : LastCell(<<Word(w)>>, k) <=> k = 1 BY <2>3, <2>4 DEF LastCell
  <2> QED BY <1>2, <1>3, <2>2, <2>3, <2>4, <2>5 DEF Drawable
<1>5. CASE e.frames \in Stacks
  <2> DEFINE o == Outermost(e.frames)
             w == Word("")
  <2>1. /\ e.frames # <<>> /\ e.frames # <<FailedFrame>>
        /\ ~(Len(e.frames) = 1 /\ e.frames[1].file = "(failed)")
    BY <1>5, StacksAreFrames
  <2>2. TsLine(e).text = Append(o, w) /\ Text(e.frames) = o BY <2>1 DEF TsLine, Text
  <2>3. e.frames \in Seq(FrameSet) BY <1>1, StacksAreFrames
  <2>4. o \in Seq(FrameSet) /\ Len(o) = Len(e.frames) /\ Len(e.frames) > 0 BY <2>1, <2>3, OutermostIs
  <2>5. w \in CellSet BY DEF Word, Words, CellSet
  <2> HIDE DEF o, w
  <2>6. o \in Seq(CellSet) BY <2>4 DEF CellSet
  <2>7. /\ Len(o) \in Nat /\ Len(Append(o, w)) = Len(o) + 1
        /\ \A k \in 1..Len(o) : Append(o, w)[k] = o[k]
    BY <2>5, <2>6
  <2>8. \A k \in 1..Len(o) : LastCell(Append(o, w), k) <=> k = Len(o) BY <2>7 DEF LastCell
  <2>9. Len(o) > 0 BY <2>4
  <2> QED BY <1>2, <1>3, <2>2, <2>6, <2>7, <2>8, <2>9 DEF Drawable
<1> QED BY <1>4, <1>5

\* The chart begins with the root and the idle node.
LEMMA ChartBegins ==
  Init => ChartInv
<1> SUFFICES ASSUME Init PROVE ChartInv OBVIOUS
<1>1. prof = [nodes |-> <<Root, IdleNode>>, samples |-> <<>>, timeDeltas |-> <<>>, prev_ts |-> 0]
      /\ converted = 0 /\ pc = "parse"
  BY DEF Init
<1>2. Root \in NodeSet /\ IdleNode \in NodeSet
  <2>1. Word("(idle)") \in CellSet BY DEF Word, Words, CellSet
  <2>2. <<2>> \in Seq(Nat) /\ <<>> \in Seq(Nat) OBVIOUS
  <2> QED BY <2>1, <2>2 DEF Root, IdleNode, NodeSet
<1>3. prof.nodes = <<Root, IdleNode>> /\ prof.nodes \in Seq(NodeSet) /\ Len(prof.nodes) = 2
      /\ prof.nodes[1] = Root
  BY <1>1, <1>2
<1>4. prof \in ProfSet
  <2>1. <<>> \in Seq(Nat) /\ <<>> \in Seq(Int) /\ 0 \in Int OBVIOUS
  <2>2. <<Root, IdleNode>> \in Seq(NodeSet) BY <1>3
  <2> QED BY <1>1, <2>1, <2>2, Zenon DEF ProfSet
<1>5. Root.children = <<2>> /\ Len(<<2>>) = 1 /\ <<2>>[1] = 2 BY DEF Root
<1>6. Starts = {3} BY <1>3, <1>5 DEF Starts, NodeId
<1>7. TreeInv BY <1>3, <1>4, <1>5, <1>6 DEF TreeInv, NodeId
<1>8. SamplesInv BY <1>1 DEF SamplesInv
<1> QED BY <1>1, <1>7, <1>8 DEF ChartInv, LinesInv

\* A line adds a node for each of its cells, and two samples.
Grows(cells, number) ==
  /\ prof' \in ProfSet
  /\ Len(prof'.nodes) = Len(prof.nodes) + Len(cells)
  /\ prof'.nodes[1].children = Append(prof.nodes[1].children, Len(prof.nodes) + 1)
  /\ \A id \in 3..Len(prof.nodes) : prof'.nodes[id] = prof.nodes[id]
  /\ \A k \in 1..Len(cells) :
       /\ prof'.nodes[Len(prof.nodes) + k].name = cells[k]
       /\ prof'.nodes[Len(prof.nodes) + k].children =
            IF k = Len(cells) THEN <<>> ELSE <<(Len(prof.nodes) + k) + 1>>
  /\ prof'.samples = prof.samples \o <<Len(prof.nodes) + Len(cells), 2>>
  /\ prof'.timeDeltas = prof.timeDeltas
       \o <<IF prof.prev_ts = 0 THEN 0 ELSE number - prof.prev_ts - 1000, 1000>>
  /\ prof'.prev_ts = number

\* create_cs makes the nodes of a stack.
LEMMA CreatedAre ==
  ASSUME TreeInv, NEW line, Drawable(line)
  PROVE  LET cells == Cells(line.text) IN
         /\ CreateCs(line.text) \in Seq(NodeSet) /\ Len(CreateCs(line.text)) = Len(cells)
         /\ \A k \in 1..Len(cells) :
              CreateCs(line.text)[k] =
                [name |-> cells[k],
                 children |-> IF k = Len(cells) THEN <<>> ELSE <<(Len(prof.nodes) + k) + 1>>]
<1> DEFINE cells == Cells(line.text)
           N == Len(prof.nodes)
           Node(k) == [name |-> cells[k], children |-> IF k = Len(cells) THEN <<>> ELSE <<(N + k) + 1>>]
<1>1. cells \in Seq(CellSet) /\ Len(cells) \in Nat /\ DOMAIN cells = 1..Len(cells) BY DEF Drawable
<1>2. N \in Nat BY DEF TreeInv, ProfSet
<1>3. \A k \in 1..Len(cells) : NodeId + k = (N + k) + 1 BY <1>1, <1>2 DEF NodeId
<1>4. \A k \in 1..Len(cells) : cells[k] = line.text[k] /\ (LastCell(line.text, k) <=> k = Len(cells))
  BY DEF Drawable
<1>5. CreateCs(line.text) =
        [k \in 1..Len(cells) |->
           [name |-> line.text[k], children |-> IF LastCell(line.text, k) THEN <<>> ELSE <<NodeId + k>>]]
  BY <1>1, Zenon DEF CreateCs
<1>6. ASSUME NEW k \in 1..Len(cells) PROVE CreateCs(line.text)[k] = Node(k) /\ Node(k) \in NodeSet
  <2>1. CreateCs(line.text)[k] = Node(k) BY <1>3, <1>4, <1>5
  <2>2. cells[k] \in CellSet BY <1>1
  <2>3. (N + k) + 1 \in Nat BY <1>1, <1>2
  <2>4. Node(k).children \in Seq(Nat)
    <3> DEFINE m == (N + k) + 1
    <3> HIDE DEF m
    <3>1. <<m>> \in Seq(Nat) /\ <<>> \in Seq(Nat) BY <2>3 DEF m
    <3> QED BY <3>1 DEF m
  <2> QED BY <2>1, <2>2, <2>4 DEF NodeSet
<1> DEFINE C == CreateCs(line.text)
<1>7. C = [k \in 1..Len(cells) |-> C[k]] BY <1>5
<1> HIDE DEF C, cells
<1>8. \A k \in 1..Len(cells) : C[k] \in NodeSet BY <1>6 DEF C
<1>9. C \in Seq(NodeSet) /\ Len(C) = Len(cells) BY <1>1, <1>7, <1>8
<1> QED BY <1>6, <1>9 DEF C, cells

\* Creating a node reads a line that can be drawn, and adds what is in it.
LEMMA NodeGrows ==
  ASSUME TypeInv, ChartInv, CreateNode
  PROVE  Drawable(out[converted + 1])
         /\ Grows(Cells(out[converted + 1].text), out[converted + 1].number)
<1> DEFINE line == out[converted + 1]
           cells == Cells(line.text)
           N == Len(prof.nodes)
           C == CreateCs(line.text)
           nodes == prof.nodes \o C
           more == [nodes EXCEPT ![1].children = Append(@, NodeId), ![2].children = Append(@, NodeId)]
<1>1. converted \in Nat /\ Len(out) \in Nat /\ converted < Len(out) /\ pc = "convert"
  <2>1. out \in Seq(LineSet) /\ converted \in 0..Len(out) BY DEF TypeInv
  <2>2. converted < Len(out) /\ pc = "convert" BY Zenon DEF CreateNode
  <2>3. Len(out) \in Nat BY <2>1
  <2> QED BY <2>1, <2>2, <2>3
<1>2. converted + 1 \in 1..Len(out) BY <1>1
<1>3. Drawable(line) BY <1>1, <1>2 DEF ChartInv, LinesInv
<1>4. C \in Seq(NodeSet) /\ Len(C) = Len(cells)
      /\ \A k \in 1..Len(cells) :
           C[k] = [name |-> cells[k], children |-> IF k = Len(cells) THEN <<>> ELSE <<(N + k) + 1>>]
  BY <1>3, CreatedAre DEF ChartInv
<1>5. prof \in ProfSet /\ N >= 2 BY DEF ChartInv, TreeInv
<1>6. prof.nodes \in Seq(NodeSet) /\ N \in Nat /\ prof.samples \in Seq(Nat) /\ prof.timeDeltas \in Seq(Int)
      /\ prof.prev_ts \in Int
  BY <1>5 DEF ProfSet
<1>7. Len(cells) \in Nat /\ line.number \in Int /\ Len(cells) > 0 BY <1>3 DEF Drawable, LineSet
<1>8. prof' = [nodes |-> more,
               samples |-> prof.samples \o <<Len(nodes), 2>>,
               timeDeltas |-> prof.timeDeltas
                 \o <<IF prof.prev_ts = 0 THEN 0 ELSE line.number - prof.prev_ts - 1000, 1000>>,
               prev_ts |-> line.number]
  BY Zenon DEF CreateNode, IDLE_NODE_ID
<1> HIDE DEF C, line, cells
<1>9. /\ nodes \in Seq(NodeSet) /\ Len(nodes) = N + Len(cells)
      /\ \A id \in 1..N : nodes[id] = prof.nodes[id]
      /\ \A k \in 1..Len(cells) : nodes[N + k] = C[k]
  <2> DEFINE p == prof.nodes
  <2>1. p \in Seq(NodeSet) /\ C \in Seq(NodeSet) BY <1>4, <1>6
  <2> HIDE DEF p
  <2>2. /\ p \o C \in Seq(NodeSet) /\ Len(p \o C) = Len(p) + Len(C)
        /\ \A id \in 1..Len(p) : (p \o C)[id] = p[id]
        /\ \A k \in 1..Len(C) : (p \o C)[Len(p) + k] = C[k]
    BY <2>1
  <2> QED BY <1>4, <2>2 DEF p
<1> HIDE DEF nodes
<1>10. NodeId \in Nat /\ NodeId = N + 1 BY <1>6 DEF NodeId
<1>11. 1 \in 1..Len(nodes) /\ 2 \in 1..Len(nodes) BY <1>5, <1>6, <1>7, <1>9
<1>12. /\ more \in Seq(NodeSet) /\ Len(more) = Len(nodes)
       /\ more[1].children = Append(nodes[1].children, NodeId)
       /\ \A id \in 3..Len(nodes) : more[id] = nodes[id]
  <2>1. /\ nodes[1] \in NodeSet /\ nodes[2] \in NodeSet BY <1>9, <1>11
  <2>2. \A m \in NodeSet : /\ [m EXCEPT !.children = Append(@, NodeId)] \in NodeSet
                           /\ [m EXCEPT !.children = Append(@, NodeId)].children = Append(m.children, NodeId)
    <3> SUFFICES ASSUME NEW m \in NodeSet
                 PROVE  /\ [m EXCEPT !.children = Append(@, NodeId)] \in NodeSet
                        /\ [m EXCEPT !.children = Append(@, NodeId)].children = Append(m.children, NodeId)
      OBVIOUS
    <3>1. m.children \in Seq(Nat) BY DEF NodeSet
    <3>2. Append(m.children, NodeId) \in Seq(Nat) BY <1>10, <3>1
    <3> QED BY <3>2 DEF NodeSet
  <2> DEFINE x == [nodes[1] EXCEPT !.children = Append(@, NodeId)]
             y == [nodes[2] EXCEPT !.children = Append(@, NodeId)]
  <2>3. more = [[nodes EXCEPT ![1] = x] EXCEPT ![2] = y]
    <3>1. [nodes EXCEPT ![1] = x][2] = nodes[2] BY <1>9, <1>11
    <3> QED BY <3>1
  <2>4. x \in NodeSet /\ y \in NodeSet /\ x.children = Append(nodes[1].children, NodeId) BY <2>1, <2>2
  <2> HIDE DEF x, y, more
  <2>5. /\ more \in Seq(NodeSet) /\ Len(more) = Len(nodes) /\ more[1] = x
        /\ \A id \in 3..Len(nodes) : more[id] = nodes[id]
    BY <1>9, <1>11, <2>3, <2>4
  <2> QED BY <2>4, <2>5
<1> HIDE DEF more
<1>13. prof'.nodes = more /\ prof'.prev_ts = line.number
       /\ prof'.samples = prof.samples \o <<Len(nodes), 2>>
       /\ prof'.timeDeltas = prof.timeDeltas
            \o <<IF prof.prev_ts = 0 THEN 0 ELSE line.number - prof.prev_ts - 1000, 1000>>
  BY <1>8
<1>14. prof' \in ProfSet
  <2>1. prof'.samples \in Seq(Nat)
    <3>1. Len(nodes) \in Nat /\ 2 \in Nat BY <1>9
    <3> QED BY <1>6, <1>13, <3>1
  <2>2. prof'.timeDeltas \in Seq(Int)
    <3> DEFINE d == IF prof.prev_ts = 0 THEN 0 ELSE line.number - prof.prev_ts - 1000
    <3>1. d \in Int /\ 1000 \in Int BY <1>6, <1>7
    <3> HIDE DEF d
    <3>2. <<d, 1000>> \in Seq(Int) BY <3>1
    <3>3. prof'.timeDeltas = prof.timeDeltas \o <<d, 1000>> BY <1>13 DEF d
    <3> QED BY <1>6, <3>2, <3>3
  <2>3. prof' = [nodes |-> prof'.nodes, samples |-> prof'.samples, timeDeltas |-> prof'.timeDeltas,
                 prev_ts |-> prof'.prev_ts]
    BY <1>8
  <2>4. prof'.nodes \in Seq(NodeSet) /\ prof'.prev_ts \in Int BY <1>7, <1>12, <1>13
  <2> QED BY <2>1, <2>2, <2>3, <2>4, Zenon DEF ProfSet
<1>15. \A k \in 1..Len(cells) : N + k \in 3..Len(nodes) BY <1>5, <1>6, <1>7, <1>9
<1>16. ASSUME NEW k \in 1..Len(cells)
       PROVE  more[N + k].name = cells[k]
              /\ more[N + k].children = IF k = Len(cells) THEN <<>> ELSE <<(N + k) + 1>>
  <2>1. more[N + k] = C[k] BY <1>9, <1>12, <1>15
  <2>2. C[k] = [name |-> cells[k], children |-> IF k = Len(cells) THEN <<>> ELSE <<(N + k) + 1>>] BY <1>4
  <2> QED BY <2>1, <2>2
<1>17. \A id \in 3..N : more[id] = prof.nodes[id]
  <2>1. \A id \in 3..N : id \in 3..Len(nodes) /\ id \in 1..N BY <1>6, <1>7, <1>9
  <2> QED BY <1>9, <1>12, <2>1
<1>18. more[1].children = Append(prof.nodes[1].children, N + 1)
  <2>1. 1 \in 1..N BY <1>5, <1>6
  <2> QED BY <1>9, <1>10, <1>12, <2>1
<1>19. Len(more) = N + Len(cells) /\ Len(nodes) = N + Len(cells) BY <1>9, <1>12
<1> HIDE DEF N
<1>20. prof'.samples = prof.samples \o <<N + Len(cells), 2>> BY <1>13, <1>19
<1>21. Grows(cells, line.number)
  <2>1. Len(prof'.nodes) = N + Len(cells) BY <1>13, <1>19
  <2>2. prof'.nodes[1].children = Append(prof.nodes[1].children, N + 1) BY <1>13, <1>18
  <2>3. \A id \in 3..N : prof'.nodes[id] = prof.nodes[id] BY <1>13, <1>17
  <2>4. \A k \in 1..Len(cells) :
          /\ prof'.nodes[N + k].name = cells[k]
          /\ prof'.nodes[N + k].children = IF k = Len(cells) THEN <<>> ELSE <<(N + k) + 1>>
    BY <1>13, <1>16
  <2> QED BY <1>13, <1>14, <1>20, <2>1, <2>2, <2>3, <2>4, Zenon DEF Grows, N
<1> QED BY <1>3, <1>21 DEF line, cells

\* A stack begins at the next node, and the one after it behind its last.
LEMMA StartsGrow ==
  ASSUME TreeInv, NEW cells \in Seq(CellSet), Len(cells) > 0, NEW number \in Int,
         Grows(cells, number)
  PROVE  /\ NodeId \in Starts /\ NodeId' = NodeId + Len(cells)
         /\ Starts' = Starts \cup {NodeId'}
<1> DEFINE N == Len(prof.nodes)
           c == prof.nodes[1].children
           d == Append(c, N + 1)
<1>1. prof.nodes \in Seq(NodeSet) /\ N \in Nat /\ N >= 2 /\ Len(cells) \in Nat BY DEF TreeInv, ProfSet
<1>2. c \in Seq(Nat) /\ Len(c) >= 1
  <2>1. prof.nodes[1] \in NodeSet BY <1>1
  <2> QED BY <2>1 DEF NodeSet, TreeInv
<1>3. prof'.nodes[1].children = d /\ Len(prof'.nodes) = N + Len(cells) BY DEF Grows
<1>4. NodeId = N + 1 /\ NodeId' = N + Len(cells) + 1 BY <1>3 DEF NodeId
<1>5. /\ d \in Seq(Nat) /\ Len(d) = Len(c) + 1 /\ d[Len(c) + 1] = N + 1
      /\ \A k \in 1..Len(c) : d[k] = c[k]
  <2>1. N + 1 \in Nat BY <1>1
  <2> HIDE DEF c, N
  <2> QED BY <1>2, <2>1
<1>6. Starts = {c[k] : k \in 2..Len(c)} \cup {N + 1} BY <1>4 DEF Starts
<1>7. Starts' = {d[k] : k \in 2..Len(d)} \cup {NodeId'} BY <1>3 DEF Starts
<1>8. {d[k] : k \in 2..Len(d)} = {c[k] : k \in 2..Len(c)} \cup {N + 1}
  <2>0. Len(c) \in Nat /\ Len(c) >= 1 /\ Len(d) = Len(c) + 1 BY <1>2, <1>5
  <2>1. 2..Len(d) = (2..Len(c)) \cup {Len(c) + 1}
    <3> HIDE DEF c, d, N
    <3> QED BY <2>0
  <2>2. \A k \in 2..Len(c) : d[k] = c[k] BY <1>5, <2>1
  <2>3. d[Len(c) + 1] = N + 1 BY <1>5
  <2> HIDE DEF c, d, N
  <2> QED BY <2>1, <2>2, <2>3
<1>9. NodeId' = NodeId + Len(cells) BY <1>1, <1>4
<1> HIDE DEF c, d
<1> QED BY <1>4, <1>6, <1>7, <1>8, <1>9

\* The tree grows as a tree.
LEMMA TreeGrows ==
  ASSUME TreeInv, NEW cells \in Seq(CellSet), Len(cells) > 0, NEW number \in Int,
         Grows(cells, number)
  PROVE  TreeInv'
<1> DEFINE N == Len(prof.nodes)
<1>1. prof.nodes \in Seq(NodeSet) /\ N \in Nat /\ N >= 2 /\ Len(cells) \in Nat /\ Len(cells) > 0
  BY DEF TreeInv, ProfSet
<1>0. N \in Nat /\ N >= 2 /\ Len(cells) \in Nat /\ Len(cells) > 0 BY <1>1
<1>2. Len(prof'.nodes) = N + Len(cells) /\ NodeId = N + 1 /\ NodeId' = (N + Len(cells)) + 1
  BY DEF Grows, NodeId
<1>a. /\ \A id \in 3..N : prof'.nodes[id] = prof.nodes[id]
      /\ \A k \in 1..Len(cells) :
           /\ prof'.nodes[N + k].name = cells[k]
           /\ prof'.nodes[N + k].children = IF k = Len(cells) THEN <<>> ELSE <<(N + k) + 1>>
  BY Zenon DEF Grows
<1>3. Starts' = Starts \cup {(N + Len(cells)) + 1} /\ N + 1 \in Starts BY <1>2, StartsGrow
<1>4. Starts \subseteq 3..(N + 1) /\ 3 \in Starts BY <1>2 DEF TreeInv
<1>5. 3 \in Starts' /\ Starts' \subseteq 3..NodeId'
  <2> HIDE DEF N
  <2>1. (N + Len(cells)) + 1 \in 3..((N + Len(cells)) + 1) BY <1>0
  <2>2. 3..(N + 1) \subseteq 3..((N + Len(cells)) + 1) BY <1>0
  <2> QED BY <1>2, <1>3, <1>4, <2>1, <2>2
<1>6. Len(prof'.nodes[1].children) >= 1 /\ prof'.nodes[1].children[1] = 2
  <2> DEFINE c == prof.nodes[1].children
  <2>1. prof.nodes[1] \in NodeSet BY <1>1
  <2>2. c \in Seq(Nat) /\ Len(c) >= 1 /\ c[1] = 2 BY <2>1 DEF NodeSet, TreeInv
  <2>3. prof'.nodes[1].children = Append(c, N + 1) /\ N + 1 \in Nat BY <1>1 DEF Grows
  <2> HIDE DEF c, N
  <2> QED BY <2>2, <2>3
<1>7. ASSUME NEW id \in 3..Len(prof'.nodes)
      PROVE  prof'.nodes[id].children = IF id + 1 \in Starts' THEN <<>> ELSE <<id + 1>>
  <2>1. CASE id <= N
    <3>1. id \in 3..N BY <1>1, <2>1
    <3>2. prof'.nodes[id] = prof.nodes[id] BY <1>a, <3>1
    <3>3. prof.nodes[id].children = IF id + 1 \in Starts THEN <<>> ELSE <<id + 1>> BY <3>1 DEF TreeInv
    <3>4. id + 1 # (N + Len(cells)) + 1 BY <1>1, <3>1
    <3> QED BY <1>3, <3>2, <3>3, <3>4
  <2>2. CASE id > N
    <3> DEFINE k == id - N
    <3>1. k \in 1..Len(cells) /\ N + k = id BY <1>1, <1>2, <2>2
    <3>2. prof'.nodes[N + k].children = IF k = Len(cells) THEN <<>> ELSE <<(N + k) + 1>>
      <4> HIDE DEF k, N
      <4> QED BY <1>a, <3>1
    <3>3. id + 1 \in Starts' <=> k = Len(cells)
      <4>1. id + 1 \notin Starts BY <1>1, <1>4, <2>2
      <4>2. id + 1 = (N + Len(cells)) + 1 <=> k = Len(cells)
        <5> HIDE DEF N, k
        <5> QED BY <1>0, <3>1
      <4> QED BY <1>3, <4>1, <4>2
    <3> QED BY <3>1, <3>2, <3>3
  <2> QED BY <1>1, <2>1, <2>2
<1>8. prof' \in ProfSet /\ Len(prof'.nodes) >= 2
  <2>1. prof' \in ProfSet BY Zenon DEF Grows
  <2>2. N + Len(cells) >= 2 BY <1>0
  <2> QED BY <1>2, <2>1, <2>2
<1> QED BY <1>5, <1>6, <1>7, <1>8 DEF TreeInv

\* The stacks that were drawn stay, and the new one is drawn behind them.
LEMMA StacksGrow ==
  ASSUME TreeInv, NEW cells \in Seq(CellSet), Len(cells) > 0, NEW number \in Int,
         Grows(cells, number)
  PROVE  /\ \A first \in Nat : \A cs : IsStack(first, cs) => IsStack(first, cs)'
         /\ \A first \in Nat : first = NodeId => IsStack(first, cells)'
<1> DEFINE N == Len(prof.nodes)
<1>1. prof.nodes \in Seq(NodeSet) /\ N \in Nat /\ N >= 2 /\ Len(cells) \in Nat /\ Len(cells) > 0
  BY DEF TreeInv, ProfSet
<1>0. N \in Nat /\ N >= 2 /\ Len(cells) \in Nat /\ Len(cells) > 0 BY <1>1
<1>2. Len(prof'.nodes) = N + Len(cells) /\ NodeId = N + 1 /\ NodeId' = (N + Len(cells)) + 1
  BY DEF Grows, NodeId
<1>a. /\ \A id \in 3..N : prof'.nodes[id] = prof.nodes[id]
      /\ \A k \in 1..Len(cells) :
           /\ prof'.nodes[N + k].name = cells[k]
           /\ prof'.nodes[N + k].children = IF k = Len(cells) THEN <<>> ELSE <<(N + k) + 1>>
  BY Zenon DEF Grows
<1>3. Starts' = Starts \cup {(N + Len(cells)) + 1} /\ N + 1 \in Starts BY <1>2, StartsGrow
<1>4. Starts \subseteq 3..(N + 1) BY <1>2 DEF TreeInv
<1>5. ASSUME NEW first \in Nat, NEW cs, IsStack(first, cs) PROVE IsStack(first, cs)'
  <2>1. cs \in Seq(CellSet) /\ Len(cs) > 0 /\ first \in Starts /\ first + Len(cs) <= N + 1
    BY <1>2, <1>5 DEF IsStack
  <2>2. first + Len(cs) <= NodeId' BY <1>1, <1>2, <2>1
  <2>3. ASSUME NEW i \in 0..(Len(cs) - 1)
        PROVE  prof'.nodes[first + i].name = cs[i + 1] /\ (i > 0 => first + i \notin Starts')
    <3>1. first + i \in 3..N
      <4>1. first >= 3 /\ Len(cs) \in Nat BY <1>4, <2>1
      <4> HIDE DEF N
      <4> QED BY <1>0, <2>1, <4>1
    <3>2. prof'.nodes[first + i] = prof.nodes[first + i]
      <4> DEFINE k == first + i
      <4> HIDE DEF k
      <4>1. k \in 3..N BY <3>1 DEF k
      <4>2. prof'.nodes[k] = prof.nodes[k] BY <1>a, <4>1
      <4> QED BY <4>2 DEF k
    <3>3. prof.nodes[first + i].name = cs[i + 1] /\ (i > 0 => first + i \notin Starts)
      BY <1>5 DEF IsStack
    <3>4. first + i # (N + Len(cells)) + 1 BY <1>1, <3>1
    <3> QED BY <1>3, <3>2, <3>3, <3>4
  <2> QED BY <1>3, <2>1, <2>2, <2>3 DEF IsStack
<1>6. ASSUME NEW i \in 0..(Len(cells) - 1)
      PROVE  prof'.nodes[(N + 1) + i].name = cells[i + 1] /\ (i > 0 => (N + 1) + i \notin Starts')
  <2>1. i + 1 \in 1..Len(cells) /\ N + (i + 1) = (N + 1) + i
    <3> HIDE DEF N
    <3> QED BY <1>0
  <2>2. prof'.nodes[N + (i + 1)].name = cells[i + 1]
    <3> DEFINE k == i + 1
    <3> HIDE DEF k
    <3>1. k \in 1..Len(cells) BY <2>1 DEF k
    <3>2. prof'.nodes[N + k].name = cells[k] BY <1>a, <3>1
    <3> QED BY <3>2 DEF k
  <2>3. i > 0 => (N + 1) + i \notin Starts BY <1>0, <1>4
  <2>4. (N + 1) + i # (N + Len(cells)) + 1 BY <1>0
  <2> QED BY <1>3, <2>1, <2>2, <2>3, <2>4
<1>7. ASSUME NEW first \in Nat, first = NodeId PROVE IsStack(first, cells)'
  <2>1. first = N + 1 /\ first + Len(cells) <= NodeId' BY <1>0, <1>2, <1>7
  <2>2. first \in Starts' BY <1>3, <2>1
  <2>3. \A i \in 0..(Len(cells) - 1) :
          prof'.nodes[first + i].name = cells[i + 1] /\ (i > 0 => first + i \notin Starts')
    BY <1>6, <2>1
  <2> QED BY <1>1, <2>1, <2>2, <2>3 DEF IsStack
<1> QED BY <1>5, <1>7

\* What joined sequences are.
LEMMA ConcatIs ==
  ASSUME NEW s \in Seq(Int), NEW p \in Seq(Int)
  PROVE  /\ Len(s \o p) = Len(s) + Len(p)
         /\ \A n \in 1..Len(s) : (s \o p)[n] = s[n]
         /\ \A n \in 1..Len(p) : (s \o p)[Len(s) + n] = p[n]
OBVIOUS

\* Two numbers more.
Longer(s, t, c, x, y) ==
  /\ t \in Seq(Int) /\ Len(t) = 2 * c + 2
  /\ \A n \in 1..(2 * c) : t[n] = s[n]
  /\ t[2 * c + 1] = x /\ t[2 * c + 2] = y

\* Where two numbers are put behind a sequence, it has these last.
LEMMA PairAdded ==
  ASSUME NEW c \in Nat, NEW s \in Seq(Int), Len(s) = 2 * c, NEW x \in Int, NEW y \in Int,
         NEW t, t = s \o <<x, y>>
  PROVE  Longer(s, t, c, x, y)
<1> DEFINE p == <<x, y>>
           m == 2 * c
<1>1. p \in Seq(Int) /\ Len(p) = 2 /\ p[1] = x /\ p[2] = y OBVIOUS
<1>2. m \in Nat /\ Len(s) = m OBVIOUS
<1> HIDE DEF p, m
<1>3. t = s \o p BY DEF p
<1>4. s \o p \in Seq(Int) BY <1>1
<1>5. /\ Len(s \o p) = Len(s) + Len(p)
      /\ \A n \in 1..Len(s) : (s \o p)[n] = s[n]
      /\ \A n \in 1..Len(p) : (s \o p)[Len(s) + n] = p[n]
  BY <1>1, ConcatIs
<1>6. t[m + 1] = x /\ t[m + 2] = y
  <2>1. 1 \in 1..Len(p) /\ 2 \in 1..Len(p) BY <1>1
  <2> QED BY <1>1, <1>2, <1>3, <1>5, <2>1
<1> QED BY <1>1, <1>2, <1>3, <1>4, <1>5, <1>6 DEF Longer, m

\* What is between two lines, and what was before, is what is from the first.
LEMMA Telescopes ==
  ASSUME NEW a \in Int, NEW b \in Int, NEW n \in Int
  PROVE  ((a - b) + 1000) + (n - a - 1000) = n - b
OBVIOUS

\* Of a line, both samples are at their times, counted from the first line.
LEMMA TimesGrow ==
  ASSUME TypeInv, ChartInv, NEW cells, Grows(cells, out[converted + 1].number),
         converted + 1 \in 1..Len(out), \A k \in 1..Len(out) : Drawable(out[k]), out' = out
  PROVE  /\ \A k \in 1..(converted + 1) : Timed(k)'
         /\ Len(prof'.timeDeltas) = 2 * (converted + 1)
<1> DEFINE c == converted
           s == prof.timeDeltas
           number == out[c + 1].number
           x == IF prof.prev_ts = 0 THEN 0 ELSE number - prof.prev_ts - 1000
           t == prof'.timeDeltas
           first == out[1].number
<1>1. c \in Nat /\ Len(s) = 2 * c /\ s \in Seq(Int) /\ prof.prev_ts \in Int
  <2>1. c \in Nat BY DEF TypeInv
  <2>2. prof \in ProfSet BY DEF ChartInv, TreeInv
  <2> QED BY <2>1, <2>2 DEF ProfSet, ChartInv, SamplesInv
<1>2. \A k \in 1..Len(out) : out[k].number \in Int /\ out[k].number # 0 BY DEF Drawable, LineSet
<1>3. number \in Int /\ first \in Int
  <2>1. 1 \in 1..Len(out) BY <1>1
  <2> QED BY <1>2, <2>1
<1>4. x \in Int BY <1>1, <1>3
<1>5. t = s \o <<x, 1000>> BY DEF Grows
<1>6. prof.prev_ts = IF c = 0 THEN 0 ELSE out[c].number BY DEF ChartInv, SamplesInv
<1>7. \A k \in 1..c : Timed(k) BY DEF ChartInv, SamplesInv
<1> HIDE DEF s, x, t, number, first
<1>8. /\ t \in Seq(Int) /\ Len(t) = 2 * c + 2
      /\ \A n \in 1..(2 * c) : t[n] = s[n]
      /\ t[2 * c + 1] = x /\ t[2 * c + 2] = 1000
  <2> DEFINE y == 1000
  <2>1. y \in Int /\ t = s \o <<x, y>> BY <1>5
  <2> HIDE DEF y
  <2>2. Longer(s, t, c, x, y) BY <1>1, <1>4, <2>1, PairAdded
  <2> QED BY <2>2, Zenon DEF Longer, y
<1>9. ASSUME NEW n \in 0..(2 * c) PROVE Totals(t)[n] = Totals(s)[n]
  <2>1. n \in Nat /\ n <= 2 * c /\ 2 * c + 2 \in Nat /\ n <= 2 * c + 2 BY <1>1
  <2>2. \A j \in 1..n : j \in 1..(2 * c) BY <1>1, <2>1
  <2>3. \A j \in 1..n : t[j] = s[j] BY <1>8, <2>2
  <2>4. n <= Len(s) /\ n <= Len(t) BY <1>1, <1>8, <2>1
  <2>5. s \in Seq(Int) /\ t \in Seq(Int) /\ n \in Nat BY <1>1, <1>8, <2>1
  <2> QED BY <2>3, <2>4, <2>5, TotalsAgree
<1>10. /\ 2 * c + 1 \in 1..Len(t) /\ 2 * c + 2 \in 1..Len(t)
       /\ (2 * c + 1) - 1 = 2 * c /\ (2 * c + 2) - 1 = 2 * c + 1 /\ 2 * c \in 0..(2 * c)
  BY <1>1, <1>8
<1>11. /\ Totals(t)[2 * c + 1] = Totals(s)[2 * c] + x
       /\ Totals(t)[2 * c + 2] = Totals(t)[2 * c + 1] + 1000
  <2>0. t \in Seq(Int) BY <1>8
  <2>1. \A n \in 1..Len(t) : Totals(t)[n] = Totals(t)[n - 1] + t[n] BY <2>0, TotalsStep
  <2> DEFINE i == 2 * c + 1
             j == 2 * c + 2
  <2>a. i \in 1..Len(t) /\ j \in 1..Len(t) /\ i - 1 = 2 * c /\ j - 1 = i /\ t[i] = x /\ t[j] = 1000
    BY <1>8, <1>10
  <2> HIDE DEF i, j
  <2>2. Totals(t)[i] = Totals(t)[2 * c] + x BY <2>1, <2>a
  <2>3. Totals(t)[j] = Totals(t)[i] + 1000 BY <2>1, <2>a
  <2> USE DEF i, j
  <2> QED BY <1>9, <1>10, <2>2, <2>3
<1>12. Totals(t)[2 * c + 1] = number - first
  <2>1. CASE c = 0
    <3>0. 2 * c = 0 /\ c + 1 = 1 /\ prof.prev_ts = 0 BY <1>6, <2>1
    <3>1. Totals(s)[2 * c] = 0 /\ x = 0 /\ number = first
      <4>1. Totals(s)[0] = 0 BY <1>1, TotalsStep
      <4> QED BY <3>0, <4>1 DEF x, number, first
    <3> QED BY <1>3, <1>11, <3>1
  <2>2. CASE c # 0
    <3>1. c \in 1..c /\ c \in 1..Len(out) BY <1>1, <2>2
    <3>0. out[c].number # 0 /\ out[c].number \in Int BY <1>2, <3>1
    <3>2. prof.prev_ts = out[c].number /\ prof.prev_ts # 0 BY <1>6, <2>2, <3>0
    <3>3. Totals(s)[2 * c] = (out[c].number - first) + 1000 BY <1>7, <3>1 DEF Timed, s, first
    <3>4. x = number - out[c].number - 1000 BY <3>2 DEF x
    <3>5. Totals(t)[2 * c + 1] = ((out[c].number - first) + 1000) + (number - out[c].number - 1000)
      BY <1>11, <3>3, <3>4
    <3> QED BY <1>3, <3>0, <3>5, Telescopes
  <2> QED BY <2>1, <2>2
<1>13. ASSUME NEW k \in 1..(c + 1) PROVE Timed(k)'
  <2>1. CASE k = c + 1
    <3>1. 2 * k - 1 = 2 * c + 1 /\ 2 * k = 2 * c + 2 BY <1>1, <2>1
    <3> QED BY <1>11, <1>12, <2>1, <3>1 DEF Timed, t, number, first
  <2>2. CASE k # c + 1
    <3>1. k \in 1..c /\ 2 * k - 1 \in 0..(2 * c) /\ 2 * k \in 0..(2 * c) BY <1>1, <2>2
    <3>2. Timed(k) BY <1>7, <3>1
    <3> QED BY <1>9, <3>1, <3>2 DEF Timed, t, s
  <2> QED BY <2>1, <2>2
<1>14. Len(t) = 2 * (c + 1) BY <1>1, <1>8
<1> QED BY <1>13, <1>14 DEF t

\* And both lead to the stack of the line, and to the idle node.
LEMMA DrawnGrow ==
  ASSUME TypeInv, ChartInv, NEW cells, cells = Cells(out[converted + 1].text),
         Grows(cells, out[converted + 1].number), Drawable(out[converted + 1]), out' = out
  PROVE  /\ \A k \in 1..(converted + 1) : Drawn(k)'
         /\ Len(prof'.samples) = 2 * (converted + 1)
<1> DEFINE c == converted
           s == prof.samples
           N == Len(prof.nodes)
           t == prof'.samples
<1>1. c \in Nat /\ Len(s) = 2 * c /\ s \in Seq(Int) /\ prof.nodes \in Seq(NodeSet)
  <2>1. c \in Nat BY DEF TypeInv
  <2>2. prof \in ProfSet BY DEF ChartInv, TreeInv
  <2>3. s \in Seq(Nat) /\ prof.nodes \in Seq(NodeSet) BY <2>2 DEF ProfSet
  <2> QED BY <2>1, <2>3 DEF ChartInv, SamplesInv
<1>2. cells \in Seq(CellSet) /\ Len(cells) > 0 /\ out[c + 1].number \in Int BY DEF Drawable, LineSet
<1>3. t = s \o <<N + Len(cells), 2>> BY DEF Grows
<1>4. N \in Nat /\ Len(cells) \in Nat BY <1>1, <1>2
<1>5. /\ \A first \in Nat : \A cs : IsStack(first, cs) => IsStack(first, cs)'
      /\ \A first \in Nat : first = NodeId => IsStack(first, cells)'
  BY <1>2, StacksGrow DEF ChartInv
<1>6. \A k \in 1..c : Drawn(k) BY DEF ChartInv, SamplesInv
<1> HIDE DEF s, t, N
<1>7. /\ Len(t) = 2 * c + 2
      /\ \A n \in 1..(2 * c) : t[n] = s[n]
      /\ t[2 * c + 1] = N + Len(cells) /\ t[2 * c + 2] = 2
  <2> DEFINE m == N + Len(cells)
  <2>1. m \in Int /\ 2 \in Int BY <1>4
  <2>2. t = s \o <<m, 2>> BY <1>3
  <2> HIDE DEF m
  <2>3. Longer(s, t, c, m, 2) BY <1>1, <2>1, <2>2, PairAdded
  <2>4. Len(t) = 2 * c + 2 /\ (\A n \in 1..(2 * c) : t[n] = s[n]) /\ t[2 * c + 1] = m /\ t[2 * c + 2] = 2
    BY <2>3, Zenon DEF Longer
  <2> QED BY <2>4 DEF m
<1>8. ASSUME NEW k \in 1..(c + 1) PROVE Drawn(k)'
  <2>1. CASE k = c + 1
    <3>1. 2 * k - 1 = 2 * c + 1 /\ 2 * k = 2 * c + 2 BY <1>1, <2>1
    <3>2. NodeId \in Nat /\ NodeId = N + 1 BY <1>4 DEF NodeId, N
    <3>3. PICK first \in Nat : first = NodeId BY <3>2
    <3>4. IsStack(first, cells)' BY <1>5, <3>3
    <3>5. t[2 * k - 1] = first + (Len(cells) - 1) BY <1>4, <1>7, <3>1, <3>2, <3>3
    <3>6. Cells(out[k].text)' = cells BY <2>1
    <3>7. t[2 * k] = 2 BY <1>7, <3>1
    <3> QED BY <3>4, <3>5, <3>6, <3>7 DEF Drawn, t
  <2>2. CASE k # c + 1
    <3>1. k \in 1..c /\ 2 * k - 1 \in 1..(2 * c) /\ 2 * k \in 1..(2 * c) BY <1>1, <2>2
    <3>2. PICK first \in Nat :
            /\ IsStack(first, Cells(out[k].text))
            /\ s[2 * k - 1] = first + (Len(Cells(out[k].text)) - 1)
      BY <1>6, <3>1 DEF Drawn, s
    <3>3. IsStack(first, Cells(out[k].text))' BY <1>5, <3>2
    <3>4. s[2 * k] = 2 BY <1>6, <3>1 DEF Drawn, s
    <3>5. Cells(out[k].text)' = Cells(out[k].text) OBVIOUS
    <3> QED BY <1>7, <3>1, <3>2, <3>3, <3>4, <3>5 DEF Drawn, t
  <2> QED BY <2>1, <2>2
<1>9. Len(t) = 2 * (c + 1) BY <1>1, <1>7
<1> QED BY <1>8, <1>9 DEF t

\* Every step keeps the chart that of the lines converted so far.
LEMMA ChartKept ==
  ASSUME TypeInv, ChartInv, [Next]_vars
  PROVE  ChartInv'
<1>1. ASSUME prof' = prof, converted' = converted, converted = 0 \/ out' = out
      PROVE  TreeInv' /\ SamplesInv'
  <2>1. Starts' = Starts /\ NodeId' = NodeId BY <1>1 DEF Starts, NodeId
  <2>2. TreeInv' BY <1>1, <2>1 DEF ChartInv, TreeInv
  <2>3. SamplesInv'
    <3>1. CASE converted = 0
      <4>1. 1..converted = {} BY <3>1
      <4> QED BY <1>1, <3>1, <4>1 DEF ChartInv, SamplesInv
    <3>2. CASE out' = out
      <4>1. \A first, cs : IsStack(first, cs)' <=> IsStack(first, cs) BY <1>1, <2>1 DEF IsStack
      <4>2. \A k : (Drawn(k)' <=> Drawn(k)) /\ (Timed(k)' <=> Timed(k))
        BY <1>1, <3>2, <4>1 DEF Drawn, Timed
      <4> QED BY <1>1, <3>2, <4>2 DEF ChartInv, SamplesInv
    <3> QED BY <1>1, <3>1, <3>2
  <2> QED BY <2>2, <2>3
<1>2. CASE CreateNode
  <2> DEFINE line == out[converted + 1]
             cells == Cells(line.text)
  <2>1. converted \in Nat /\ converted < Len(out) /\ Len(out) \in Nat /\ pc = "convert"
        /\ pc' = pc /\ out' = out /\ converted' = converted + 1
    <3>1. out \in Seq(LineSet) /\ converted \in 0..Len(out) BY DEF TypeInv
    <3>2. converted < Len(out) /\ pc = "convert" /\ pc' = pc /\ out' = out /\ converted' = converted + 1
      BY <1>2, Zenon DEF CreateNode
    <3>3. Len(out) \in Nat BY <3>1
    <3> QED BY <3>1, <3>2, <3>3
  <2>2. Drawable(line) /\ Grows(cells, line.number) BY <1>2, NodeGrows
  <2>3. \A k \in 1..Len(out) : Drawable(out[k]) BY <2>1 DEF ChartInv, LinesInv
  <2>4. cells \in Seq(CellSet) /\ Len(cells) > 0 /\ line.number \in Int BY <2>2 DEF Drawable, LineSet
  <2>5. TreeInv' BY <2>2, <2>4, TreeGrows DEF ChartInv
  <2>6. (\A k \in 1..(converted + 1) : Timed(k)') /\ Len(prof'.timeDeltas) = 2 * (converted + 1)
    <3>1. converted + 1 \in 1..Len(out) BY <2>1
    <3> QED BY <2>1, <2>2, <2>3, <3>1, TimesGrow
  <2>7. (\A k \in 1..(converted + 1) : Drawn(k)') /\ Len(prof'.samples) = 2 * (converted + 1)
    BY <2>1, <2>2, DrawnGrow
  <2>8. prof'.prev_ts = line.number BY <2>2 DEF Grows
  <2>9. SamplesInv'
    <3>1. converted + 1 # 0 BY <2>1
    <3> QED BY <2>1, <2>6, <2>7, <2>8, <3>1 DEF SamplesInv
  <2>10. LinesInv' BY <2>1, <2>3 DEF LinesInv, Drawable
  <2> QED BY <2>5, <2>9, <2>10 DEF ChartInv
<1>3. CASE Finish
  <2>1. prof' = prof /\ converted' = converted /\ converted = 0 BY <1>3 DEF Finish, profVars, TypeInv
  <2>2. LinesInv'
    <3> SUFFICES ASSUME pc' = "convert" PROVE \A k \in 1..Len(out') : Drawable(out'[k])
      BY DEF LinesInv, Drawable
    <3>1. opts.ts BY <1>3 DEF Finish
    <3>2. CASE out' = <<>> BY <3>2
    <3>3. CASE out' = PrintFramesTS
      <4>1. call_stacks \in Seq(EntrySet) BY DEF TypeInv
      <4>2. Len(PrintFramesTS) = Len(call_stacks) BY ReportIsLines
      <4>3. \A k \in 1..Len(call_stacks) : PrintFramesTS[k] = TsLine(call_stacks[k])
        BY <4>1 DEF PrintFramesTS
      <4>4. \A k \in 1..Len(call_stacks) : call_stacks[k] \in EntrySet BY <4>1
      <4> QED BY <3>3, <4>2, <4>3, <4>4, LinesAreDrawable
    <3> QED BY <1>3, <3>1, <3>2, <3>3 DEF Finish
  <2> QED BY <1>1, <2>1, <2>2 DEF ChartInv
<1>4. CASE Parse \/ Begin \/ Sample \/ SampleFails \/ SampleThrows \/ ConvertEnd \/ UNCHANGED vars
  <2>1. prof' = prof /\ converted' = converted /\ out' = out
    <3>1. CASE Sample BY <3>1, Zenon DEF Sample, profVars
    <3>2. CASE SampleFails \/ SampleThrows \/ ConvertEnd BY <3>2 DEF SampleFails, SampleThrows, ConvertEnd, profVars
    <3>3. CASE Parse \/ Begin BY <3>3 DEF Parse, Begin, profVars
    <3>4. CASE UNCHANGED vars BY <3>4 DEF vars, profVars
    <3> QED BY <1>4, <3>1, <3>2, <3>3, <3>4
  <2>2. pc' = "convert" => pc = "convert"
    <3>1. CASE Sample BY <3>1, Zenon DEF Sample
    <3>2. CASE SampleFails \/ SampleThrows \/ ConvertEnd BY <3>2 DEF SampleFails, SampleThrows, ConvertEnd
    <3>3. CASE Parse \/ Begin BY <3>3 DEF Parse, Begin
    <3>4. CASE UNCHANGED vars BY <3>4 DEF vars
    <3> QED BY <1>4, <3>1, <3>2, <3>3, <3>4
  <2>3. LinesInv' BY <2>1, <2>2 DEF ChartInv, LinesInv, Drawable
  <2> QED BY <1>1, <2>1, <2>3 DEF ChartInv
<1> QED BY <1>2, <1>3, <1>4 DEF Next, Terminated

\* What is above a node.
Up(id) == IF id = 2 \/ id \in Starts THEN 1 ELSE id - 1

\* A node but the root has one parent: the root where a stack begins, and
\* for the idle node; the node before it for the others.
LEMMA ParentsAre ==
  ASSUME TreeInv
  PROVE  \A id \in 2..Len(prof.nodes) : Parents(id) = {Up(id)} /\ Up(id) \in 1..(id - 1)
<1> DEFINE N == Len(prof.nodes)
           Leads(p, id) == \E k \in DOMAIN prof.nodes[p].children : prof.nodes[p].children[k] = id
<1>1. prof.nodes \in Seq(NodeSet) /\ N \in Nat /\ N >= 2 /\ DOMAIN prof.nodes = 1..N
  BY DEF TreeInv, ProfSet
<1>2. Starts \subseteq 3..(N + 1) /\ 3 \in Starts BY DEF TreeInv, NodeId
<1>3. ASSUME NEW id \in 2..N PROVE Up(id) \in 1..(id - 1) /\ Up(id) # 2
  <2>1. id # 2 /\ id \notin Starts => id > 3 BY <1>1, <1>2
  <2> QED BY <1>1, <2>1 DEF Up
<1>4. ASSUME NEW id \in 2..N PROVE Leads(1, id) <=> Up(id) = 1
  <2> DEFINE c == prof.nodes[1].children
  <2>1. c \in Seq(Nat) /\ Len(c) >= 1 /\ c[1] = 2
    <3>1. prof.nodes[1] \in NodeSet BY <1>1
    <3> QED BY <3>1 DEF NodeSet, TreeInv
  <2>2. DOMAIN c = 1..Len(c) /\ Len(c) \in Nat BY <2>1
  <2>3. 1..Len(c) = {1} \cup (2..Len(c)) BY <2>1, <2>2
  <2>4. (\E k \in 2..Len(c) : c[k] = id) <=> id \in Starts
    <3>1. id # N + 1 BY <1>1
    <3> QED BY <3>1 DEF Starts, NodeId
  <2>5. Leads(1, id) <=> id = 2 \/ id \in Starts
    <3> HIDE DEF c
    <3>1. (\E k \in DOMAIN c : c[k] = id) <=> (c[1] = id \/ \E k \in 2..Len(c) : c[k] = id) BY <2>2, <2>3
    <3>2. (\E k \in DOMAIN c : c[k] = id) <=> (id = 2 \/ id \in Starts) BY <2>1, <2>4, <3>1
    <3> QED BY <3>2 DEF c
  <2>6. id # 2 => id - 1 # 1 BY <1>1
  <2> QED BY <2>5, <2>6 DEF Up
<1>5. ASSUME NEW id \in 2..N, NEW p \in 3..N PROVE Leads(p, id) <=> Up(id) = p
  <2>1. prof.nodes[p].children = IF p + 1 \in Starts THEN <<>> ELSE <<p + 1>> BY DEF TreeInv
  <2>2. Leads(p, id) <=> (p + 1 \notin Starts /\ p + 1 = id)
    <3>1. CASE p + 1 \in Starts BY <2>1, <3>1
    <3>2. CASE p + 1 \notin Starts
      <4>1. prof.nodes[p].children = <<p + 1>> BY <2>1, <3>2
      <4>2. DOMAIN <<p + 1>> = {1} /\ <<p + 1>>[1] = p + 1 OBVIOUS
      <4> QED BY <3>2, <4>1, <4>2
    <3> QED BY <3>1, <3>2
  <2>3. Up(id) = p <=> (p + 1 \notin Starts /\ p + 1 = id) BY <1>1 DEF Up
  <2> QED BY <2>2, <2>3
<1>6. ASSUME NEW id \in 2..N PROVE Parents(id) = {Up(id)}
  <2>1. Parents(id) = {p \in 1..N : Leads(p, id)} \ {2} BY <1>1 DEF Parents, IDLE_NODE_ID
  <2>2. \A p \in 1..N : p = 1 \/ p = 2 \/ p \in 3..N BY <1>1
  <2>3. Up(id) \in 1..N /\ Up(id) # 2 BY <1>1, <1>3
  <2>4. 1 \in 1..N BY <1>1
  <2> HIDE DEF Leads
  <2>5. \A p \in 1..N : p # 2 => (Leads(p, id) <=> Up(id) = p) BY <1>4, <1>5, <2>2
  <2> QED BY <2>1, <2>3, <2>5
<1> QED BY <1>3, <1>6

\* A solution of the equation of PathTo.
PathEq(g, n) ==
  g = [id \in 1..n |-> IF id = 1 THEN <<>>
                       ELSE Append(g[CHOOSE p \in Parents(id) : TRUE], prof.nodes[id].name)]

\* The path to a node is that to what is above it, and its name.
LEMMA PathIs ==
  ASSUME TreeInv
  PROVE  /\ PathTo[1] = <<>>
         /\ \A id \in 2..Len(prof.nodes) : PathTo[id] = Append(PathTo[Up(id)], prof.nodes[id].name)
<1> DEFINE N == Len(prof.nodes)
           S == {m \in Nat : m <= N => \E g : PathEq(g, m)}
<1>1. N \in Nat /\ N >= 2 /\ DOMAIN prof.nodes = 1..N BY DEF TreeInv, ProfSet
<1>2. ASSUME NEW id \in 2..N
      PROVE  (CHOOSE p \in Parents(id) : TRUE) = Up(id) /\ Up(id) \in 1..(id - 1)
  BY ParentsAre
<1>3. 0 \in S
  <2>1. PathEq([id \in 1..0 |-> <<>>], 0) BY DEF PathEq
  <2> QED BY <2>1
<1>4. ASSUME NEW m \in Nat, m \in S PROVE m + 1 \in S
  <2> SUFFICES ASSUME m + 1 <= N PROVE \E g : PathEq(g, m + 1) OBVIOUS
  <2>1. PICK g : PathEq(g, m) BY <1>1, <1>4
  <2> DEFINE Following(f, id) == IF id = 1 THEN <<>>
                             ELSE Append(f[CHOOSE p \in Parents(id) : TRUE], prof.nodes[id].name)
             h == [id \in 1..(m + 1) |-> IF id <= m THEN g[id] ELSE Following(g, id)]
  <2>2. \A id \in 1..m : g[id] = Following(g, id) BY <2>1 DEF PathEq
  <2>3. ASSUME NEW id \in 1..(m + 1) PROVE h[id] = Following(h, id)
    <3>1. CASE id = 1
      <4>1. CASE m = 0 BY <3>1, <4>1
      <4>2. CASE m # 0
        <5>1. 1 \in 1..m /\ 1 \in 1..(m + 1) BY <4>2
        <5>2. g[1] = <<>> BY <2>2, <5>1
        <5>3. h[1] = g[1] BY <5>1
        <5> QED BY <3>1, <5>2, <5>3
      <4> QED BY <4>1, <4>2
    <3>2. CASE id # 1
      <4>1. id \in 2..N BY <1>1, <3>2
      <4> DEFINE p == CHOOSE p \in Parents(id) : TRUE
      <4>2. p \in 1..(id - 1) BY <1>2, <4>1
      <4> HIDE DEF p
      <4>3. p \in 1..m /\ p \in 1..(m + 1) BY <4>2
      <4>4. h[p] = g[p] BY <4>3
      <4>5. h[id] = Append(g[p], prof.nodes[id].name)
        <5>1. CASE id <= m
          <6>1. h[id] = g[id] /\ id \in 1..m BY <5>1
          <6>2. g[id] = Following(g, id) BY <2>2, <6>1
          <6> QED BY <3>2, <6>1, <6>2 DEF p
        <5>2. CASE ~(id <= m) BY <3>2, <5>2 DEF p
        <5> QED BY <5>1, <5>2
      <4>6. Following(h, id) = Append(h[p], prof.nodes[id].name) BY <3>2 DEF p
      <4> HIDE DEF h, Following
      <4> QED BY <4>4, <4>5, <4>6
    <3> QED BY <3>1, <3>2
  <2>4. PathEq(h, m + 1)
    <3>1. h = [id \in 1..(m + 1) |-> h[id]] OBVIOUS
    <3> HIDE DEF h
    <3> QED BY <2>3, <3>1, Zenon DEF PathEq
  <2> QED BY <2>4
<1> HIDE DEF S
<1>5. Nat \subseteq S BY <1>3, <1>4, SetInduction
<1>6. \E g : PathEq(g, N) BY <1>1, <1>5 DEF S
<1>7. PathTo = CHOOSE g : PathEq(g, N) BY <1>1, Zenon DEF PathTo, PathEq
<1>8. PathEq(PathTo, N) BY <1>6, <1>7
<1>9. PathTo[1] = <<>>
  <2>1. 1 \in 1..N BY <1>1
  <2> QED BY <1>8, <2>1 DEF PathEq
<1>10. ASSUME NEW id \in 2..N PROVE PathTo[id] = Append(PathTo[Up(id)], prof.nodes[id].name)
  <2>1. id \in 1..N /\ id # 1 BY <1>1
  <2>2. PathTo[id] = Append(PathTo[CHOOSE p \in Parents(id) : TRUE], prof.nodes[id].name)
    BY <1>8, <2>1 DEF PathEq
  <2> QED BY <1>2, <2>2
<1> QED BY <1>9, <1>10

\* The path to the last node of a stack is the stack.
LEMMA PathOfStack ==
  ASSUME TreeInv, NEW first \in Nat, NEW cells, IsStack(first, cells)
  PROVE  PathTo[first + (Len(cells) - 1)] = cells
<1> DEFINE N == Len(prof.nodes)
           L == Len(cells)
           S == {i \in Nat : i < L => PathTo[first + i] = SubSeq(cells, 1, i + 1)}
<1>1. N \in Nat /\ N >= 2 BY DEF TreeInv, ProfSet
<1>2. cells \in Seq(CellSet) /\ L \in Nat /\ L > 0 /\ first \in Starts /\ first + L <= N + 1
  BY DEF IsStack, NodeId
<1>3. first >= 3 BY <1>2 DEF TreeInv
<1>4. \A i \in 0..(L - 1) :
        prof.nodes[first + i].name = cells[i + 1] /\ (i > 0 => first + i \notin Starts)
  BY DEF IsStack
<1>5. \A i \in 0..(L - 1) : first + i \in 2..N BY <1>1, <1>2, <1>3
<1>6. \A i \in 0..(L - 1) : PathTo[first + i] = Append(PathTo[Up(first + i)], cells[i + 1])
  BY <1>4, <1>5, PathIs
<1>7. 0 \in S
  <2>1. 0 \in 0..(L - 1) /\ first + 0 = first BY <1>2
  <2>2. Up(first) = 1 BY <1>2 DEF Up
  <2>3. PathTo[first] = Append(<<>>, cells[0 + 1]) BY <1>6, <2>1, <2>2, PathIs
  <2>4. SubSeq(cells, 1, 0 + 1) = <<cells[1]>>
    <3> DEFINE s == SubSeq(cells, 1, 1)
    <3>1. 1 \in 1..L /\ cells[1] \in CellSet BY <1>2
    <3>2. s \in Seq(CellSet) /\ Len(s) = 1 /\ s[1] = cells[1] BY <1>2, <3>1
    <3> HIDE DEF s
    <3>3. s = <<s[1]>> BY <3>2
    <3> QED BY <3>2, <3>3 DEF s
  <2>5. Append(<<>>, cells[1]) = <<cells[1]>> OBVIOUS
  <2> QED BY <2>1, <2>3, <2>4, <2>5
<1>8. ASSUME NEW i \in Nat, i \in S PROVE i + 1 \in S
  <2> SUFFICES ASSUME i + 1 < L PROVE PathTo[first + (i + 1)] = SubSeq(cells, 1, (i + 1) + 1)
    OBVIOUS
  <2>1. i < L /\ i + 1 \in 0..(L - 1) /\ i + 1 > 0 BY <1>2
  <2>2. PathTo[first + i] = SubSeq(cells, 1, i + 1) BY <1>8, <2>1
  <2>3. Up(first + (i + 1)) = first + i
    <3>1. first + (i + 1) \notin Starts
      <4> DEFINE j == i + 1
      <4> HIDE DEF j
      <4>1. j \in 0..(L - 1) /\ j > 0 BY <2>1 DEF j
      <4>2. first + j \notin Starts BY <1>4, <4>1
      <4> QED BY <4>2 DEF j
    <3>3. first + (i + 1) # 2 BY <1>3
    <3>2. (first + (i + 1)) - 1 = first + i OBVIOUS
    <3> QED BY <3>1, <3>2, <3>3 DEF Up
  <2>4. PathTo[first + (i + 1)] = Append(SubSeq(cells, 1, i + 1), cells[(i + 1) + 1])
    BY <1>6, <2>1, <2>2, <2>3
  <2>5. Append(SubSeq(cells, 1, i + 1), cells[(i + 1) + 1]) = SubSeq(cells, 1, (i + 1) + 1)
    <3> DEFINE j == i + 1
    <3>1. j \in Nat /\ j + 1 \in 1..L BY <1>2, <2>1
    <3> HIDE DEF j, L
    <3>2. Append(SubSeq(cells, 1, j), cells[j + 1]) = SubSeq(cells, 1, j + 1) BY <1>2, <3>1 DEF L
    <3> QED BY <3>2 DEF j
  <2> QED BY <2>4, <2>5
<1> HIDE DEF S
<1>9. Nat \subseteq S BY <1>7, <1>8, SetInduction
<1>10. L - 1 \in Nat /\ L - 1 < L /\ (L - 1) + 1 = L BY <1>2
<1>11. PathTo[first + (L - 1)] = SubSeq(cells, 1, L)
  <2>1. L - 1 \in S BY <1>9, <1>10
  <2> QED BY <1>10, <2>1 DEF S
<1>12. SubSeq(cells, 1, L) = cells BY <1>2
<1> QED BY <1>11, <1>12

\* The chart is that of the report, for any report with timestamps: each
\* sample leads to its stack, at its time, in a tree.
THEOREM ChartIsRight == Spec => []ChartRight
<1>1. Init => OptionsInv /\ TypeInv /\ ChartInv BY BeginsTyped, ChartBegins
<1>2. OptionsInv /\ TypeInv /\ ChartInv /\ [Next]_vars => (OptionsInv /\ TypeInv /\ ChartInv)'
  BY ReportKeepsOptions, TypesKept, ChartKept
<1>3. ChartInv => ChartRight
  <2> SUFFICES ASSUME ChartInv PROVE ChartRight OBVIOUS
  <2>1. TreeInv /\ SamplesInv BY DEF ChartInv
  <2>2. \A id \in 2..Len(prof.nodes) : \E p \in 1..(id - 1) : Parents(id) = {p}
    BY <2>1, ParentsAre
  <2>3. ASSUME NEW k \in 1..converted
        PROVE  /\ PathTo[prof.samples[2 * k - 1]] = Cells(out[k].text)
               /\ TimeOf(2 * k - 1) = out[k].number - out[1].number
               /\ prof.samples[2 * k] = IDLE_NODE_ID
    <3>1. Drawn(k) /\ Timed(k) BY <2>1 DEF SamplesInv
    <3>2. PICK first \in Nat :
            /\ IsStack(first, Cells(out[k].text))
            /\ prof.samples[2 * k - 1] = first + (Len(Cells(out[k].text)) - 1)
      BY <3>1 DEF Drawn
    <3>3. PathTo[prof.samples[2 * k - 1]] = Cells(out[k].text) BY <2>1, <3>2, PathOfStack
    <3> QED BY <3>1, <3>3 DEF Drawn, Timed, TimeOf, IDLE_NODE_ID
  <2> QED BY <2>2, <2>3 DEF ChartRight
<1> QED BY <1>1, <1>2, <1>3, PTL DEF Spec
=============================================================================
