------------------------------ MODULE MCReport ------------------------------
(* An instance of Report for TLC.                                          *)
EXTENDS Report

Option(name) == [name |-> name, arg |-> 0]
With(name, n) == [name |-> name, arg |-> n]

\* Profiles of every form of output, of process 1.
Forms ==
  {SetToSeq({Option(name) : name \in names}) \o <<With("-p", 1)>> :
     names \in SUBSET {"-x", "-n", "--flamechart"}}

\* The order of the options that tell what is traced, and what to ignore.
Words == {Option("-d"), Option("-t"), With("-s", 3), Option("--bad_number"),
          With("-p", 0), With("-p", 2), With("-p", 9), With("operand", 2)}
Mixed == SeqOf(Words, 3)
Single == {<<Option(name)>> : name \in {"-h", "-v", "--bad_abi", "--other"}}

\* Reports are told from each other by Forms; the others are only parsed.
MCCommandLines == Forms \cup Mixed \cup Single

f == [file |-> "a.py", name |-> "f", line |-> 1]
h == [file |-> "a.py", name |-> "<lambda>", line |-> 1]
g1 == [file |-> "a.py", name |-> "g", line |-> 2]
g2 == [file |-> "a.py", name |-> "g", line |-> 3]
MCNames == {"a.py", "f", "g", "<lambda>", "(failed)", "what"}
MCSamples == {<<>>, <<<<f>>>>, <<<<h>>>>, <<<<g1, f>>>>, <<<<g2, f>>, <<f>>>>}
=============================================================================
