------------------------------ MODULE MCProber ------------------------------
(* Instances of Prober for TLC: the command lines of each run.             *)
EXTENDS Prober

Lines(modes, idles, durations) ==
  [mode : modes, include_idle : idles, seconds : durations]

MCAttachOne == Lines({"attach"}, {"yes"}, {2})
MCTrace == Lines({"trace"}, {"yes"}, {-1})
MCDump == Lines({"dump"}, {"yes"}, {1})
MCOfEach == MCAttachOne \cup MCTrace \cup MCDump
MCAll == Lines({"attach"}, {"yes", "no"}, {-1, 0, 1, 3}) \cup MCTrace \cup MCDump
=============================================================================
