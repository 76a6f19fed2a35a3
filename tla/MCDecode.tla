------------------------------ MODULE MCDecode ------------------------------
(* Instances of Decode for TLC: names of the characters at which the       *)
(* encoding changes, and tables whose steps take no, one or several pairs. *)
EXTENDS Decode

Borders == {0, 65, 127, 128, 255, 256, 2047, 2048, 55424, 65535, 65536, 1114111}
Names == SeqOf(Borders, 2) \cup {<<65, c, d>> : c, d \in {127, 128, 2048, 65536}}

Object(py2, chars, steps, lasti, traced, signed) ==
  [py2 |-> py2, chars |-> chars, steps |-> steps, first |-> 5, lasti |-> lasti,
   traced |-> traced, signed |-> signed]

\* Below, at and above what one pair can count, and twice that.
Sizes == {1, MaxByte, MaxByte + 1, 2 * MaxByte, 2 * MaxByte + 1}
Steps == SeqOf({0, 1, MaxByte, 2 * MaxByte + 1} \X Sizes, 2)
           \cup {<<<<2, 3>>, <<2, -1>>>>, <<<<1, 1>>, <<2, 1>>, <<1, 5>>>>}

MCObjects ==
  {Object(FALSE, chars, <<<<2, 1>>>>, 2, FALSE, FALSE) : chars \in Names} \cup
  {Object(TRUE, chars, <<<<2, 1>>>>, 2, FALSE, FALSE) : chars \in SeqOf({65, 195, 255}, 5)} \cup
  {Object(FALSE, <<65>>, steps, lasti, traced, signed) :
     steps \in Steps, lasti \in {-1, 0, 1, MaxByte, MaxByte + 1, 3 * MaxByte},
     traced, signed \in BOOLEAN}
=============================================================================
