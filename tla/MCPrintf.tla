------------------------------ MODULE MCPrintf ------------------------------
(***************************************************************************)
(* int has four bits and long eight, so that every argument of every       *)
(* directive can be tried.                                                 *)
(***************************************************************************)
EXTENDS Printf

MCChars   == [p \in {2} |-> "c"]
MCStrings == [p \in 1 .. LONG - 1 |-> IF p = 1 THEN <<"h", "i">> ELSE <<>>]

Words == 0 .. LONG - 1

Call(f, s) == [fmt |-> f, args |-> s]

Numbers == {<<"%", "d">>, <<"%", "l", "d">>, <<"%", "l", "l", "d">>, <<"%", "u">>,
            <<"%", "l", "u">>, <<"%", "x">>, <<"%", "X">>, <<"%", "l", "x">>, <<"%", "p">>}

MCCalls ==
  {Call(<<"=">> \o f \o <<"\n">>, <<v>>) : f \in Numbers, v \in Words}
    \cup {Call(<<"%", "c", "%", "s", "%", "s">>, <<2, 1, 0>>),
          Call(<<"%", "%", "l", "%", "l", "z", "%", "d">>, <<7>>),
          Call(<<>>, <<>>)}
=============================================================================
