---------------------------- MODULE MCSuperFlag ----------------------------
(* SuperFlag with option values written as character sequences: an empty  *)
(* value ("k="), "1", a zero-padded number, a negative number and a       *)
(* hexadecimal one.                                                         *)
EXTENDS SuperFlag

MCVals == {<<>>, <<"1">>, <<"0", "1", "0">>, <<"-", "1">>, <<"0", "x", "1">>}
=============================================================================
