---------------------------- MODULE MCStringList ----------------------------
(* A string of the caller's and up to three items; at most four buffers of   *)
(* together six bytes, at addresses that are all alike.  States that differ *)
(* in the history variable alone are one state: the properties are about     *)
(* steps, and TLC looks at each step of it.                                  *)
EXTENDS StringList, TLC

MCLiteral == {<<>>, <<"a">>, <<"b">>}
Memory == <<string, buffer, node, head, tail, Length>>
Alike == Permutations(Address)
=============================================================================
