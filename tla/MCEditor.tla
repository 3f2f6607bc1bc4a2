------------------------------ MODULE MCEditor ------------------------------
(* The editor on a grid of 2 by 2, a letter in both cases, one directory     *)
(* below the root and a file in it, with a carriage return.                  *)
EXTENDS Editor

MCCapitals == [A |-> "a"]
MCQueries == {<<"a">>, <<"A", "A">>}
MCTree == [root |-> {"sub"}, sub |-> {}]
MCInitDisk == [f \in {"root", "sub"} \X {"U", "F"} |->
                 IF f = <<"sub", "F">> THEN <<"cr", "nl", "A">> ELSE None]
=============================================================================
