------------------------------ MODULE MCInput ------------------------------
(* A letter and an extended modifier, in both scan sets. *)
EXTENDS Input

Key(c, e) == [code |-> c, ext |-> e]
Packets(sound, overflowed) == [hdr |-> sound, ovf |-> overflowed]
MCEvents == [direct |-> 3, events |-> 1]
MCPackets == [direct |-> Packets(1, 0), events |-> Packets(2, 1)]
MCPresent == [direct |-> {TRUE}, events |-> BOOLEAN]
MCKeys == {Key("a", FALSE), Key("alt", TRUE)}
=============================================================================
