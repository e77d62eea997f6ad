---------------------------- MODULE MCSerialLine ----------------------------
(* Parameters of the simulator, and its display, for model checking SerialLine. *)
EXTENDS SerialLine

MCStart == [i \in Items |-> 12]
MCLines == Items \cup {"command", "title", "names"}
MCValues == {-(WORD \div 2)}
=============================================================================
