---------------------------- MODULE MCComProtocol ----------------------------
(***************************************************************************)
(* Instances of ComProtocol for TLC.                                       *)
(***************************************************************************)
EXTENDS ComProtocol

CONSTANTS i1, i2, v1, v2, other

OneItem == {i1}
TwoItems == {i1, i2}
OneValue == {v1}
TwoValues == {v1, v2}
OneOther == {other}
NoOther == {}
NoItems == {}

\* The machine stores every value, or every value but v2 in i1.
AcceptsAll == Items \X Values
AcceptsMost == (TwoItems \X TwoValues) \ {<<i1, v2>>}
=============================================================================
