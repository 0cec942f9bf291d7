------------------------------ MODULE MCCJson ------------------------------
(***************************************************************************)
(* Few cells; names that differ in case only; a string with what has to be *)
(* escaped; a number beyond IntMax.                                        *)
(***************************************************************************)
EXTENDS CJson

MCSymmetry == Permutations(Node)

MCScalar == {[type |-> "Number", text |-> NoText, num |-> 12]}
MCName == {<<97, 34, 1>>}
MCAsked == {<<97, 34, 1>>, <<65, 34, 1>>}
MCNumber == {-3}
MCGiven == {<<91, 91, 91, 93, 93, 93>>, <<34, 97, 92, 34, 92, 117, 48, 48, 48, 49, 34>>}

=============================================================================
