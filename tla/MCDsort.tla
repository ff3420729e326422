------------------------------ MODULE MCDsort ------------------------------
(***************************************************************************)
(* An instance of Dsort: two lines that differ in case only and a third    *)
(* one; what the commands print together may exceed the pipe.              *)
(***************************************************************************)
EXTENDS Dsort

MCLines   == {"A", "a", "b"}
MCRank    == [l \in MCLines |-> IF l = "b" THEN 2 ELSE 1]
MCOutputs == {<<>>, <<"a">>, <<"b", "A">>, <<"a", "b">>, <<"A", "b", "A">>}
=============================================================================
