------------------------- MODULE MCOnDemandObjects --------------------------
(* Small instances of OnDemandObjects. *)
EXTENDS OnDemandObjects

\* {"x":{"y":a},"y":b}, [[a,b],c], {"x":[a]}, [[],{}], [] and {}
MCInputs == {<<"{", "x", ":", "{", "y", ":", "a", "}", ",", "y", ":", "b", "}">>,
             <<"[", "[", "a", ",", "b", "]", ",", "c", "]">>,
             <<"{", "x", ":", "[", "a", "]", "}">>,
             <<"[", "[", "]", ",", "{", "}", "]">>,
             <<"[", "]">>,
             <<"{", "}">>}

\* [a,b] and {"x":a,"y":b}
FlatInputs == {<<"[", "a", ",", "b", "]">>,
               <<"{", "x", ":", "a", ",", "y", ":", "b", "}">>}
=============================================================================
