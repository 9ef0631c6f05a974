---------------------------- MODULE MCMapReduce ----------------------------
(***************************************************************************)
(* MapReduce.tla over all small inputs of every type.                      *)
(***************************************************************************)
EXTENDS MapReduce

MCTexts == BoundedSeq({<<>>, <<"a">>, <<"b">>, <<"a", "b">>}, 4) \ {<<>>}
MCArrays == BoundedSeq(0..2, 4) \union {<<3, 1, 2, 1, 0>>, <<1, 1, 1, 1, 1, 1, 0>>}
MCRows == BoundedSeq({0, 2}, 2) \ {<<>>}
MCLefts == BoundedSeq(MCRows, 3)
MCRights == {<<>>, <<<<3>>>>, <<<<1, 2>>, <<3, 4>>>>, <<<<5>>, <<7, 0>>>>, <<<<5, 1>>, <<7>>>>}
MCLines == BoundedSeq(BOOLEAN, 5) \ {<<>>}
MCFroms == {-3, -1, 0, 1, 2, 3, 23}
MCTos == (-1)..50
MCCharsets == {<<"a">>, <<"a", "b">>, <<"a", "b", "a">>, <<"a", "b", "c", "d">>}
MCHashes == {<<>>, <<"a">>, <<"b">>, <<"d">>, <<"z">>, <<"b", "a">>, <<"c", "d">>,
             <<"b", "a", "b">>}
=============================================================================
