---------------------------- MODULE MCConfigMerge ----------------------------
(* Instances of ConfigMerge for TLC. *)
EXTENDS ConfigMerge

Content(lans, wans, rows) == [lans |-> lans, wans |-> wans, rows |-> rows, there |-> TRUE]
R(id, key, copies) == [id |-> id, key |-> key, copies |-> copies]

MCId == {1, 2, 3}
MCName == {"a", "b", "c", "d", "x", "y", "z"}
MCKey == {"k", "l", "m", "n", "none"}

\* Interfaces shared and not, more than fit; bypass and shared keys, rows of
\* several policies, row ids beyond the wire's, and rows of one policy each.
MCContents ==
  << {Content(<<"a", "b">>, <<"x">>, <<R(2, "k", 1), R(3, "l", 1)>>),
      Content(<<"a">>, <<"x", "y">>, <<R(1, "none", 1), R(2, "k", 2), R(3, "k", 1)>>)},
     {Content(<<"c", "a">>, <<"y", "x">>, <<R(4, "k", 1), R(5, "m", 1)>>),
      Content(<<"b">>, <<"x">>, <<R(4, "l", 1), R(5, "none", 1), R(9, "k", 1)>>),
      Content(<<"c">>, <<"z", "y">>, <<R(5, "n", 3)>>)},
     {Content(<<"b", "c">>, <<"z">>, <<R(1, "n", 1)>>),
      Content(<<"d">>, <<"x">>, <<>>)} >>

=============================================================================
