--------------------------- MODULE MCTreeStorage ---------------------------
(* Substitutions that remove, relabel, add unknown nodes, add two levels,  *)
(* and add siblings; a tree of two nodes to copy. Values are left to be  *)
(* predicted, as SubstituteNodeType leaves them.                           *)
EXTENDS LocalTrees

Entry(child, right) ==
  [type |-> 1, value |-> 1, first_child |-> child, right_sib |-> right]

MCSubstitutions ==
  {<<>>,
   << Entry(-1, -2) >>,
   << Entry(1, -1), Entry(-1, 2), Entry(-2, -2) >>,
   << Entry(-2, 1), Entry(-1, -1) >>}

MCSingleNodes == {Entry(-1, -1), Entry(-2, -2)}
MCTypes == {-1, 1}

\* The storage after SubstituteNode(0, ...), as the tests build trees.
MCOtherStores ==
  {SubstituteNode(OneNode(FirstNode), 0, << Entry(1, -1), Entry(-2, -1) >>)}
=============================================================================
