-------------------------- MODULE MCTreeComparison --------------------------
(* Pairs of canonical trees: all labellings up to MaxLabelled nodes, and   *)
(* all shapes up to MaxNodes nodes with one label.                         *)
EXTENDS TreeComparison, TreeUniverse
CONSTANTS MaxLabelled, MaxNodes

MCLabels == {<<0, -1>>, <<0, 5>>, <<1, 5>>}
MCTrees == TreesUpTo(MaxLabelled, MCLabels) \union TreesUpTo(MaxNodes, {<<0, 5>>})
=============================================================================
