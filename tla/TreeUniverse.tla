---------------------------- MODULE TreeUniverse ----------------------------
(***************************************************************************)
(* Every canonical tree with at most MaxNodes nodes and labels from a      *)
(* given set, for the model-checking modules. Nothing here models code.    *)
(***************************************************************************)
EXTENDS SyntaxTree

\* The parent functions of canonical trees: the parent of a node is the
\* previous node or one of its ancestors.
ParentFunctions(size) ==
  {par \in [0 .. size - 1 -> -1 .. size - 2] :
     /\ par[0] = -1
     /\ \A n \in 1 .. size - 1 :
          /\ 0 <= par[n] /\ par[n] < n
          /\ \A m \in par[n] + 1 .. n - 1 : par[m] >= par[n]}

Children(par, n) == {m \in DOMAIN par : par[m] = n}

Least(S)    == CHOOSE m \in S : \A n \in S : m <= n
Greatest(S) == CHOOSE m \in S : \A n \in S : n <= m
LeastOrNone(S)    == IF S = {} THEN -1 ELSE Least(S)
GreatestOrNone(S) == IF S = {} THEN -1 ELSE Greatest(S)

\* The tree with this shape and these labels, <<type, value>> per node.
TreeOf(par, label) ==
  [n \in DOMAIN par |->
     LET siblings == IF n = 0 THEN {0} ELSE Children(par, par[n]) IN
     [type        |-> label[n][1],
      value       |-> label[n][2],
      parent      |-> par[n],
      left_sib    |-> GreatestOrNone({m \in siblings : m < n}),
      right_sib   |-> LeastOrNone({m \in siblings : m > n}),
      first_child |-> LeastOrNone(Children(par, n)),
      last_child  |-> GreatestOrNone(Children(par, n)),
      child_index |-> Cardinality({m \in siblings : m < n})]]

TreesOfSize(size, labels) ==
  {TreeOf(par, label) :
     par \in ParentFunctions(size), label \in [0 .. size - 1 -> labels]}

TreesUpTo(size, labels) == UNION {TreesOfSize(n, labels) : n \in 1 .. size}
=============================================================================
