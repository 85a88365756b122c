----------------------------- MODULE SyntaxTree -----------------------------
(***************************************************************************)
(* The nodes of a TreeStorage (phog/tree/tree.h) and the shape of a        *)
(* canonical tree: one whose node ids follow the depth-first left-to-right *)
(* order, which is what TreeStorage::Canonicalize produces and what        *)
(* TCondLanguage::ExecutionForTree asks for.                               *)
(*                                                                         *)
(* A tree is a function from node ids 0 .. n-1 (the vector nodes_) to node *)
(* records. Types and values are string-set indices (>= 0) or one of the   *)
(* two special labels.                                                     *)
(***************************************************************************)
EXTENDS Integers, FiniteSets

EMPTY_NODE_LABEL == -1    \* no label
UNKNOWN_LABEL    == -2    \* a label that is still to be predicted

TREEPOINTER_NO_VALUE == -1

TreeNode ==
  [type : Int, value : Int, parent : Int, left_sib : Int, right_sib : Int,
   first_child : Int, last_child : Int, child_index : Int]

EMPTY_NODE ==
  [type |-> EMPTY_NODE_LABEL, value |-> EMPTY_NODE_LABEL,
   parent |-> -1, left_sib |-> -1, right_sib |-> -1,
   first_child |-> -1, last_child |-> -1, child_index |-> -1]

\* TreeNode::Type, Value and HasNonTerminal.
Type(node)  == IF node.type  = UNKNOWN_LABEL THEN EMPTY_NODE_LABEL ELSE node.type
Value(node) == IF node.value = UNKNOWN_LABEL THEN EMPTY_NODE_LABEL ELSE node.value
HasNonTerminal(node) == node.type = UNKNOWN_LABEL \/ node.value = UNKNOWN_LABEL

-----------------------------------------------------------------------------
(***************************************************************************)
(* The link conditions of TreeStorage::CheckNodeConsistencyRecursive for a *)
(* storage that is not attached to a parent storage.                       *)
(***************************************************************************)
LinksConsistent(t, n) ==
  LET node == t[n] IN
  /\ node.parent      \in DOMAIN t \union {-1}
  /\ node.left_sib    \in DOMAIN t \union {-1}
  /\ node.right_sib   \in DOMAIN t \union {-1}
  /\ node.first_child \in DOMAIN t \union {-1}
  /\ node.last_child  \in DOMAIN t \union {-1}
  /\ node.parent >= 0 /\ node.left_sib < 0 => t[node.parent].first_child = n
  /\ node.left_sib < 0 => node.child_index = 0
  /\ node.left_sib >= 0 =>
       /\ t[node.left_sib].right_sib = n
       /\ t[node.left_sib].parent = node.parent
       /\ t[node.left_sib].child_index + 1 = node.child_index
  /\ node.right_sib >= 0 => t[node.right_sib].left_sib = n
  /\ node.parent >= 0 /\ node.right_sib < 0 => t[node.parent].last_child = n
  /\ node.first_child >= 0 =>
       t[node.first_child].parent = n /\ t[node.first_child].left_sib < 0
  /\ node.last_child >= 0 =>
       t[node.last_child].parent = n /\ t[node.last_child].right_sib < 0
  /\ (node.first_child >= 0) = (node.last_child >= 0)

\* Only the root has no parent, and the root has no siblings.
RootedAtZero(t) ==
  /\ 0 \in DOMAIN t
  /\ t[0].parent = -1 /\ t[0].left_sib = -1 /\ t[0].right_sib = -1
  /\ \A n \in DOMAIN t : n # 0 => t[n].parent >= 0

\* Ids follow the depth-first order: a first child comes right after its
\* parent, and a right sibling right after the subtree of its left sibling.
DepthFirstIds(t) ==
  \A n \in DOMAIN t :
    /\ t[n].parent < n
    /\ t[n].left_sib < n
    /\ t[n].first_child >= 0 => t[n].first_child = n + 1
    /\ t[n].last_child >= 0 => t[n].last_child > n
    /\ t[n].right_sib >= 0 => t[n].right_sib > n
    /\ \A m \in n + 1 .. t[n].right_sib - 1 : t[m].parent >= n

\* NumAllocatedNodes() is nodes_.size().
NumAllocatedNodes(t) == Cardinality(DOMAIN t)

CanonicalTree(t) ==
  /\ NumAllocatedNodes(t) \in Nat
  /\ t \in [0 .. NumAllocatedNodes(t) - 1 -> TreeNode]
  /\ \A n \in DOMAIN t : LinksConsistent(t, n)
  /\ RootedAtZero(t)
  /\ DepthFirstIds(t)

-----------------------------------------------------------------------------
(***************************************************************************)
(* A model predicts a tree node by node, for each node a type label, which *)
(* is a type, whether there is a child and whether there is a right        *)
(* sibling (TreeSubstitutionOnlyLabel), and a value label.                 *)
(***************************************************************************)
SameLabel(m, n) ==
  /\ m.type = n.type
  /\ m.value = n.value
  /\ (m.first_child # -1) = (n.first_child # -1)
  /\ (m.right_sib # -1) = (n.right_sib # -1)

\* Two trees are predicted alike up to the node b, and when the value of b
\* is predicted its type is known.
SameHistory(t, u, b, type_known) ==
  /\ b \in DOMAIN t
  /\ b \in DOMAIN u
  /\ \A n \in 0 .. b - 1 : SameLabel(t[n], u[n])
  /\ type_known => t[b].type = u[b].type

SamePlace(m, n) ==
  /\ m.parent = n.parent
  /\ m.left_sib = n.left_sib
  /\ m.child_index = n.child_index
=============================================================================
