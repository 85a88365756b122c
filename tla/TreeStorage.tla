---------------------------- MODULE TreeStorage ----------------------------
(***************************************************************************)
(* The operations of a TreeStorage (phog/tree/tree.h, tree.cpp) that       *)
(* change its tree: nodes linked by ids in a vector, with freed nodes to   *)
(* be used again. A storage is a pool (NodeVector) of tree nodes.          *)
(***************************************************************************)
EXTENDS NodeVector, SyntaxTree, SequencesExt

CONSTANTS
  Substitutions, SingleNodes, Types,  \* arguments of the operations
  OtherStores                         \* storages that are copied from

\* AddFirstNode.
FirstNode == [EMPTY_NODE EXCEPT !.type = UNKNOWN_LABEL, !.child_index = 0]

SetLabels(s, n, type, value) ==
  [s EXCEPT !.nodes[n] = [@ EXCEPT !.type = type, !.value = value]]

-----------------------------------------------------------------------------
(* Appending and removing nodes.                                           *)

\* A bug: the parent does not learn of its new last child.
AddLastNode_KeepsLast(s, n) ==
  LET id == AllocatedId(s)
      a == AllocateNode(s, n)
  IN [position |-> id,
      store |-> [a EXCEPT !.nodes = [m \in DOMAIN @ |->
        [@[m] EXCEPT !.right_sib   = IF m = n.left_sib THEN id ELSE @,
                     !.first_child = IF m = n.parent /\ @ < 0 THEN id ELSE @]]]]

\* The node n, whose left sibling and parent are set, becomes a last child.
AddLastNode(s, n) ==
  LET id == AllocatedId(s)
      a == AllocateNode(s, n)
  IN [position |-> id,
      store |-> [a EXCEPT !.nodes = [m \in DOMAIN @ |->
        [@[m] EXCEPT !.right_sib   = IF m = n.left_sib THEN id ELSE @,
                     !.first_child = IF m = n.parent /\ @ < 0 THEN id ELSE @,
                     !.last_child  = IF m = n.parent THEN id ELSE @]]]]

\* LocalTreeTraversal: where a cursor at n is after a move along a link, at n
\* itself when the move is not made.
LocalMove(s, n, link) == IF s.nodes[n][link] < 0 THEN n ELSE s.nodes[n][link]

\* Post-order: the subtrees of the right siblings come before the parent.
RECURSIVE DeepestFirst(_, _)
DeepestFirst(s, n) ==
  LET first == LocalMove(s, n, "first_child")
  IN IF first = n THEN n ELSE DeepestFirst(s, first)

PostOrderForward(s, n) ==
  LET right == LocalMove(s, n, "right_sib")
  IN IF right # n THEN DeepestFirst(s, right) ELSE LocalMove(s, n, "parent")

RECURSIVE DeallocateUntil(_, _, _)
DeallocateUntil(s, n, start) ==
  IF n = start THEN s
  ELSE DeallocateUntil(DeallocateNode(s, n), PostOrderForward(s, n), start)

RemoveNodeChildren(s, start) ==
  IF s.nodes[start].first_child < 0 THEN s
  ELSE DeallocateUntil(
         [s EXCEPT !.nodes[start] = [@ EXCEPT !.first_child = -1, !.last_child = -1]],
         DeepestFirst(s, s.nodes[start].first_child), start)

RemoveNode(s, n) ==
  LET r == RemoveNodeChildren(s, n)
      node == r.nodes[n]
      Unlinked == [r EXCEPT !.nodes = [m \in DOMAIN @ |->
        [@[m] EXCEPT !.first_child = IF m = node.parent /\ @ = n THEN -1 ELSE @,
                     !.last_child  = IF m = node.parent THEN node.left_sib ELSE @,
                     !.right_sib   = IF m = node.left_sib THEN -1 ELSE @]]]
  IN IF n = 0 THEN r ELSE DeallocateNode(Unlinked, n)

-----------------------------------------------------------------------------
(***************************************************************************)
(* LocalEpsTreeTraversal: a cursor in a storage that also stands at places *)
(* where a node could be added (position < 0, the node being eps). A node  *)
(* that has been given a type there is added when the cursor moves on. A   *)
(* move returns the cursor and whether it was made.                        *)
(***************************************************************************)
Traversal(s, n) == [store |-> s, position |-> n, eps |-> EMPTY_NODE]

NodeAt(c) == IF c.position < 0 THEN c.eps ELSE c.store.nodes[c.position]
IsEmpty(c) == NodeAt(c).type = EMPTY_NODE_LABEL

SetNodeAt(c, type, value) ==
  IF c.position < 0 THEN [c EXCEPT !.eps = [@ EXCEPT !.type = type, !.value = value]]
  ELSE [c EXCEPT !.store = SetLabels(@, c.position, type, value)]

\* write_node. An empty eps node is not added.
WriteNode(c) ==
  IF c.position >= 0 \/ IsEmpty(c) THEN c
  ELSE LET added == AddLastNode(c.store, c.eps)
       IN [c EXCEPT !.store = added.store, !.position = added.position]

EpsChild(c) == [EMPTY_NODE EXCEPT !.parent = c.position, !.child_index = 0]
EpsRightSibling(c) ==
  [EMPTY_NODE EXCEPT !.parent = NodeAt(c).parent, !.left_sib = c.position,
                     !.child_index = NodeAt(c).child_index + 1]

Moved(c) == [moved |-> TRUE, cursor |-> c]
Blocked(c) == [moved |-> FALSE, cursor |-> c]

DownFirstChild(c) ==
  IF IsEmpty(c) THEN Blocked(c)
  ELSE LET w == WriteNode(c)
           first == NodeAt(w).first_child
       IN Moved(IF first < 0 THEN [w EXCEPT !.eps = EpsChild(w), !.position = -1]
                ELSE [w EXCEPT !.position = first])

DownLastChild(c) ==
  IF IsEmpty(c) THEN Blocked(c)
  ELSE LET w == WriteNode(c)
           last == NodeAt(w).last_child
       IN Moved(IF last < 0 THEN [w EXCEPT !.eps = EpsChild(w), !.position = -1]
                ELSE [w EXCEPT !.position = last])

LeftOf(c) ==
  IF IsEmpty(c) THEN Blocked(c)
  ELSE LET w == WriteNode(c)
           left == NodeAt(w).left_sib
       IN IF left < 0 THEN Blocked(w) ELSE Moved([w EXCEPT !.position = left])

RightOf(c) ==
  IF IsEmpty(c) THEN Blocked(c)
  ELSE LET w == WriteNode(c)
           right == NodeAt(w).right_sib
       IN IF right >= 0 THEN Moved([w EXCEPT !.position = right])
          ELSE IF w.position = 0 THEN Blocked(w)
          ELSE Moved([w EXCEPT !.eps = EpsRightSibling(w), !.position = -1])

UpFrom(c) ==
  LET w == WriteNode(c)
      parent == NodeAt(w).parent
  IN IF parent < 0 THEN Blocked(w) ELSE Moved([w EXCEPT !.position = parent])

\* TreeIterator::pre_order_forward. An iterator is a cursor, or at the end.
RECURSIVE LeaveRight(_)
LeaveRight(c) ==
  LET right == RightOf(c)
      up == UpFrom(right.cursor)
  IN IF right.moved THEN [at_end |-> FALSE, cursor |-> right.cursor]
     ELSE IF up.moved THEN LeaveRight(up.cursor)
     ELSE [at_end |-> TRUE, cursor |-> up.cursor]

PreOrderForward(it) ==
  LET down == DownFirstChild(it.cursor)
  IN IF down.moved THEN [at_end |-> FALSE, cursor |-> down.cursor] ELSE LeaveRight(down.cursor)

Begin(c) == [at_end |-> FALSE, cursor |-> c]

-----------------------------------------------------------------------------
(* ConstLocalEpsTreeTraversal: a cursor that comes to the same places of a *)
(* storage that it does not change. At an eps node it can only go up.      *)

ConstEpsChild(c) == [EMPTY_NODE EXCEPT !.parent = c.position, !.child_index = 0]
ConstEpsRightSibling(c) ==
  LET node == NodeAt(c)
  IN [EMPTY_NODE EXCEPT !.parent = node.parent, !.left_sib = c.position,
                        !.child_index = node.child_index + 1]

\* At a node, or at an eps node that stands for one that is not there.
AtPlace(c, n, eps) == Moved(IF n < 0 THEN [c EXCEPT !.eps = eps, !.position = -1]
                            ELSE [c EXCEPT !.position = n])

ConstDownFirstChild(c) ==
  IF IsEmpty(c) THEN Blocked(c) ELSE AtPlace(c, NodeAt(c).first_child, ConstEpsChild(c))

ConstDownLastChild(c) ==
  IF IsEmpty(c) THEN Blocked(c) ELSE AtPlace(c, NodeAt(c).last_child, ConstEpsChild(c))

ConstRightOf(c) ==
  LET right == NodeAt(c).right_sib
  IN IF IsEmpty(c) \/ (c.position = 0 /\ right < 0) THEN Blocked(c)
     ELSE AtPlace(c, right, ConstEpsRightSibling(c))

ConstLeftOf(c) ==
  LET left == NodeAt(c).left_sib
  IN IF IsEmpty(c) \/ left < 0 THEN Blocked(c) ELSE Moved([c EXCEPT !.position = left])

ConstUpFrom(c) ==
  LET parent == NodeAt(c).parent
  IN IF parent < 0 THEN Blocked(c) ELSE Moved([c EXCEPT !.position = parent])

RECURSIVE ConstLeaveRight(_)
ConstLeaveRight(c) ==
  LET right == ConstRightOf(c)
      up == ConstUpFrom(c)
  IN IF right.moved THEN [at_end |-> FALSE, cursor |-> right.cursor]
     ELSE IF up.moved THEN ConstLeaveRight(up.cursor)
     ELSE [at_end |-> TRUE, cursor |-> c]

ReadForward(it) ==
  LET down == ConstDownFirstChild(it.cursor)
  IN IF down.moved THEN [at_end |-> FALSE, cursor |-> down.cursor] ELSE ConstLeaveRight(it.cursor)

\* Copies labels from one iterator to the other until the first is at its end.
RECURSIVE CopyLabels(_, _)
CopyLabels(read_it, write_it) ==
  IF read_it.at_end THEN write_it
  ELSE LET n == NodeAt(read_it.cursor)
           written == [write_it EXCEPT !.cursor = SetNodeAt(@, n.type, n.value)]
       IN CopyLabels(ReadForward(read_it), PreOrderForward(written))

-----------------------------------------------------------------------------
(* The operations. Each is the storage it leaves.                          *)

Canonicalize(s) ==
  CopyLabels(Begin(Traversal(s, 0)),
             Begin(Traversal(OneNode(FirstNode), 0))).cursor.store

SubstituteNodeWithTree(s, n, other) ==
  CopyLabels(Begin(Traversal(other, 0)),
             Begin(Traversal(RemoveNodeChildren(s, n), n))).cursor.store

\* A node that is still to be predicted is added or stands where the cursor is.
WriteUnknown(c) == WriteNode(SetNodeAt(c, UNKNOWN_LABEL, UNKNOWN_LABEL))

UnknownFirstChild(s, n) == WriteUnknown(DownFirstChild(Traversal(s, n)).cursor)
UnknownRightSibling(s, n) == WriteUnknown(RightOf(Traversal(s, n)).cursor)

\* In SubstituteNode a right sibling that exists keeps its labels.
KnownRightSibling(s, n) ==
  LET right == RightOf(Traversal(s, n)).cursor
  IN IF IsEmpty(right) THEN WriteUnknown(right) ELSE WriteNode(right)

CanSubstituteNode(s, n, subst) ==
  subst = <<>> \/ subst[1].right_sib >= 0 => n # 0 /\ s.nodes[n].right_sib = -1

\* The queue holds pairs of an entry of the substitution and a node.
RECURSIVE Expand(_, _, _)
Expand(s, subst, queue) ==
  IF queue = <<>> THEN s
  ELSE
    LET entry == subst[Head(queue)[1] + 1]
        n == Head(queue)[2]
        labelled == Traversal(SetLabels(s, n, entry.type, entry.value), n)
        child == IF entry.first_child = -1 THEN labelled
                 ELSE UnknownFirstChild(labelled.store, n)
        right == IF entry.right_sib = -1 \/ (entry.right_sib = -2 /\ n = 0) THEN child
                 ELSE KnownRightSibling(child.store, n)
    IN Expand(right.store, subst,
              Tail(queue)
              \o (IF entry.first_child >= 0 THEN << <<entry.first_child, child.position>> >> ELSE <<>>)
              \o (IF entry.right_sib >= 0 THEN << <<entry.right_sib, right.position>> >> ELSE <<>>))

SubstituteNode(s, n, subst) ==
  IF subst = <<>> THEN RemoveNode(s, n)
  ELSE Expand(RemoveNodeChildren(s, n), subst, << <<0, n>> >>)

CanSubstituteSingleNode(s, n, entry) ==
  entry.right_sib >= 0 => n # 0 /\ s.nodes[n].right_sib = -1

SubstituteSingleNode(s, n, entry) ==
  LET labelled == SetLabels(RemoveNodeChildren(s, n), n, entry.type, entry.value)
      child == IF entry.first_child # -1 THEN UnknownFirstChild(labelled, n).store ELSE labelled
  IN IF entry.right_sib # -1 /\ n # 0 THEN UnknownRightSibling(child, n).store ELSE child

\* SingleNodeSubstitutionLabel: the label of a node, and the tree in which the
\* node is predicted to have it.
GetLabelAtNode(s, n) ==
  LET node == s.nodes[n]
      Some(link) == IF link = -1 THEN -1 ELSE -2
  IN [type |-> Type(node), value |-> Value(node),
      first_child |-> Some(node.first_child), right_sib |-> Some(node.right_sib)]

OutputLabelToTree(s, n, label) == SubstituteSingleNode(s, n, label)

CanSubstituteNodeType(s, n, type) ==
  type = -1 => n # 0 /\ s.nodes[n].right_sib = -1 /\ s.nodes[n].first_child = -1

\* A bug: the subtree of the node stays.
SubstituteNodeType_KeepsChildren(s, n, type) ==
  IF type = EMPTY_NODE_LABEL THEN RemoveNode(s, n)
  ELSE LET child == UnknownFirstChild(SetLabels(s, n, type, UNKNOWN_LABEL), n).store
       IN IF n # 0 THEN UnknownRightSibling(child, n).store ELSE child

SubstituteNodeType(s, n, type) ==
  IF type = EMPTY_NODE_LABEL THEN RemoveNode(s, n)
  ELSE LET labelled == SetLabels(RemoveNodeChildren(s, n), n, type, UNKNOWN_LABEL)
           child == UnknownFirstChild(labelled, n).store
       IN IF n # 0 THEN UnknownRightSibling(child, n).store ELSE child

-----------------------------------------------------------------------------
\* The nodes of the subtrees at n and its right siblings.
RECURSIVE NodesFrom(_, _)
NodesFrom(s, n) ==
  IF n < 0 THEN {}
  ELSE {n} \union NodesFrom(s, s.nodes[n].first_child) \union NodesFrom(s, s.nodes[n].right_sib)

TreeNodes(s) == NodesFrom(s, 0)

\* One operation at the node n takes the storage `from' to `to'.
Change(from, to, n) ==
  \/ to = RemoveNodeChildren(from, n)
  \/ /\ from.nodes[n].right_sib < 0
     /\ to = RemoveNode(from, n)
  \/ \E subst \in Substitutions :
       /\ CanSubstituteNode(from, n, subst)
       /\ to = SubstituteNode(from, n, subst)
  \/ \E entry \in SingleNodes :
       /\ CanSubstituteSingleNode(from, n, entry)
       /\ to = SubstituteSingleNode(from, n, entry)
  \/ \E type \in Types :
       /\ CanSubstituteNodeType(from, n, type)
       /\ to = SubstituteNodeType(from, n, type)
  \/ \E other \in OtherStores : to = SubstituteNodeWithTree(from, n, other)

-----------------------------------------------------------------------------
(* Subtrees by size. Both functions first renumber the storage.            *)

Ids(s) == [i \in 1 .. s.size |-> i - 1]

\* GetTreeSizesAtNodes: the sizes are added up from the last node.
TreeSizesAtNodes(s) ==
  FoldLeft(LAMBDA sizes, n :
             IF s.nodes[n].parent < 0 THEN sizes
             ELSE [sizes EXCEPT ![s.nodes[n].parent] = @ + sizes[n]],
           [n \in 0 .. s.size - 1 |-> 1], Reverse(Ids(s)))

\* Marks what is below a subtree that has been found: its size is set to zero,
\* which goes on to the first child and to the right sibling.
Zeroed(sizes, S) == [n \in DOMAIN sizes |-> IF n \in S THEN 0 ELSE sizes[n]]

\* A bug: the right siblings of a marked node stay.
SubtreesOfMaxSize_FirstChildOnly(s, max_size) ==
  FoldLeft(LAMBDA found, n :
             IF found.sizes[n] > max_size THEN found
             ELSE [sizes |-> Zeroed(found.sizes, {s.nodes[n].first_child}),
                   subtrees |-> IF found.sizes[n] = 0 THEN found.subtrees ELSE Append(found.subtrees, n)],
           [sizes |-> TreeSizesAtNodes(s), subtrees |-> <<>>], Ids(s)).subtrees

\* GetSubtreesOfMaxSize.
SubtreesOfMaxSize(s, max_size) ==
  FoldLeft(LAMBDA found, n :
             LET node == s.nodes[n]
             IN IF found.sizes[n] = 0
                THEN [found EXCEPT !.sizes = Zeroed(@, {node.first_child, node.right_sib})]
                ELSE IF found.sizes[n] > max_size THEN found
                ELSE [sizes |-> Zeroed(found.sizes, {node.first_child}),
                      subtrees |-> Append(found.subtrees, n)],
           [sizes |-> TreeSizesAtNodes(s), subtrees |-> <<>>], Ids(s)).subtrees

\* ForEachSubnodeOfNodeReturningTrue: the nodes that f is called with, when it
\* returns true for those in `Enters'. There is no stack but the links.
RECURSIVE NextSubnode(_, _, _)
NextSubnode(s, n, start) ==
  IF n = start THEN {}
  ELSE IF s.nodes[n].right_sib >= 0 THEN {s.nodes[n].right_sib}
  ELSE NextSubnode(s, s.nodes[n].parent, start)

RECURSIVE SubnodesReturningTrue(_, _, _, _)
SubnodesReturningTrue(s, n, start, Enters) ==
  LET following == IF n \in Enters /\ s.nodes[n].first_child >= 0 THEN {s.nodes[n].first_child}
                   ELSE NextSubnode(s, n, start)
  IN <<n>> \o (IF following = {} THEN <<>>
               ELSE SubnodesReturningTrue(s, CHOOSE m \in following : TRUE, start, Enters))

-----------------------------------------------------------------------------
(* What holds of a storage.                                                *)

\* The list of freed nodes, as CheckConsistency walks it.
RECURSIVE FreedFrom(_, _)
FreedFrom(s, n) == IF n = NoFreeNode THEN {} ELSE {n} \union FreedFrom(s, s.nodes[n].type)

\* Every node of the vector is in the tree or in the list of freed nodes, and
\* in one of them only.
NothingLost(s) ==
  /\ \A n \in TreeNodes(s) : ~IsFreed(s, n)
  /\ TreeNodes(s) \intersect FreedFrom(s, s.first_free_node) = {}
  /\ TreeNodes(s) \union FreedFrom(s, s.first_free_node) = 0 .. s.size - 1

\* TreeStorage::CheckConsistency.
CheckConsistency(s) ==
  (\A n \in TreeNodes(s) : LinksConsistent(s.nodes, n)) /\ NothingLost(s)

\* The path of a node: the child indices on the way to it.
RECURSIVE PathTo(_, _)
PathTo(s, n) == IF n = 0 THEN <<>> ELSE Append(PathTo(s, s.nodes[n].parent), s.nodes[n].child_index)

\* The tree a storage stands for: its labels by the paths of its nodes.
RECURSIVE Unfold(_, _, _)
Unfold(s, n, path) ==
  IF n < 0 THEN <<>>
  ELSE (path :> [type |-> s.nodes[n].type, value |-> s.nodes[n].value])
       @@ Unfold(s, s.nodes[n].first_child, Append(path, 0))
       @@ (IF path = <<>> THEN <<>>
           ELSE Unfold(s, s.nodes[n].right_sib, Append(Front(path), Last(path) + 1)))

TreeOf(s) == Unfold(s, 0, <<>>)
=============================================================================
