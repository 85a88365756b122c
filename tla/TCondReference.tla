--------------------------- MODULE TCondReference ---------------------------
(***************************************************************************)
(* What a TCond operation promises, said without pointers: a tree is       *)
(* labels and a parent per node, nodes are numbered depth first, and the   *)
(* nodes 0 .. begin are all there is. Every operation is one step to a     *)
(* node that is described, not searched for.                               *)
(***************************************************************************)
EXTENDS SlicedTraversal, Sequences

CONSTANT Trees

VARIABLES tree, slice, position, written, done

vars == <<tree, slice, position, written, done>>

Visible == 0 .. slice.begin

Children(n) == {m \in DOMAIN tree : tree[m].parent = n}
IsLeaf(n) == Children(n) = {}

\* The root counts as the only child of nothing.
Siblings(n) == IF n = 0 THEN {0} ELSE Children(tree[n].parent)

\* m is n or one of its descendants.
InSubtree(m, n) == m >= n /\ \A k \in n + 1 .. m : tree[k].parent >= n

Last(S)  == CHOOSE m \in S : \A n \in S : n <= m
First(S) == CHOOSE m \in S : \A n \in S : m <= n

\* The latest or earliest node of S, or the given one when S is empty.
LastOr(S, n)  == IF S = {} THEN n ELSE Last(S)
FirstOr(S, n) == IF S = {} THEN n ELSE First(S)

Init ==
  /\ tree \in Trees
  /\ \E begin \in DOMAIN tree, allow \in BOOLEAN :
       slice = TreeSlice(tree, begin, allow)
  /\ position = slice.begin
  /\ written = <<>>
  /\ done = "none"

Go(op, n) ==
  /\ done' = op
  /\ position' = n
  /\ UNCHANGED <<tree, slice, written>>

GoUp    == Go("UP", IF position = 0 THEN 0 ELSE tree[position].parent)
GoLeft  == Go("LEFT", LastOr({n \in Siblings(position) : n < position}, position))
GoRight ==
  Go("RIGHT", FirstOr({n \in Siblings(position) \cap Visible : n > position}, position))
GoDownFirst == Go("DOWN_FIRST", FirstOr(Children(position) \cap Visible, position))

\* Only a child that is known to be the last one is entered.
GoDownLast ==
  LET last == LastOr(Children(position), position)
  IN Go("DOWN_LAST", IF last < slice.begin THEN last ELSE position)

\* The previous node in depth-first order.
GoPrevDfs == Go("PREV_DFS", IF position = 0 THEN 0 ELSE position - 1)

\* The closest leaf before the node, or the root when there is none.
GoPrevLeaf == Go("PREV_LEAF", LastOr({n \in 0 .. position - 1 : IsLeaf(n)}, 0))

\* The closest leaf after the node's subtree. The predicted node counts as a
\* leaf; from it and from its ancestors the search ends at the root.
GoNextLeaf ==
  Go("NEXT_LEAF",
     FirstOr({n \in Visible : /\ n > position
                              /\ ~InSubtree(n, position)
                              /\ IsLeaf(n) \/ n = slice.begin}, 0))

\* The closest earlier node with the symbol seen at this one.
GoPrevious(op, kind) ==
  LET symbol == ActorSymbol(kind, tree, slice, position) IN
  Go(op, LastOr({n \in 0 .. position - 1 :
                   /\ IsIndexed(kind, symbol)
                   /\ ActorSymbol(kind, tree, slice, n) = symbol}, position))

\* The predicted node has no value yet, and a type only when it may be read.
WriteFeature(op, feature) ==
  /\ done' = op
  /\ written' = <<feature>>
  /\ UNCHANGED <<tree, slice, position>>

WriteType ==
  WriteFeature("WRITE_TYPE",
    IF position = slice.begin /\ ~slice.allow_reading_type
    THEN EMPTY_NODE_LABEL ELSE Type(tree[position]))
WriteValue ==
  WriteFeature("WRITE_VALUE",
    IF position = slice.begin THEN EMPTY_NODE_LABEL ELSE Value(tree[position]))
WritePos ==
  WriteFeature("WRITE_POS", -1000 - tree[position].child_index)

Next ==
  \/ GoUp \/ GoLeft \/ GoRight \/ GoDownFirst \/ GoDownLast
  \/ GoPrevDfs \/ GoPrevLeaf \/ GoNextLeaf
  \/ GoPrevious("PREV_NODE_VALUE", "value")
  \/ GoPrevious("PREV_NODE_TYPE", "type")
  \/ GoPrevious("PREV_NODE_CONTEXT", "context")
  \/ WriteType \/ WriteValue \/ WritePos

Spec == Init /\ [][Next]_vars
=============================================================================
