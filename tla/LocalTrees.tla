----------------------------- MODULE LocalTrees -----------------------------
(***************************************************************************)
(* A storage and a local one that is attached to a node of it              *)
(* (phog/tree/tree.h, tree.cpp, tree_slice.h): both are edited, the local  *)
(* one is a new tree, a copied subtree, or what is left of one when a      *)
(* label is to be predicted, cursors walk from it into its parent and      *)
(* back, and it is inlined. The links of its root are marks that lead to   *)
(* those of the node it is attached to.                                    *)
(***************************************************************************)
EXTENDS TreeStorage, SlicedTraversal

CONSTANTS
  MaxNodes,         \* bound: the size the vector may grow to
  MaxTogether       \* bound: the size of the vector and that of an edited local storage

VARIABLES
  store,            \* the storage
  local, place,     \* the local one, and position_in_parent_
  predicted,        \* what a completion leaves to predict
  cursor

vars == <<store, local, place, predicted, cursor>>

TREEPOINTER_VALUE_IN_PARENT == -2

Nowhere == -1
Nothing == [node |-> -1, is_for_node_type |-> FALSE]
NoCursor == [sliced |-> FALSE, in_local |-> FALSE, position |-> -1, can_return |-> FALSE]

IsAttached == place # Nowhere
IsWalking == cursor # NoCursor

-----------------------------------------------------------------------------
(* Local storages.                                                         *)

\* A bug: a right sibling in the parent is forgotten.
AttachTo_NoRight(s, n) ==
  [s EXCEPT !.nodes[0] =
     [@ EXCEPT !.left_sib = IF store.nodes[n].left_sib >= 0 THEN TREEPOINTER_VALUE_IN_PARENT ELSE @,
               !.parent = TREEPOINTER_VALUE_IN_PARENT,
               !.child_index = store.nodes[n].child_index]]

AttachTo(s, n) ==
  [s EXCEPT !.nodes[0] =
     [@ EXCEPT !.left_sib = IF store.nodes[n].left_sib >= 0 THEN TREEPOINTER_VALUE_IN_PARENT ELSE @,
               !.right_sib = IF store.nodes[n].right_sib >= 0 THEN TREEPOINTER_VALUE_IN_PARENT ELSE @,
               !.parent = TREEPOINTER_VALUE_IN_PARENT,
               !.child_index = store.nodes[n].child_index]]

\* TreeStorage(parent, position_in_parent).
NewLocal(n) == AttachTo(OneNode(FirstNode), n)

\* operator== of the eps cursors.
SamePosition(c, d) ==
  c.position = d.position /\ (c.position >= 0 \/ c.eps.parent = d.eps.parent)

\* Copies labels until the reader is where `end' is.
RECURSIVE CopyUntil(_, _, _)
CopyUntil(read_it, write_it, end) ==
  IF SamePosition(read_it.cursor, end) THEN write_it
  ELSE LET n == NodeAt(read_it.cursor)
           written == [write_it EXCEPT !.cursor = SetNodeAt(@, n.type, n.value)]
       IN CopyUntil(ReadForward(read_it), PreOrderForward(written), end)

\* The end is right of the node, a node or an empty place.
SubtreeFromNodeAsTree(s, n) ==
  CopyUntil(Begin(Traversal(s, n)), Begin(Traversal(NewLocal(n), 0)),
            ConstRightOf(Traversal(s, n)).cursor).cursor.store

\* Copies labels until the reader is at the node that is to be predicted.
RECURSIVE CopyBefore(_, _, _)
CopyBefore(read_it, write_it, target) ==
  LET n == NodeAt(read_it.cursor)
      found == read_it.cursor.position = target.node
      type == IF found /\ target.is_for_node_type THEN UNKNOWN_LABEL ELSE Type(n)
      value == IF found THEN UNKNOWN_LABEL ELSE Value(n)
      written == PreOrderForward([write_it EXCEPT !.cursor = SetNodeAt(@, type, value)])
  IN IF read_it.at_end THEN write_it
     ELSE IF found THEN written
     ELSE CopyBefore(ReadForward(read_it), written, target)

CompletionPlace(s, n) == IF s.nodes[n].parent = -1 THEN n ELSE s.nodes[n].parent

GetSubtreeForCompletion(s, target) ==
  LET top == CompletionPlace(s, target.node)
  IN CopyBefore(Begin(Traversal(s, top)), Begin(Traversal(NewLocal(top), 0)), target).cursor.store

\* Canonicalize of a storage that is attached.
CanonicalizeLocal(s, n) ==
  CopyLabels(Begin(Traversal(s, 0)), Begin(Traversal(NewLocal(n), 0))).cursor.store

-----------------------------------------------------------------------------
(* Editing and inlining.                                                   *)

Init ==
  /\ store = OneNode(FirstNode)
  /\ local = OneNode(FirstNode) /\ place = Nowhere
  /\ predicted = Nothing /\ cursor = NoCursor

Renumber ==
  /\ ~IsAttached
  /\ store' = Canonicalize(store)
  /\ UNCHANGED <<local, place, predicted, cursor>>

Edit ==
  /\ ~IsAttached
  /\ \E n \in TreeNodes(store) : Change(store, store', n)
  /\ store'.size <= MaxNodes
  /\ UNCHANGED <<local, place, predicted, cursor>>

\* A local tree at the node n.
Plant(n) ==
  /\ ~IsAttached
  /\ place' = n
  /\ UNCHANGED <<store, cursor>>

Attach(n) ==
  /\ Plant(n)
  /\ local' = NewLocal(n)
  /\ store.size + local'.size <= MaxTogether
  /\ UNCHANGED predicted

Extract(n) ==
  /\ n # 0 /\ Plant(n)
  /\ local' = SubtreeFromNodeAsTree(store, n)
  /\ UNCHANGED predicted

\* A tree is predicted in the order of its ids, every node its type first.
IsPredicted(target) ==
  /\ CanonicalTree(store.nodes)
  /\ \A n \in 0 .. target.node - 1 : ~HasNonTerminal(store.nodes[n])
  /\ ~target.is_for_node_type => store.nodes[target.node].type # UNKNOWN_LABEL

Complete(target) ==
  /\ Plant(CompletionPlace(store, target.node)) /\ IsPredicted(target)
  /\ local' = GetSubtreeForCompletion(store, target)
  /\ predicted' = target

RenumberLocal ==
  /\ IsAttached /\ ~IsWalking
  /\ local' = CanonicalizeLocal(local, place)
  /\ UNCHANGED <<store, place, predicted, cursor>>

EditLocal ==
  /\ IsAttached /\ ~IsWalking /\ predicted = Nothing
  /\ \E n \in TreeNodes(local) : Change(local, local', n)
  /\ store.size + local'.size <= MaxTogether
  /\ UNCHANGED <<store, place, predicted, cursor>>

\* The local tree is not needed any more.
InlineIntoParent ==
  /\ IsAttached /\ ~IsWalking
  /\ store' = SubstituteNodeWithTree(store, place, local)
  /\ store'.size <= MaxNodes
  /\ local' = OneNode(FirstNode) /\ place' = Nowhere /\ predicted' = Nothing
  /\ UNCHANGED cursor

-----------------------------------------------------------------------------
(***************************************************************************)
(* A cursor that starts in the local tree: FullTreeTraversal, or, for a    *)
(* completion, SlicedTreeTraversal with a slice of the parent that begins  *)
(* at the place. A cursor that has left the local tree can return if its   *)
(* last_subtree_ is set. A link is the field of the node it is in.         *)
(***************************************************************************)
Sideways == {"left_sib", "right_sib", "parent"}
Downwards == {"first_child", "last_child"}

Storage(c) == IF c.in_local THEN local ELSE store
NodeOf(c) == Storage(c).nodes[c.position]

Hides(c, n) == c.sliced /\ ~c.in_local /\ n >= place

ParentSlice == TreeSlice(store.nodes, place, FALSE)

\* node().
Visible(c) == IF Hides(c, c.position) THEN VisibleNode(store.nodes, ParentSlice, c.position) ELSE NodeOf(c)

MoveToParentStorage(c) ==
  [c EXCEPT !.in_local = FALSE, !.position = place, !.can_return = TRUE]

\* left, right and up. The cursor may be in the parent when the move fails.
Follow(c, link) ==
  LET linked == IF link = "right_sib" THEN Visible(c)[link] ELSE NodeOf(c)[link]
      crosses == linked = TREEPOINTER_VALUE_IN_PARENT
      d == IF crosses THEN MoveToParentStorage(c) ELSE c
      n == IF crosses THEN NodeOf(d)[link] ELSE linked
  IN IF n < 0 \/ (Hides(d, n) /\ ~(link = "right_sib" /\ n = place)) THEN d
     ELSE [d EXCEPT !.position = n]

\* down_first_child and down_last_child.
Enter(c, link) ==
  LET n == NodeOf(c)[link]
      hidden == Hides(c, n) /\ ~(link = "first_child" /\ n = place)
      unknown == c.sliced /\ link = "last_child" /\ HasNonTerminal(Storage(c).nodes[n])
  IN IF n >= 0 /\ c.sliced /\ c.can_return /\ n = place
     THEN [c EXCEPT !.in_local = TRUE, !.position = 0, !.can_return = FALSE]
     ELSE IF n < 0 \/ hidden \/ unknown THEN c
     ELSE [c EXCEPT !.position = n]

\* At the node of the parent that the local tree is to replace.
IsAstray(c) == ~c.in_local /\ c.position = place

StartWalk ==
  /\ IsAttached /\ ~IsWalking
  /\ cursor' = [sliced |-> predicted # Nothing, in_local |-> TRUE, position |-> 0, can_return |-> FALSE]
  /\ UNCHANGED <<store, local, place, predicted>>

Links == Sideways \union Downwards
AfterMove(c, link) == IF link \in Sideways THEN Follow(c, link) ELSE Enter(c, link)

\* What is below the place in the parent is not followed.
MayFollow(c, link) == link \in Downwards => ~IsAstray(c)

Walk(link) ==
  /\ IsWalking /\ MayFollow(cursor, link)
  /\ cursor' = AfterMove(cursor, link)
  /\ UNCHANGED <<store, local, place, predicted>>

Next ==
  \/ Renumber \/ Edit
  \/ \E n \in TreeNodes(store) :
       \/ Attach(n) \/ Extract(n)
       \/ \E is_for_node_type \in BOOLEAN : Complete([node |-> n, is_for_node_type |-> is_for_node_type])
  \/ RenumberLocal \/ EditLocal \/ InlineIntoParent
  \/ StartWalk \/ \E link \in Links : Walk(link)

Spec == Init /\ [][Next]_vars

-----------------------------------------------------------------------------
CanonicalizeCompacts ==
  LET c == Canonicalize(store)
  IN /\ CanonicalTree(c.nodes)
     /\ c.size = Cardinality(TreeNodes(store)) /\ c.first_free_node = NoFreeNode

\* The cursors that write where there is no node and those that only read it.
Moves(c) == <<LeftOf(c), RightOf(c), UpFrom(c), DownFirstChild(c), DownLastChild(c)>>
ConstMoves(c) ==
  <<ConstLeftOf(c), ConstRightOf(c), ConstUpFrom(c), ConstDownFirstChild(c), ConstDownLastChild(c)>>

EpsCursorsAgree ==
  \A n \in TreeNodes(store) :
    LET at == Traversal(store, n)
    IN ~IsEmpty(at) =>
         /\ Moves(at) = ConstMoves(at)
         /\ \A k \in DOMAIN Moves(at) :
              LET next == Moves(at)[k].cursor
              IN /\ next.store = store
                 /\ Moves(next) = ConstMoves(next)
                 /\ next.position < 0 =>
                      /\ ~RightOf(next).moved /\ ~DownFirstChild(next).moved
                      /\ UpFrom(next).cursor.position = NodeAt(next).parent

\* What a predicted label may be, the type being known.
PredictedLabels ==
  {label \in {GetLabelAtNode(store, n) : n \in TreeNodes(store)} : label.type # EMPTY_NODE_LABEL}

CompletionsShowTheirLabels ==
  \A n \in TreeNodes(store), label \in PredictedLabels :
    LET node == store.nodes[n]
        completion == OutputLabelToTree(store, n, label)
    IN /\ CheckConsistency(completion)
       /\ (n = 0 => label.right_sib = -1) /\ (node.right_sib >= 0 => label.right_sib = -2) =>
            GetLabelAtNode(completion, n) = label

(***************************************************************************)
(* After any sequence of edits the links agree, and every node is in the   *)
(* tree or among the freed ones. The root of a local storage has the child *)
(* index of its place. And Canonicalize leaves a tree in depth-first order *)
(* and nothing else in the vector, however the ids were given before. The  *)
(* two eps cursors, which write and which only read, come to the same      *)
(* places, and back from where there is no node. A completion in which a   *)
(* node is predicted to have a label shows this label there, links and all,*)
(* if the label has no sibling of the root and keeps one that is there.    *)
(* While a local tree is attached no step changes the storage it is        *)
(* attached to, as ImplementsPlantedTree shows.                            *)
(***************************************************************************)
Consistent ==
  IF IsAttached
  THEN /\ NothingLost(local)
       /\ local.nodes[0].child_index = store.nodes[place].child_index
       /\ \A n \in TreeNodes(local) \ {0} : LinksConsistent(local.nodes, n)
  ELSE CheckConsistency(store) /\ CanonicalizeCompacts /\ EpsCursorsAgree /\ CompletionsShowTheirLabels

(***************************************************************************)
(* The subtrees of at most some size are the largest such, each found once *)
(* and in order; a walk that does not go below small nodes finds the same. *)
(***************************************************************************)
SubtreesAreMaximal ==
  LET c == Canonicalize(store)
      Size(n) == Cardinality(NodesFrom(c, c.nodes[n].first_child)) + 1
      IsSmall(n, max) == n >= 0 /\ Size(n) <= max
  IN ~IsAttached => \A max \in 1 .. MaxNodes :
       LET small == {n \in DOMAIN c.nodes : IsSmall(n, max)}
           found == SubtreesOfMaxSize(c, max)
       IN /\ found = SetToSortSeq({n \in small : c.nodes[n].parent \notin small}, <)
          /\ found = SelectSeq(SubnodesReturningTrue(c, 0, 0, DOMAIN c.nodes \ small), LAMBDA n : n \in small)

PathOfPlace == IF IsAttached THEN PathTo(store, place) ELSE <<-1>>

Abstract == INSTANCE PlantedTree WITH
  tree <- TreeOf(store), local <- TreeOf(local), place <- PathOfPlace,
  OtherTrees <- {TreeOf(other) : other \in OtherStores}

(***************************************************************************)
(* Every operation does to the two trees what PlantedTree says, whichever  *)
(* ids their nodes have and are given again: a subtree is copied up to its *)
(* end and no further, a completion has what is before the predicted node, *)
(* and an inlined tree takes the place of what was there.                  *)
(***************************************************************************)
ImplementsPlantedTree == Abstract!Spec

PathOf(c) == IF c.in_local THEN PathTo(store, place) \o PathTo(local, c.position) ELSE PathTo(store, c.position)

\* The tree with the local one in its place.
Whole ==
  LET p == PathTo(store, place)
      t == TreeOf(store)
      l == TreeOf(local)
  IN [q \in {p \o r : r \in DOMAIN l} |-> l[SubSeq(q, Len(p) + 1, Len(q))]]
     @@ Restrict(t, {q \in DOMAIN t : ~IsPrefix(p, q)})

\* Where a move in a tree with these paths ends.
Neighbour(paths, p, link) ==
  LET children == {q \in paths : q # <<>> /\ Front(q) = p}
      to == CASE link = "parent" -> {q \in paths : p # <<>> /\ q = Front(p)}
              [] link = "left_sib" -> {q \in paths : p # <<>> /\ q = Append(Front(p), Last(p) - 1)}
              [] link = "right_sib" -> {q \in paths : p # <<>> /\ q = Append(Front(p), Last(p) + 1)}
              [] link = "first_child" -> {q \in children : Last(q) = 0}
              [] link = "last_child" -> {q \in children : \A r \in children : Last(r) <= Last(q)}
  IN IF to = {} THEN p ELSE CHOOSE q \in to : TRUE

\* Where a move ends in the tree that a completion is made from, when the
\* slice begins at the node that is predicted.
OriginalSlice == TreeSlice(store.nodes, predicted.node, ~predicted.is_for_node_type)
OriginalNode(p) == CHOOSE n \in DOMAIN store.nodes : PathTo(store, n) = p

OriginalMove(p, link) ==
  LET n == OriginalNode(p)
      to == CASE link = "parent" -> Up(store.nodes, OriginalSlice, n)
              [] link = "left_sib" -> Left(store.nodes, OriginalSlice, n)
              [] link = "right_sib" -> Right(store.nodes, OriginalSlice, n)
              [] link = "first_child" -> DownFirst(store.nodes, OriginalSlice, n)
              [] link = "last_child" -> DownLast(store.nodes, OriginalSlice, n)
  IN IF to = Stay THEN p ELSE PathTo(store, to)

MovesAsInWhole ==
  LET paths == DOMAIN Whole
      p == PathOf(cursor)
  IN \A link \in Links : MayFollow(cursor, link) =>
       LET after == AfterMove(cursor, link)
       IN /\ PathOf(after) = IF cursor.sliced THEN OriginalMove(p, link) ELSE Neighbour(paths, p, link)
          /\ cursor.sliced /\ link \in Downwards => ~IsAstray(after)

ReadsAsInWhole ==
  LET seen == Visible(cursor)
      original == VisibleNode(store.nodes, OriginalSlice, OriginalNode(PathOf(cursor)))
  IN IF cursor.sliced
     THEN <<Type(seen), Value(seen), seen.child_index>>
          = <<Type(original), Value(original), original.child_index>>
     ELSE [type |-> seen.type, value |-> seen.value] = Whole[PathOf(cursor)]

(***************************************************************************)
(* A cursor that starts in a local tree walks as one in the tree with the  *)
(* local one in its place does; a sliced one in a completion walks as one  *)
(* in the original tree does, which has all the labels, so that the two    *)
(* cannot be told apart by shape or label, and it comes back to the local  *)
(* tree when it goes down to the place. Astray it reads the parent.        *)
(***************************************************************************)
WalksAsInWhole ==
  IsWalking => MovesAsInWhole /\ (~IsAstray(cursor) => ReadsAsInWhole)
=============================================================================
