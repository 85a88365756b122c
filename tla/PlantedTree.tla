---------------------------- MODULE PlantedTree ----------------------------
(***************************************************************************)
(* What a tree and a local tree that is attached at one of its nodes are,  *)
(* without node ids and links: two labelled ordered trees (OrderedTree)    *)
(* and a path, at which the local one is to take the place of a subtree.   *)
(***************************************************************************)
EXTENDS Integers, SequencesExt

CONSTANTS Substitutions, SingleNodes, Types, OtherTrees

VARIABLES
  tree,
  local, place   \* place is Nowhere when there is no local tree

Parent == INSTANCE OrderedTree
Local == INSTANCE OrderedTree WITH tree <- local

Nowhere == <<-1>>
IsAttached == place # Nowhere
New == <<>> :> [type |-> -2, value |-> -1]
Known(label) == IF label = -2 THEN -1 ELSE label

\* The path q comes before p, depth first and from left to right.
IsBefore(q, p) ==
  \/ IsStrictPrefix(q, p)
  \/ \E i \in 1 .. Min({Len(p), Len(q)}) :
       q[i] < p[i] /\ SubSeq(q, 1, i - 1) = SubSeq(p, 1, i - 1)

\* The part S of the tree that is in the subtree at p, from p on.
SubtreeAt(p, S) ==
  [r \in {SubSeq(q, Len(p) + 1, Len(q)) : q \in {s \in S : IsPrefix(p, s)}} |-> tree[p \o r]]

-----------------------------------------------------------------------------
Init == Parent!Init /\ local = New /\ place = Nowhere

EditParent ==
  /\ ~IsAttached /\ UNCHANGED <<local, place>>
  /\ Parent!Next

EditLocal ==
  /\ IsAttached /\ UNCHANGED <<tree, place>>
  /\ Local!Next

Attach(p) ==
  /\ ~IsAttached
  /\ place' = p /\ local' = New
  /\ UNCHANGED tree

\* The subtree at p is copied.
Extract(p) ==
  /\ ~IsAttached
  /\ place' = p /\ local' = SubtreeAt(p, DOMAIN tree)
  /\ UNCHANGED tree

\* What comes before p below its parent is copied, and p as far as it is known
\* when its type or its value is to be predicted.
Complete(p, is_for_node_type) ==
  LET top == IF p = <<>> THEN p ELSE Front(p)
      predicted == [type |-> IF is_for_node_type THEN -2 ELSE Known(tree[p].type), value |-> -2]
  IN /\ ~IsAttached
     /\ place' = top
     /\ local' = (SubSeq(p, Len(top) + 1, Len(p)) :> predicted)
                 @@ SubtreeAt(top, {q \in DOMAIN tree : IsBefore(q, p)})
     /\ UNCHANGED tree

\* The local tree takes its place.
InlineIntoParent ==
  /\ IsAttached /\ place' = Nowhere
  /\ local' = New
  /\ Parent!SubstituteNodeWithTree(place, local)

Next ==
  \/ EditParent \/ EditLocal \/ InlineIntoParent
  \/ \E p \in DOMAIN tree :
       Attach(p) \/ Extract(p) \/ \E is_for_node_type \in BOOLEAN : Complete(p, is_for_node_type)

Spec == Init /\ [][Next]_<<tree, local, place>>
=============================================================================
