---------------------------- MODULE OrderedTree ----------------------------
(***************************************************************************)
(* What the operations of a TreeStorage do to the labelled ordered tree it *)
(* stands for, without node ids and links. A node is the path to it from   *)
(* the root: the sequence of the child indices on the way. A tree maps the *)
(* paths of its nodes to their labels.                                     *)
(***************************************************************************)
EXTENDS Integers, SequencesExt

CONSTANTS
  Substitutions,  \* arguments of SubstituteNode: sequences of entries
  SingleNodes,    \* arguments of SubstituteSingleNode: entries
  Types,          \* arguments of SubstituteNodeType
  OtherTrees      \* trees that are copied into this one

VARIABLE tree

Unknown == [type |-> -2, value |-> -2]
Label(n) == [type |-> n.type, value |-> n.value]

Root == <<>>
FirstChild(p) == Append(p, 0)
RightSibling(p) == Append(Front(p), Last(p) + 1)
HasRight(p) == p # Root /\ RightSibling(p) \in DOMAIN tree
HasChild(p) == FirstChild(p) \in DOMAIN tree

\* The tree without what is below p, and without p as well.
Childless(p) == Restrict(tree, {q \in DOMAIN tree : ~IsStrictPrefix(p, q)})
Without(p) == Restrict(tree, {q \in DOMAIN tree : ~IsPrefix(p, q)})

-----------------------------------------------------------------------------
\* In an entry of a substitution first_child and right_sib are the index of
\* another entry, -1 for no node, or -2 for a node that stays unknown.
NoEntry == -1
UnknownEntry == -2

\* What the entry e and those it leads to put at the path p and around it.
RECURSIVE Planted(_, _, _)
Planted(subst, e, p) ==
  LET n == subst[e + 1]
      Link(entry, q) == CASE entry = NoEntry      -> <<>>
                          [] entry = UnknownEntry -> q :> Unknown
                          [] OTHER                -> Planted(subst, entry, q)
  IN (p :> Label(n)) @@ Link(n.first_child, FirstChild(p))
                     @@ (IF p = Root THEN <<>> ELSE Link(n.right_sib, RightSibling(p)))

\* A right sibling that is there already is kept when it is to stay unknown.
Kept(p, subst) ==
  IF HasRight(p) /\ subst[1].right_sib = UnknownEntry
  THEN RightSibling(p) :> tree[RightSibling(p)] ELSE <<>>

Removed(p) == IF p = Root THEN Childless(p) ELSE Without(p)

-----------------------------------------------------------------------------
Init == tree = (Root :> [type |-> -2, value |-> -1])

RemoveNodeChildren(p) == tree' = Childless(p)

RemoveNode(p) ==
  /\ ~HasRight(p)
  /\ tree' = Removed(p)

\* Only the last of its siblings may be removed or followed by new ones.
SubstituteNode(p, subst) ==
  /\ subst = <<>> \/ subst[1].right_sib >= 0 => p # Root /\ ~HasRight(p)
  /\ tree' = IF subst = <<>> THEN Removed(p)
             ELSE Kept(p, subst) @@ Planted(subst, 0, p) @@ Childless(p)

SubstituteSingleNode(p, n) ==
  /\ n.right_sib >= 0 => p # Root /\ ~HasRight(p)
  /\ tree' = (p :> Label(n))
             @@ (IF n.first_child # NoEntry THEN FirstChild(p) :> Unknown ELSE <<>>)
             @@ (IF n.right_sib # NoEntry /\ p # Root THEN RightSibling(p) :> Unknown ELSE <<>>)
             @@ Childless(p)

\* The node is labelled, and the nodes that may follow are unknown.
SubstituteNodeType(p, type) ==
  IF type = -1
  THEN /\ p # Root /\ ~HasRight(p) /\ ~HasChild(p)
       /\ tree' = Without(p)
  ELSE tree' = (p :> [type |-> type, value |-> -2])
               @@ (FirstChild(p) :> Unknown)
               @@ (IF p # Root THEN RightSibling(p) :> Unknown ELSE <<>>)
               @@ Childless(p)

\* A copy of another tree takes the place of the subtree at p.
SubstituteNodeWithTree(p, other) ==
  tree' = [q \in {p \o r : r \in DOMAIN other} |-> other[SubSeq(q, Len(p) + 1, Len(q))]]
          @@ Childless(p)

\* Canonicalize changes no label and no place.
Canonicalize == UNCHANGED tree

Next ==
  \/ Canonicalize
  \/ \E p \in DOMAIN tree :
       \/ RemoveNodeChildren(p)
       \/ RemoveNode(p)
       \/ \E subst \in Substitutions : SubstituteNode(p, subst)
       \/ \E n \in SingleNodes : SubstituteSingleNode(p, n)
       \/ \E type \in Types : SubstituteNodeType(p, type)
       \/ \E other \in OtherTrees : SubstituteNodeWithTree(p, other)

Spec == Init /\ [][Next]_tree
=============================================================================
