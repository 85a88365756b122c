-------------------------- MODULE SlicedTraversal --------------------------
(***************************************************************************)
(* TreeSlice and SlicedTreeTraversal (phog/tree/tree_slice.h) over one     *)
(* TreeStorage: the cursor a TCond program moves while the node `begin'    *)
(* is being predicted. The nodes begin .. end-1 are physically in the      *)
(* storage but must not be read.                                           *)
(*                                                                         *)
(* Every move is an operator that returns the node the cursor ends at, or  *)
(* Stay when the C++ method returns false and leaves the cursor alone.     *)
(***************************************************************************)
EXTENDS SyntaxTree

Slice == [begin : Int, end : Int, allow_reading_type : BOOLEAN]

\* TreeSlice(storage, begin, allow_reading_type_for_begin_node).
TreeSlice(t, begin, allow) ==
  [begin |-> begin, end |-> NumAllocatedNodes(t), allow_reading_type |-> allow]

\* TreeSlice(nullptr): slices nothing.
NoSlice == [begin |-> -1, end |-> -1, allow_reading_type |-> FALSE]

IsNodeSliced(s, n) == n >= s.begin /\ n < s.end

\* A bug to be told from the code: the type of the predicted node is shown
\* whether or not it may be read.
VisibleNode_ShowsType(t, s, p) ==
  IF ~IsNodeSliced(s, p) THEN t[p]
  ELSE [EMPTY_NODE EXCEPT !.child_index = t[p].child_index,
                          !.left_sib = t[p].left_sib,
                          !.parent = t[p].parent,
                          !.type = Type(t[p])]

\* SlicedTreeTraversal::node. The node being predicted shows its place among
\* its earlier neighbours, and its type when only its value is predicted.
VisibleNode(t, s, p) ==
  IF ~IsNodeSliced(s, p) THEN t[p]
  ELSE IF p # s.begin THEN EMPTY_NODE
  ELSE [EMPTY_NODE EXCEPT
          !.child_index = t[p].child_index,
          !.left_sib    = t[p].left_sib,
          !.parent      = t[p].parent,
          !.type        = IF s.allow_reading_type THEN Type(t[p]) ELSE EMPTY_NODE_LABEL]

Stay == -1

Left(t, s, p) ==
  LET l == t[p].left_sib IN
  IF l < 0 \/ IsNodeSliced(s, l) THEN Stay ELSE l

Right(t, s, p) ==
  LET r == VisibleNode(t, s, p).right_sib IN
  IF r < 0 \/ (IsNodeSliced(s, r) /\ r # s.begin) THEN Stay ELSE r

\* A bug: at the root the move succeeds without moving.
Up_TrueAtRoot(t, s, p) ==
  IF t[p].parent < 0 THEN p
  ELSE IF IsNodeSliced(s, t[p].parent) THEN Stay ELSE t[p].parent

Up(t, s, p) ==
  LET u == t[p].parent IN
  IF u < 0 \/ IsNodeSliced(s, u) THEN Stay ELSE u

\* A bug: hidden children may be entered.
DownFirst_Unsliced(t, s, p) ==
  IF t[p].first_child < 0 THEN Stay ELSE t[p].first_child

DownFirst(t, s, p) ==
  LET c == t[p].first_child IN
  IF c < 0 \/ (IsNodeSliced(s, c) /\ c # s.begin) THEN Stay ELSE c

\* A bug: the slice is not asked, only whether the label is known.
DownLast_Unsliced(t, s, p) ==
  LET c == t[p].last_child IN
  IF c < 0 \/ HasNonTerminal(t[c]) THEN Stay ELSE c

DownLast(t, s, p) ==
  LET c == t[p].last_child IN
  IF c < 0 \/ IsNodeSliced(s, c) \/ HasNonTerminal(t[c]) THEN Stay ELSE c

\* The CHECKs of left() and up(): the node reached is never the predicted one.
LeftCheck(t, s, p) ==
  t[p].left_sib >= 0 /\ IsNodeSliced(s, t[p].left_sib) => t[p].left_sib # s.begin
UpCheck(t, s, p) ==
  t[p].parent >= 0 /\ IsNodeSliced(s, t[p].parent) => t[p].parent # s.begin

-----------------------------------------------------------------------------
(***************************************************************************)
(* ActorFinderByNodeType, ByNodeValue and ByNodeContext                    *)
(* (phog/tree/tree_index.h): the symbol under which a node is indexed. The *)
(* 31-bit hash of a context is abstracted to what is hashed, the labels of *)
(* the node and of up to two of its ancestors.                             *)
(***************************************************************************)
ActorKinds == {"type", "value", "context"}

Labels(t, s, p) ==
  <<Value(VisibleNode(t, s, p)), Type(VisibleNode(t, s, p))>>

ContextSymbol(t, s, p) ==
  LET q == Up(t, s, p)
      r == IF q = Stay THEN Stay ELSE Up(t, s, q)
  IN <<Labels(t, s, p),
       IF q = Stay THEN <<>> ELSE Labels(t, s, q),
       IF r = Stay THEN <<>> ELSE Labels(t, s, r)>>

ActorSymbol(kind, t, s, p) ==
  CASE kind = "type"    -> Type(VisibleNode(t, s, p))
    [] kind = "value"   -> Value(VisibleNode(t, s, p))
    [] kind = "context" -> ContextSymbol(t, s, p)

\* A type or value symbol is indexed when it names a string; a hash always is.
IsIndexed(kind, symbol) == kind = "context" \/ symbol >= 0

(***************************************************************************)
(* ActorSymbolIterator::MoveLeft on an indexed storage: the last node      *)
(* before p that the index, built without a slice, holds under the symbol  *)
(* the cursor sees at p.                                                   *)
(***************************************************************************)
Latest(S) == CHOOSE m \in S : \A n \in S : n <= m

MoveLeft(kind, t, s, p) ==
  LET symbol  == ActorSymbol(kind, t, s, p)
      earlier == {n \in DOMAIN t : n < p /\ ActorSymbol(kind, t, NoSlice, n) = symbol}
  IN IF ~IsIndexed(kind, symbol) \/ earlier = {} THEN Stay ELSE Latest(earlier)
=============================================================================
