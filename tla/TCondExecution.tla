--------------------------- MODULE TCondExecution ---------------------------
(***************************************************************************)
(* ExecutionForTree::GetConditionedFeaturesForPosition                     *)
(* (phog/dsl/tcond_language.h): a TCond program moves a sliced cursor over *)
(* a tree and writes features. The program is arbitrary: whenever the      *)
(* interpreter is between two operations any operation may come next. One  *)
(* iteration of a loop inside PREV_DFS, PREV_LEAF or NEXT_LEAF is one      *)
(* step.                                                                   *)
(***************************************************************************)
EXTENDS SlicedTraversal, Sequences

CONSTANT Trees    \* the trees a program may be run on

ASSUME TreesAreCanonical == \A t \in Trees : CanonicalTree(t)

VARIABLES
  tree,        \* the tree, fixed during the execution
  slice,       \* the slice, fixed during the execution
  position,    \* where the cursor is
  phase,       \* where the interpreter is inside the current operation
  written      \* the last feature passed to the callback

vars == <<tree, slice, position, phase, written>>

Idle            == "between_ops"
PrevLeafScan    == "prev_leaf_scan"      \* the for (;;) of PREV_LEAF ...
PrevLeafDescend == "prev_leaf_descend"   \* ... and the while loop in it
NextLeafScan    == "next_leaf_scan"      \* the for (;;) of NEXT_LEAF ...
NextLeafDescend == "next_leaf_descend"   \* ... and the while loop in it
PrevDfsDescend  == "prev_dfs_descend"    \* the while loop of PREV_DFS

Phases == {Idle, PrevLeafScan, PrevLeafDescend, NextLeafScan, NextLeafDescend,
           PrevDfsDescend}

NothingWritten == <<>>

\* TGenModel creates the cursor at the node whose label is predicted.
Init ==
  /\ tree \in Trees
  /\ \E begin \in DOMAIN tree, allow \in BOOLEAN :
       slice = TreeSlice(tree, begin, allow)
  /\ position = slice.begin
  /\ phase = Idle
  /\ written = NothingWritten

-----------------------------------------------------------------------------
\* Move the cursor, or leave it where it is when the move returned false.
MoveTo(target) == position' = IF target = Stay THEN position ELSE target

Write(feature) ==
  /\ phase = Idle
  /\ written' = <<feature>>
  /\ UNCHANGED <<tree, slice, position, phase>>

Seen == VisibleNode(tree, slice, position)

WriteType  == Write(Type(Seen))
WriteValue == Write(Value(Seen))
\* A negative number, so that a branch condition reads it as a number.
WritePos   == Write(-1000 - Seen.child_index)

\* An operation that is one move of the cursor.
MoveOp(target) ==
  /\ phase = Idle
  /\ MoveTo(target)
  /\ UNCHANGED <<tree, slice, phase, written>>

OpUp        == MoveOp(Up(tree, slice, position))
OpLeft      == MoveOp(Left(tree, slice, position))
OpRight     == MoveOp(Right(tree, slice, position))
OpDownFirst == MoveOp(DownFirst(tree, slice, position))
OpDownLast  == MoveOp(DownLast(tree, slice, position))

\* PREV_NODE_VALUE asks first whether the cursor sees a value.
OpPrevNodeValue ==
  MoveOp(IF Value(Seen) = -1 THEN Stay ELSE MoveLeft("value", tree, slice, position))
OpPrevNodeType ==
  MoveOp(MoveLeft("type", tree, slice, position))
OpPrevNodeContext ==
  MoveOp(MoveLeft("context", tree, slice, position))

\* PREV_DFS goes up at once, or left and then down in a loop.
OpPrevDfsUp ==
  /\ Left(tree, slice, position) = Stay
  /\ MoveOp(Up(tree, slice, position))

BeginLoop(loop, target) ==
  /\ phase = Idle
  /\ phase' = loop
  /\ MoveTo(target)
  /\ UNCHANGED <<tree, slice, written>>

OpPrevDfsLeft ==
  /\ Left(tree, slice, position) # Stay
  /\ BeginLoop(PrevDfsDescend, Left(tree, slice, position))
OpPrevDfs == OpPrevDfsUp \/ OpPrevDfsLeft

OpPrevLeaf == BeginLoop(PrevLeafScan, Stay)
OpNextLeaf == BeginLoop(NextLeafScan, Stay)

-----------------------------------------------------------------------------
\* One iteration of a loop: move and go on in phase `next', ...
Iterate(loop, target, next) ==
  /\ phase = loop
  /\ target # Stay
  /\ position' = target
  /\ phase' = next
  /\ UNCHANGED <<tree, slice, written>>

\* ... or leave the loop, which ends the operation.
Leave(loop) ==
  /\ phase = loop
  /\ phase' = Idle
  /\ UNCHANGED <<tree, slice, position, written>>

\* A bug: the scan goes up as long as it can and sideways only then.
Scan_UpFirst(scan, sideways, descend) ==
  LET up == Up(tree, slice, position) IN
  \/ Iterate(scan, up, scan)
  \/ up = Stay /\ Iterate(scan, sideways, descend)
  \/ sideways = Stay /\ up = Stay /\ Leave(scan)

\* A leaf scan goes sideways and then down if it can, else up.
Scan(scan, sideways, descend) ==
  LET up == Up(tree, slice, position) IN
  \/ Iterate(scan, sideways, descend)
  \/ sideways = Stay /\ Iterate(scan, up, scan)
  \/ sideways = Stay /\ up = Stay /\ Leave(scan)

Descend(loop, child) ==
  \/ Iterate(loop, child, loop)
  \/ child = Stay /\ Leave(loop)

PrevLeafStep ==
  \/ Scan(PrevLeafScan, Left(tree, slice, position), PrevLeafDescend)
  \/ Descend(PrevLeafDescend, DownLast(tree, slice, position))
NextLeafStep ==
  \/ Scan(NextLeafScan, Right(tree, slice, position), NextLeafDescend)
  \/ Descend(NextLeafDescend, DownFirst(tree, slice, position))
PrevDfsStep ==
  Descend(PrevDfsDescend, DownLast(tree, slice, position))

LoopStep == PrevLeafStep \/ NextLeafStep \/ PrevDfsStep

Next ==
  \/ WriteType \/ WriteValue \/ WritePos
  \/ OpUp \/ OpLeft \/ OpRight \/ OpDownFirst \/ OpDownLast
  \/ OpPrevNodeValue \/ OpPrevNodeType \/ OpPrevNodeContext
  \/ OpPrevDfs \/ OpPrevLeaf \/ OpNextLeaf
  \/ LoopStep

Spec == Init /\ [][Next]_vars

\* The interpreter is a sequential program: inside an operation it goes on.
FairSpec == Spec /\ WF_vars(LoopStep)

-----------------------------------------------------------------------------
\* The interpreter's own state; the tree is an input, an element of Trees.
TypeOK ==
  /\ slice \in Slice
  /\ position \in DOMAIN tree
  /\ phase \in Phases
  /\ written \in Seq(Int)

(***************************************************************************)
(* The cursor never stands on a node that is hidden by the slice: whatever *)
(* the program, it reaches only the predicted node and nodes before it.    *)
(***************************************************************************)
CursorStaysVisible == position <= slice.begin

(***************************************************************************)
(* The CHECKs in left() and up() of tree_slice.h hold wherever the cursor  *)
(* gets: no step to the left or up ends at the predicted node itself.      *)
(***************************************************************************)
ChecksHold ==
  LeftCheck(tree, slice, position) /\ UpCheck(tree, slice, position)

(***************************************************************************)
(* Every loop of an operation ends: no program hangs on any tree.          *)
(***************************************************************************)
OperationsEnd == phase # Idle ~> phase = Idle
=============================================================================
