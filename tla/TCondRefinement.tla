-------------------------- MODULE TCondRefinement --------------------------
(***************************************************************************)
(* TCondExecution with two history variables, to compare each operation    *)
(* with what TCondReference says it does; checked on canonical trees:      *)
(* those of at most MaxLabelled nodes with all labellings, and all shapes  *)
(* of MaxNodes nodes with the same label.                                  *)
(***************************************************************************)
EXTENDS TCondExecution, TreeUniverse

CONSTANTS MaxLabelled, MaxNodes

VARIABLES
  origin,      \* where the current operation started
  done         \* the last operation that was completed

hvars == <<vars, origin, done>>

\* A tree is predicted in the order of its ids: what is before the predicted
\* node has its labels.
KnownBefore == \A n \in 0 .. slice.begin - 1 : ~HasNonTerminal(tree[n])

HInit ==
  /\ Init /\ KnownBefore
  /\ origin = position
  /\ done = "none"

\* Note where an operation starts, and its name when it is over.
Record(op) ==
  /\ origin' = IF phase = Idle THEN position ELSE origin
  /\ done' = IF phase' = Idle THEN op ELSE done

HLoopStep ==
  \/ PrevLeafStep /\ Record("PREV_LEAF")
  \/ NextLeafStep /\ Record("NEXT_LEAF")
  \/ PrevDfsStep  /\ Record("PREV_DFS")

HNext ==
  \/ WriteType         /\ Record("WRITE_TYPE")
  \/ WriteValue        /\ Record("WRITE_VALUE")
  \/ WritePos          /\ Record("WRITE_POS")
  \/ OpUp              /\ Record("UP")
  \/ OpLeft            /\ Record("LEFT")
  \/ OpRight           /\ Record("RIGHT")
  \/ OpDownFirst       /\ Record("DOWN_FIRST")
  \/ OpDownLast        /\ Record("DOWN_LAST")
  \/ OpPrevNodeValue   /\ Record("PREV_NODE_VALUE")
  \/ OpPrevNodeType    /\ Record("PREV_NODE_TYPE")
  \/ OpPrevNodeContext /\ Record("PREV_NODE_CONTEXT")
  \/ OpPrevDfs         /\ Record("PREV_DFS")
  \/ OpPrevLeaf        /\ Record("PREV_LEAF")
  \/ OpNextLeaf        /\ Record("NEXT_LEAF")
  \/ HLoopStep

HSpec == HInit /\ [][HNext]_hvars

\* The history variables take nothing away from the interpreter's progress.
HFairSpec == HSpec /\ WF_hvars(HLoopStep)

Reference ==
  INSTANCE TCondReference WITH
    position <- IF phase = Idle THEN position ELSE origin

(***************************************************************************)
(* Every operation, loops included, ends exactly where its reference       *)
(* definition in TCondReference says, and writes what it says: the         *)
(* sibling-and-parent loops of PREV_DFS, PREV_LEAF and NEXT_LEAF find the  *)
(* previous node, the previous leaf and the next leaf in depth-first       *)
(* order.                                                                  *)
(***************************************************************************)
ImplementsReference == Reference!Spec

-----------------------------------------------------------------------------
\* Two types; nodes with a value, without one, and with one to be predicted.
MCLabels == {<<0, -1>>, <<1, 5>>, <<1, -2>>}
MCTrees == TreesUpTo(MaxLabelled, MCLabels) \union TreesOfSize(MaxNodes, {<<0, 5>>})
=============================================================================
