------------------------ MODULE TCondNoninterference ------------------------
(***************************************************************************)
(* Two executions of the same TCond program side by side, at the same node *)
(* of two trees that agree on everything predicted before that node. A     *)
(* label is learnt and predicted by conditioning "only on part of the      *)
(* nodes that should be predicted earlier" (phog/tree/tree_slice.h:23-24), *)
(* so the two executions have to do and to write the same. Checked    *)
(* on pairs of canonical trees of at most MaxLabelled nodes with all       *)
(* labellings, and of all shapes of MaxNodes nodes with the same label.    *)
(***************************************************************************)
EXTENDS SlicedTraversal, TreeUniverse, Sequences

CONSTANTS Trees, MaxLabelled, MaxNodes

ASSUME TreesAreCanonical == \A t \in Trees : CanonicalTree(t)

VARIABLES
  slice,                             \* begin and type permission
  treeL, positionL, phaseL, writtenL,
  treeR, positionR, phaseR, writtenR

varsL == <<treeL, positionL, phaseL, writtenL>>
varsR == <<treeR, positionR, phaseR, writtenR>>
vars == <<slice, varsL, varsR>>

\* Each side has a slice that ends with its own tree.
SliceOf(t) == TreeSlice(t, slice.begin, slice.allow_reading_type)

L == INSTANCE TCondExecution WITH
       tree <- treeL, slice <- SliceOf(treeL), position <- positionL,
       phase <- phaseL, written <- writtenL
R == INSTANCE TCondExecution WITH
       tree <- treeR, slice <- SliceOf(treeR), position <- positionR,
       phase <- phaseR, written <- writtenR

Start(position, phase, written) ==
  /\ position = slice.begin
  /\ phase = L!Idle
  /\ written = <<>>

Init ==
  /\ treeL \in Trees
  /\ treeR \in Trees
  /\ slice \in [begin : DOMAIN treeL, allow_reading_type : BOOLEAN]
  /\ SameHistory(treeL, treeR, slice.begin, slice.allow_reading_type)
  /\ Start(positionL, phaseL, writtenL)
  /\ Start(positionR, phaseR, writtenR)

\* Both sides run the same operation, or each is inside one.
Next ==
  /\ UNCHANGED slice
  /\ \/ L!WriteType /\ R!WriteType
     \/ L!WriteValue /\ R!WriteValue
     \/ L!WritePos /\ R!WritePos
     \/ L!OpUp /\ R!OpUp
     \/ L!OpLeft /\ R!OpLeft
     \/ L!OpRight /\ R!OpRight
     \/ L!OpDownFirst /\ R!OpDownFirst
     \/ L!OpDownLast /\ R!OpDownLast
     \/ L!OpPrevNodeValue /\ R!OpPrevNodeValue
     \/ L!OpPrevNodeType /\ R!OpPrevNodeType
     \/ L!OpPrevNodeContext /\ R!OpPrevNodeContext
     \/ L!OpPrevDfs /\ R!OpPrevDfs
     \/ L!OpPrevLeaf /\ R!OpPrevLeaf
     \/ L!OpNextLeaf /\ R!OpNextLeaf
     \/ L!LoopStep /\ R!LoopStep

Spec == Init /\ [][Next]_vars

-----------------------------------------------------------------------------
\* The state of the two interpreters; the trees are inputs, from Trees.
TypeOK ==
  /\ slice \in [begin : Int, allow_reading_type : BOOLEAN]
  /\ positionL \in 0 .. slice.begin
  /\ positionR \in 0 .. slice.begin
  /\ phaseL \in L!Phases /\ phaseR \in R!Phases
  /\ writtenL \in Seq(Int) /\ writtenR \in Seq(Int)

(***************************************************************************)
(* Noninterference: at every point of every program the two executions are *)
(* at the same place and have passed the same features on. Nothing a       *)
(* program computes depends on the node being predicted or on a later one. *)
(***************************************************************************)
SameExecution ==
  /\ positionL = positionR
  /\ phaseL = phaseR
  /\ writtenL = writtenR

-----------------------------------------------------------------------------
\* A label that is still to be predicted is in, as in a completed subtree.
MCLabels == {<<0, -1>>, <<1, 5>>, <<1, -2>>}
MCTrees == TreesUpTo(MaxLabelled, MCLabels) \union TreesOfSize(MaxNodes, {<<0, 5>>})
=============================================================================
