------------------------ MODULE TCondExecutionProofs ------------------------
(***************************************************************************)
(* The safety properties of TCondExecution, and that it implements         *)
(* TCondReference, for every set of canonical trees: trees of any size,    *)
(* with any labels, and any program.                                       *)
(***************************************************************************)
EXTENDS TCondRefinement, SlicedTraversalProofs

(***************************************************************************)
(* The inductive invariant. TypeOK alone is not inductive: that a move     *)
(* ends inside the tree needs the tree to be canonical, and that it ends   *)
(* before the hidden nodes needs the cursor to have been there already.    *)
(***************************************************************************)
IInv ==
  /\ tree \in Trees
  /\ slice.begin \in DOMAIN tree
  /\ slice.allow_reading_type \in BOOLEAN
  /\ slice = TreeSlice(tree, slice.begin, slice.allow_reading_type)
  /\ position \in 0 .. slice.begin
  /\ phase \in Phases
  /\ written \in Seq(Int)

\* What every step of the proof starts from.
LEMMA InvFacts ==
  ASSUME IInv
  PROVE  /\ CanonicalTree(tree)
         /\ slice.begin \in Nat
         /\ position \in DOMAIN tree
         /\ TypeOK /\ CursorStaysVisible /\ ChecksHold
<1>1. CanonicalTree(tree)
  BY TreesAreCanonical DEF IInv
<1>2. slice.begin \in Nat /\ position \in DOMAIN tree
  BY <1>1, Nodes DEF IInv
<1>3. slice \in Slice
  <2>1. NumAllocatedNodes(tree) \in Int /\ slice.begin \in Int
    BY <1>1, <1>2, Nodes
  <2>2. TreeSlice(tree, slice.begin, slice.allow_reading_type) \in Slice
    BY <2>1 DEF IInv, TreeSlice, Slice
  <2>3. QED
    BY <2>2 DEF IInv
<1>4. TypeOK
  BY <1>2, <1>3 DEF IInv, TypeOK
<1>5. CursorStaysVisible
  BY <1>2 DEF IInv, CursorStaysVisible
<1>6. ChecksHold
  <2>1. LeftCheck(tree, TreeSlice(tree, slice.begin, slice.allow_reading_type), position)
    BY <1>1, LeftReaches DEF IInv
  <2>2. UpCheck(tree, TreeSlice(tree, slice.begin, slice.allow_reading_type), position)
    BY <1>1, UpReaches DEF IInv
  <2>3. QED
    BY <2>1, <2>2 DEF IInv, ChecksHold
<1>7. QED
  BY <1>1, <1>2, <1>4, <1>5, <1>6

\* Every move ends before the hidden nodes.
LEMMA MovesReach ==
  ASSUME IInv
  PROVE  /\ Reached(Left(tree, slice, position), slice.begin)
         /\ Reached(Right(tree, slice, position), slice.begin)
         /\ Reached(Up(tree, slice, position), slice.begin)
         /\ Reached(DownFirst(tree, slice, position), slice.begin)
         /\ Reached(DownLast(tree, slice, position), slice.begin)
         /\ \A kind : Reached(MoveLeft(kind, tree, slice, position), slice.begin)
<1> DEFINE b == slice.begin
           a == slice.allow_reading_type
           s == TreeSlice(tree, b, a)
<1>1. /\ CanonicalTree(tree) /\ b \in DOMAIN tree /\ b \in Nat /\ a \in BOOLEAN
      /\ position \in 0 .. b /\ position \in DOMAIN tree
  BY InvFacts DEF IInv
<1>2. slice = s
  BY DEF IInv
<1>3. Reached(Left(tree, s, position), b)
  BY <1>1, LeftReaches DEF Reached
<1>4. Reached(Right(tree, s, position), b)
  BY <1>1, RightReaches
<1>5. Reached(Up(tree, s, position), b)
  BY <1>1, UpReaches DEF Reached
<1>6. Reached(DownFirst(tree, s, position), b)
  BY <1>1, DownFirstReaches
<1>7. Reached(DownLast(tree, s, position), b)
  BY <1>1, DownLastReaches DEF Reached
<1>8. ASSUME NEW kind
      PROVE  Reached(MoveLeft(kind, tree, s, position), b)
  BY <1>1, MoveLeftReaches DEF Reached
<1>9. QED
  BY <1>2, <1>3, <1>4, <1>5, <1>6, <1>7, <1>8

\* Executions start in the invariant.
LEMMA InitInv == Init => IInv
<1> SUFFICES ASSUME Init
             PROVE  IInv
  OBVIOUS
<1>1. PICK begin \in DOMAIN tree, allow \in BOOLEAN : slice = TreeSlice(tree, begin, allow)
  BY DEF Init
<1>2. slice.begin = begin /\ slice.allow_reading_type = allow
  BY <1>1 DEF TreeSlice
<1>3. CanonicalTree(tree)
  BY TreesAreCanonical DEF Init
<1>4. position \in 0 .. slice.begin
  BY <1>2, <1>3, Nodes DEF Init
<1>5. phase \in Phases /\ written \in Seq(Int)
  BY DEF Init, Phases, NothingWritten
<1>6. QED
  BY <1>1, <1>2, <1>4, <1>5 DEF Init, IInv

\* A write between two operations.
LEMMA WriteInv ==
  ASSUME IInv, NEW feature \in Int, Write(feature)
  PROVE  IInv'
BY DEF IInv, Write, TreeSlice, NumAllocatedNodes

\* A move of the cursor, alone or as the start of a loop.
LEMMA MoveInv ==
  ASSUME IInv, NEW target, Reached(target, slice.begin), MoveTo(target),
         phase' \in Phases, UNCHANGED <<tree, slice, written>>
  PROVE  IInv'
BY DEF IInv, MoveTo, Reached, TreeSlice, NumAllocatedNodes

\* One operation that moves the cursor.
LEMMA MoveOpInv ==
  ASSUME IInv, NEW target, Reached(target, slice.begin), MoveOp(target)
  PROVE  IInv'
BY MoveInv DEF MoveOp, Idle, Phases

\* The start of a loop.
LEMMA BeginLoopInv ==
  ASSUME IInv, NEW target, Reached(target, slice.begin),
         NEW loop \in Phases, BeginLoop(loop, target)
  PROVE  IInv'
BY MoveInv DEF BeginLoop

\* One iteration of a loop, or its end.
LEMMA IterateInv ==
  ASSUME IInv, NEW target, Reached(target, slice.begin),
         NEW loop, NEW next \in Phases, Iterate(loop, target, next) \/ Leave(loop)
  PROVE  IInv'
<1>1. MoveTo(target) \/ MoveTo(Stay)
  BY DEF Iterate, Leave, MoveTo
<1>2. phase' \in Phases /\ UNCHANGED <<tree, slice, written>>
  BY DEF Iterate, Leave, Phases
<1>3. Reached(Stay, slice.begin)
  BY DEF Reached
<1>4. QED
  BY <1>1, <1>2, <1>3, MoveInv

\* Every step preserves the invariant.
LEMMA NextInv == IInv /\ [Next]_vars => IInv'
<1> SUFFICES ASSUME IInv, [Next]_vars
             PROVE  IInv'
  OBVIOUS
<1> USE MovesReach
<1>1. CASE WriteType \/ WriteValue \/ WritePos
  <2>1. /\ Type(Seen) \in Int /\ Value(Seen) \in Int
        /\ -1000 - Seen.child_index \in Int
    <3>1. LET seen == VisibleNode(tree, TreeSlice(tree, slice.begin, slice.allow_reading_type), position)
          IN Type(seen) \in Int /\ Value(seen) \in Int /\ seen.child_index \in Int
      BY InvFacts, SeenLabels DEF IInv
    <3>2. QED
      BY <3>1 DEF Seen, IInv
  <2>2. QED
    BY <1>1, <2>1, WriteInv DEF WriteType, WriteValue, WritePos
<1>2. CASE OpUp \/ OpLeft \/ OpRight \/ OpDownFirst \/ OpDownLast
  BY <1>2, MoveOpInv DEF OpUp, OpLeft, OpRight, OpDownFirst, OpDownLast
<1>3. CASE OpPrevNodeValue
  BY <1>3, MoveOpInv DEF OpPrevNodeValue, Reached
<1>4. CASE OpPrevNodeType \/ OpPrevNodeContext
  BY <1>4, MoveOpInv DEF OpPrevNodeType, OpPrevNodeContext
<1>5. CASE OpPrevDfs
  <2>1. PrevDfsDescend \in Phases
    BY DEF Phases
  <2>2. QED
    BY <1>5, <2>1, MoveOpInv, BeginLoopInv DEF OpPrevDfs, OpPrevDfsUp, OpPrevDfsLeft
<1>6. CASE OpPrevLeaf \/ OpNextLeaf
  <2>1. PrevLeafScan \in Phases /\ NextLeafScan \in Phases /\ Reached(Stay, slice.begin)
    BY DEF Phases, Reached
  <2>2. QED
    BY <1>6, <2>1, BeginLoopInv DEF OpPrevLeaf, OpNextLeaf
<1>7. CASE LoopStep
  <2>1. /\ PrevLeafScan \in Phases /\ PrevLeafDescend \in Phases
        /\ NextLeafScan \in Phases /\ NextLeafDescend \in Phases
        /\ PrevDfsDescend \in Phases
    BY DEF Phases
  <2>2. CASE PrevLeafStep
    BY <2>1, <2>2, IterateInv DEF PrevLeafStep, Scan, Descend
  <2>3. CASE NextLeafStep
    BY <2>1, <2>3, IterateInv DEF NextLeafStep, Scan, Descend
  <2>4. CASE PrevDfsStep
    BY <2>1, <2>4, IterateInv DEF PrevDfsStep, Descend
  <2>5. QED
    BY <1>7, <2>2, <2>3, <2>4 DEF LoopStep
<1>8. CASE UNCHANGED vars
  BY <1>8 DEF vars, IInv, TreeSlice, NumAllocatedNodes
<1>9. QED
  BY <1>1, <1>2, <1>3, <1>4, <1>5, <1>6, <1>7, <1>8 DEF Next

\* The invariant holds in every reachable state.
THEOREM Invariance == Spec => []IInv
BY InitInv, NextInv, PTL DEF Spec

(***************************************************************************)
(* The cursor, the interpreter's phase and the feature stay well typed: in *)
(* particular the cursor is a node of the tree.                            *)
(***************************************************************************)
THEOREM TypeCorrect == Spec => []TypeOK
<1>1. IInv => TypeOK
  BY InvFacts
<1>2. QED
  BY <1>1, Invariance, PTL

(***************************************************************************)
(* No program ever moves the cursor to a node that the slice hides.        *)
(***************************************************************************)
THEOREM HiddenNodesUnreachable == Spec => []CursorStaysVisible
<1>1. IInv => CursorStaysVisible
  BY InvFacts
<1>2. QED
  BY <1>1, Invariance, PTL

(***************************************************************************)
(* No program ever trips the CHECKs of left() and up().                    *)
(***************************************************************************)
THEOREM NoCheckFails == Spec => []ChecksHold
<1>1. IInv => ChecksHold
  BY InvFacts
<1>2. QED
  BY <1>1, Invariance, PTL

-----------------------------------------------------------------------------
(***************************************************************************)
(* The refinement. In the middle of a loop the reference is still at the   *)
(* origin of the operation; the invariant says what of the search is done, *)
(* so that the loop can only end where the reference goes in one step.     *)
(***************************************************************************)
Leaf(n) == ChildrenOf(tree, n) = {}

\* The last leaf before the origin is the one at the end of the subtree of
\* the cursor.
LeafAtEnd(e) ==
  /\ e \in position .. origin - 1 /\ EndsAt(tree, position, e)
  /\ \A n \in e + 1 .. origin - 1 : ~Leaf(n)

SearchInv ==
  /\ phase = PrevDfsDescend =>
       position < origin /\ EndsAt(tree, position, origin - 1)
  /\ phase = PrevLeafScan =>
       position <= origin /\ \A n \in position .. origin - 1 : ~Leaf(n)
  /\ phase = PrevLeafDescend => \E e \in Int : LeafAtEnd(e)
  /\ phase = NextLeafScan =>
       LeavesBehind(tree, slice.begin, position) = LeavesBehind(tree, slice.begin, origin)
  /\ phase = NextLeafDescend =>
       LeavesFrom(tree, slice.begin, position) = LeavesBehind(tree, slice.begin, origin)

HInv == IInv /\ KnownBefore /\ origin \in 0 .. slice.begin /\ SearchInv

\* The place of the reference.
Here == IF phase = Idle THEN position ELSE origin

-----------------------------------------------------------------------------
\* The last and the first node of a set are what FindsLast and FindsFirst say.
LEMMA LastFound ==
  ASSUME NEW S, S \subseteq Nat, NEW target, FindsLast(S, target), NEW n
  PROVE  Reference!LastOr(S, n) = IF target = Stay THEN n ELSE target
<1>1. CASE S = {}
  BY <1>1 DEF FindsLast, Reference!LastOr
<1>2. CASE S # {}
  <2>1. target \in S /\ (\A m \in S : m <= target) /\ target # Stay
    <3>1. target \in S /\ \A m \in S : m <= target
      BY <1>2, Zenon DEF FindsLast
    <3>2. target \in Nat
      BY <3>1
    <3>3. QED
      BY <3>1, <3>2 DEF Stay
  <2>2. ASSUME NEW x \in S, \A m \in S : m <= x
        PROVE  x = target
    <3>1. x <= target /\ target <= x /\ x \in Nat /\ target \in Nat
      BY <2>1, <2>2
    <3>2. QED
      BY <3>1
  <2>3. Reference!Last(S) = target
    <3>1. \E x \in S : \A m \in S : m <= x
      BY <2>1
    <3>2. Reference!Last(S) \in S /\ \A m \in S : m <= Reference!Last(S)
      BY <3>1, Zenon DEF Reference!Last
    <3>3. QED
      BY <2>2, <3>2
  <2>4. QED
    BY <1>2, <2>1, <2>3 DEF Reference!LastOr
<1>3. QED
  BY <1>1, <1>2

LEMMA FirstFound ==
  ASSUME NEW S, S \subseteq Nat, NEW target, FindsFirst(S, target), NEW n
  PROVE  Reference!FirstOr(S, n) = IF target = Stay THEN n ELSE target
<1>1. CASE S = {}
  BY <1>1 DEF FindsFirst, Reference!FirstOr
<1>2. CASE S # {}
  <2>1. target \in S /\ (\A m \in S : target <= m) /\ target # Stay
    <3>1. target \in S /\ \A m \in S : target <= m
      BY <1>2, Zenon DEF FindsFirst
    <3>2. target \in Nat
      BY <3>1
    <3>3. QED
      BY <3>1, <3>2 DEF Stay
  <2>2. ASSUME NEW x \in S, \A m \in S : x <= m
        PROVE  x = target
    <3>1. x <= target /\ target <= x /\ x \in Nat /\ target \in Nat
      BY <2>1, <2>2
    <3>2. QED
      BY <3>1
  <2>3. Reference!First(S) = target
    <3>1. \E x \in S : \A m \in S : x <= m
      BY <2>1
    <3>2. Reference!First(S) \in S /\ \A m \in S : Reference!First(S) <= m
      BY <3>1, Zenon DEF Reference!First
    <3>3. QED
      BY <2>2, <3>2
  <2>4. QED
    BY <1>2, <2>1, <2>3 DEF Reference!FirstOr
<1>3. QED
  BY <1>1, <1>2

\* What the refinement uses of the invariant.
LEMMA SearchFacts ==
  ASSUME HInv
  PROVE  /\ CanonicalTree(tree) /\ DOMAIN tree \subseteq Nat
         /\ slice.begin \in DOMAIN tree /\ slice.begin \in Nat
         /\ slice.allow_reading_type \in BOOLEAN
         /\ slice = TreeSlice(tree, slice.begin, slice.allow_reading_type)
         /\ position \in 0 .. slice.begin /\ position \in DOMAIN tree
         /\ origin \in 0 .. slice.begin /\ origin \in DOMAIN tree
         /\ 0 .. slice.begin \subseteq DOMAIN tree
         /\ \A n \in 0 .. slice.begin - 1 : ~HasNonTerminal(tree[n])
<1>1. CanonicalTree(tree) /\ slice.begin \in Nat
  BY InvFacts DEF HInv
<1>2. slice.begin \in DOMAIN tree
  BY DEF HInv, IInv
<1>3. 0 .. slice.begin \subseteq DOMAIN tree /\ DOMAIN tree \subseteq Nat
  BY <1>1, <1>2, Nodes
<1>4. QED
  BY <1>1, <1>2, <1>3 DEF HInv, IInv, KnownBefore

\* The sets that the reference searches.
LEMMA ReferenceSets ==
  /\ \A n : Reference!Children(n) = ChildrenOf(tree, n)
  /\ \A n : Reference!Siblings(n) = SiblingsOf(tree, n)
  /\ \A m, n : Reference!InSubtree(m, n) <=> InSubtree(tree, m, n)
  /\ \A n : Reference!IsLeaf(n) <=> Leaf(n)
  /\ Reference!Visible = 0 .. slice.begin
<1>1. \A n : Reference!Children(n) = ChildrenOf(tree, n)
  BY DEF Reference!Children, ChildrenOf
<1>2. \A n : Reference!Siblings(n) = SiblingsOf(tree, n)
  BY <1>1 DEF Reference!Siblings, SiblingsOf
<1>3. \A m, n : Reference!InSubtree(m, n) <=> InSubtree(tree, m, n)
  BY DEF Reference!InSubtree, InSubtree
<1>4. \A n : Reference!IsLeaf(n) <=> Leaf(n)
  BY <1>1 DEF Reference!IsLeaf, Leaf
<1>5. Reference!Visible = 0 .. slice.begin
  BY DEF Reference!Visible
<1>6. QED
  BY <1>1, <1>2, <1>3, <1>4, <1>5

\* An operation without a loop goes to the node that its move finds.
LEMMA OperationGoes ==
  ASSUME HInv, NEW op, NEW target, MoveOp(target), Record(op)
  PROVE  /\ Here = position
         /\ Reference!Go(op, IF target = Stay THEN position ELSE target)
<1>1. Here = position
  BY DEF Here, MoveOp
<1>2. Here' = IF target = Stay THEN position ELSE target
  BY DEF Here, MoveOp, MoveTo
<1>3. done' = op
  BY DEF MoveOp, Record
<1>4. Reference!Go(op, IF target = Stay THEN position ELSE target)
  BY <1>2, <1>3 DEF Reference!Go, Here, MoveOp
<1>5. QED
  BY <1>1, <1>4

\* The end of a loop takes the reference to the cursor.
LEMMA LeaveGoes ==
  ASSUME HInv, NEW op, NEW loop, loop # Idle, Leave(loop), Record(op)
  PROVE  Here = origin /\ Reference!Go(op, position)
<1>1. Here = origin /\ Here' = position
  BY DEF Here, Leave
<1>2. done' = op
  BY DEF Leave, Record
<1>3. Reference!Go(op, position)
  BY <1>1, <1>2 DEF Reference!Go, Here, Leave
<1>4. QED
  BY <1>1, <1>3

-----------------------------------------------------------------------------
(* Operations without a loop.                                              *)

LEMMA UpImplements ==
  ASSUME HInv, OpUp, Record("UP")
  PROVE  Reference!GoUp
<1> DEFINE u == Up(tree, slice, position)
<1>1. Here = position /\ Reference!Go("UP", IF u = Stay THEN position ELSE u)
  BY OperationGoes DEF OpUp
<1>2. u = tree[position].parent
  BY SearchFacts, VisibleBefore, LeftUpAreLinks
<1>3. u = Stay <=> position = 0
  BY <1>2, SearchFacts, LinkFacts DEF Stay
<1>4. Reference!GoUp <=> Reference!Go("UP", IF Here = 0 THEN 0 ELSE tree[Here].parent)
  BY DEF Reference!GoUp, Here
<1>5. QED
  BY <1>1, <1>2, <1>3, <1>4

LEMMA LeftImplements ==
  ASSUME HInv, OpLeft, Record("LEFT")
  PROVE  Reference!GoLeft
<1> DEFINE l == Left(tree, slice, position)
           S == {n \in Reference!Siblings(Here) : n < Here}
<1>1. Here = position /\ Reference!Go("LEFT", IF l = Stay THEN position ELSE l)
  BY OperationGoes DEF OpLeft
<1>2. S = {n \in SiblingsOf(tree, position) : n < position}
  BY <1>1, ReferenceSets
<1>3. S \subseteq Nat
  BY <1>2, SearchFacts DEF SiblingsOf, ChildrenOf
<1>4. FindsLast(S, l)
  BY <1>2, SearchFacts, LeftFinds
<1>5. Reference!LastOr(S, Here) = IF l = Stay THEN position ELSE l
  BY <1>1, <1>3, <1>4, LastFound
<1>6. Reference!GoLeft <=> Reference!Go("LEFT", Reference!LastOr(S, Here))
  BY DEF Reference!GoLeft, Here
<1>7. QED
  BY <1>1, <1>5, <1>6

LEMMA RightImplements ==
  ASSUME HInv, OpRight, Record("RIGHT")
  PROVE  Reference!GoRight
<1> DEFINE r == Right(tree, slice, position)
           S == {n \in Reference!Siblings(Here) \cap Reference!Visible : n > Here}
<1>1. Here = position /\ Reference!Go("RIGHT", IF r = Stay THEN position ELSE r)
  BY OperationGoes DEF OpRight
<1>2. S = {n \in SiblingsOf(tree, position) \cap (0 .. slice.begin) : n > position}
  BY <1>1, ReferenceSets
<1>3. S \subseteq Nat
  BY <1>2
<1>4. FindsFirst(S, r)
  BY <1>2, SearchFacts, RightFinds
<1>5. Reference!FirstOr(S, Here) = IF r = Stay THEN position ELSE r
  BY <1>1, <1>3, <1>4, FirstFound
<1>6. Reference!GoRight <=> Reference!Go("RIGHT", Reference!FirstOr(S, Here))
  BY DEF Reference!GoRight, Here
<1>7. QED
  BY <1>1, <1>5, <1>6

LEMMA DownFirstImplements ==
  ASSUME HInv, OpDownFirst, Record("DOWN_FIRST")
  PROVE  Reference!GoDownFirst
<1> DEFINE c == DownFirst(tree, slice, position)
           S == Reference!Children(Here) \cap Reference!Visible
<1>1. Here = position /\ Reference!Go("DOWN_FIRST", IF c = Stay THEN position ELSE c)
  BY OperationGoes DEF OpDownFirst
<1>2. S = ChildrenOf(tree, position) \cap (0 .. slice.begin)
  BY <1>1, ReferenceSets
<1>3. S \subseteq Nat
  BY <1>2
<1>4. FindsFirst(S, c)
  BY <1>2, SearchFacts, DownFirstFinds
<1>5. Reference!FirstOr(S, Here) = IF c = Stay THEN position ELSE c
  BY <1>1, <1>3, <1>4, FirstFound
<1>6. Reference!GoDownFirst <=> Reference!Go("DOWN_FIRST", Reference!FirstOr(S, Here))
  BY DEF Reference!GoDownFirst, Here
<1>7. QED
  BY <1>1, <1>5, <1>6

LEMMA DownLastImplements ==
  ASSUME HInv, OpDownLast, Record("DOWN_LAST")
  PROVE  Reference!GoDownLast
<1> DEFINE d == DownLast(tree, slice, position)
           c == tree[position].last_child
           last == Reference!LastOr(Reference!Children(Here), Here)
           b == slice.begin
<1>1. Here = position /\ Reference!Go("DOWN_LAST", IF d = Stay THEN position ELSE d)
  BY OperationGoes DEF OpDownLast
<1>2. Reference!Children(Here) = ChildrenOf(tree, position)
  BY <1>1, ReferenceSets
<1>3. ChildrenOf(tree, position) \subseteq Nat
  BY SearchFacts DEF ChildrenOf
<1>4. FindsLast(ChildrenOf(tree, position), c)
  BY SearchFacts, LastChildFinds
<1>5. last = IF c = Stay THEN position ELSE c
  BY <1>1, <1>2, <1>3, <1>4, LastFound
<1>6. d = IF position < b /\ c \in 0 .. b - 1 /\ ~HasNonTerminal(tree[c]) THEN c ELSE Stay
  BY SearchFacts, DownLastIs
<1>7. c \in Nat \union {-1} /\ (c # -1 => position < c)
  BY SearchFacts, LinksInside, LinkFacts
<1>8. (IF last < b THEN last ELSE position) = IF d = Stay THEN position ELSE d
  <2>1. position \in Nat /\ b \in Nat /\ position <= b
    BY SearchFacts
  <2>2. CASE c = -1
    BY <1>5, <1>6, <2>1, <2>2 DEF Stay
  <2>3. CASE c # -1 /\ c < b
    <3>1. c \in 0 .. b - 1 /\ position < b
      BY <1>7, <2>1, <2>3
    <3>2. d = c
      BY <1>6, <3>1, SearchFacts
    <3>3. last = c
      BY <1>5, <2>3 DEF Stay
    <3>4. QED
      BY <2>3, <3>2, <3>3 DEF Stay
  <2>4. CASE c # -1 /\ ~(c < b)
    BY <1>5, <1>6, <1>7, <2>1, <2>4 DEF Stay
  <2>5. QED
    BY <2>2, <2>3, <2>4
<1>9. Reference!GoDownLast <=>
        Reference!Go("DOWN_LAST", IF last < b THEN last ELSE Here)
  BY DEF Reference!GoDownLast, Here
<1>10. QED
  BY <1>1, <1>8, <1>9

\* The reference brings its own copies of the constant operators; they are
\* the same operators.
LEMMA ReferenceBridge ==
  /\ \A n : Reference!Type(n) = Type(n) /\ Reference!Value(n) = Value(n)
  /\ \A t, s, n : Reference!VisibleNode(t, s, n) = VisibleNode(t, s, n)
  /\ \A kind \in ActorKinds : \A t, s, n :
       Reference!ActorSymbol(kind, t, s, n) = ActorSymbol(kind, t, s, n)
  /\ \A kind, symbol : Reference!IsIndexed(kind, symbol) <=> IsIndexed(kind, symbol)
  /\ Reference!EMPTY_NODE_LABEL = EMPTY_NODE_LABEL
  /\ \A t, b, a : Reference!TreeSlice(t, b, a) = TreeSlice(t, b, a)
<1>1. \A n : Reference!Type(n) = Type(n) /\ Reference!Value(n) = Value(n)
  BY DEF Reference!Type, Type, Reference!Value, Value, Reference!EMPTY_NODE_LABEL,
         EMPTY_NODE_LABEL, Reference!UNKNOWN_LABEL, UNKNOWN_LABEL
<1>2. \A t, s, n : Reference!VisibleNode(t, s, n) = VisibleNode(t, s, n)
  BY Zenon DEF Reference!VisibleNode, VisibleNode, Reference!IsNodeSliced, IsNodeSliced,
               Reference!EMPTY_NODE, EMPTY_NODE, Reference!EMPTY_NODE_LABEL,
               EMPTY_NODE_LABEL, Reference!Type, Type, Reference!UNKNOWN_LABEL,
               UNKNOWN_LABEL
<1>3. Reference!Stay = Stay
  BY DEF Reference!Stay, Stay
<1>4. \A t, s, n : Reference!Up(t, s, n) = Up(t, s, n)
  BY <1>3 DEF Reference!Up, Up, Reference!IsNodeSliced, IsNodeSliced
<1>5. \A t, s, n : Reference!Labels(t, s, n) = Labels(t, s, n)
  BY <1>1, <1>2 DEF Reference!Labels, Labels
<1>6. \A t, s, n : Reference!ContextSymbol(t, s, n) = ContextSymbol(t, s, n)
  BY <1>3, <1>4, <1>5 DEF Reference!ContextSymbol, ContextSymbol
<1>7. \A kind \in ActorKinds : \A t, s, n :
        Reference!ActorSymbol(kind, t, s, n) = ActorSymbol(kind, t, s, n)
  BY <1>1, <1>2, <1>6 DEF Reference!ActorSymbol, ActorSymbol, ActorKinds
<1>8. \A kind, symbol : Reference!IsIndexed(kind, symbol) <=> IsIndexed(kind, symbol)
  BY DEF Reference!IsIndexed, IsIndexed
<1>9. Reference!EMPTY_NODE_LABEL = EMPTY_NODE_LABEL
  BY DEF Reference!EMPTY_NODE_LABEL, EMPTY_NODE_LABEL
<1>10. \A t, b, a : Reference!TreeSlice(t, b, a) = TreeSlice(t, b, a)
  BY DEF Reference!TreeSlice, TreeSlice, Reference!NumAllocatedNodes, NumAllocatedNodes,
         Reference!Cardinality, Cardinality
<1>11. QED
  BY <1>1, <1>2, <1>7, <1>8, <1>9, <1>10

\* The index, which is built without a slice, finds what the slice shows.
LEMMA PreviousImplements ==
  ASSUME HInv, NEW op, NEW kind \in ActorKinds, NEW target,
         MoveOp(target), Record(op),
         \/ target = MoveLeft(kind, tree, slice, position)
         \/ target = Stay /\ ~IsIndexed(kind, ActorSymbol(kind, tree, slice, position))
  PROVE  Reference!GoPrevious(op, kind)
<1> DEFINE symbol == ActorSymbol(kind, tree, slice, position)
           S == {n \in 0 .. position - 1 : /\ IsIndexed(kind, symbol)
                                           /\ ActorSymbol(kind, tree, NoSlice, n) = symbol}
           R == {n \in 0 .. Here - 1 :
                  /\ Reference!IsIndexed(kind, Reference!ActorSymbol(kind, tree, slice, Here))
                  /\ Reference!ActorSymbol(kind, tree, slice, n)
                       = Reference!ActorSymbol(kind, tree, slice, Here)}
<1>1. Here = position /\ Reference!Go(op, IF target = Stay THEN position ELSE target)
  BY OperationGoes
<1>2. ASSUME NEW n \in 0 .. position - 1
      PROVE  ActorSymbol(kind, tree, slice, n) = ActorSymbol(kind, tree, NoSlice, n)
  <2>1. n \in 0 .. slice.begin - 1
    BY SearchFacts
  <2>2. QED
    BY <2>1, SearchFacts, SymbolBefore
<1>3. R = S
  BY <1>1, <1>2, ReferenceBridge
<1>4. FindsLast(S, target)
  <2>1. CASE target = MoveLeft(kind, tree, slice, position)
    BY <2>1, SearchFacts, MoveLeftFinds
  <2>2. CASE target = Stay /\ ~IsIndexed(kind, symbol)
    BY <2>2 DEF FindsLast
  <2>3. QED
    BY <2>1, <2>2
<1>5. Reference!LastOr(S, Here) = IF target = Stay THEN position ELSE target
  <2>1. S \subseteq Nat
    OBVIOUS
  <2>2. QED
    BY <1>1, <1>4, <2>1, LastFound
<1>6. Reference!GoPrevious(op, kind) <=> Reference!Go(op, Reference!LastOr(R, Here))
  BY DEF Reference!GoPrevious, Here
<1>7. QED
  BY <1>1, <1>3, <1>5, <1>6

\* Where the cursor sees no value there is none to be indexed.
LEMMA PreviousNodeImplements ==
  ASSUME HInv
  PROVE  /\ OpPrevNodeValue /\ Record("PREV_NODE_VALUE") =>
              Reference!GoPrevious("PREV_NODE_VALUE", "value")
         /\ OpPrevNodeType /\ Record("PREV_NODE_TYPE") =>
              Reference!GoPrevious("PREV_NODE_TYPE", "type")
         /\ OpPrevNodeContext /\ Record("PREV_NODE_CONTEXT") =>
              Reference!GoPrevious("PREV_NODE_CONTEXT", "context")
<1>1. "value" \in ActorKinds /\ "type" \in ActorKinds /\ "context" \in ActorKinds
  BY DEF ActorKinds
<1>2. Value(Seen) = -1 => ~IsIndexed("value", ActorSymbol("value", tree, slice, position))
  BY DEF Seen, IsIndexed, ActorSymbol
<1>3. QED
  BY <1>1, <1>2, PreviousImplements
     DEF OpPrevNodeValue, OpPrevNodeType, OpPrevNodeContext

\* What a program reads is the label of the node, except at the predicted one.
LEMMA WritesImplement ==
  ASSUME HInv
  PROVE  /\ WriteType /\ Record("WRITE_TYPE") => Reference!WriteType
         /\ WriteValue /\ Record("WRITE_VALUE") => Reference!WriteValue
         /\ WritePos /\ Record("WRITE_POS") => Reference!WritePos
<1> DEFINE b == slice.begin
           a == slice.allow_reading_type
<1>1. ASSUME NEW op, NEW feature, Write(feature), Record(op)
      PROVE  Reference!WriteFeature(op, feature) /\ Here = position
  BY <1>1 DEF Write, Record, Reference!WriteFeature, Here
<1>2. position \in 0 .. b - 1 => Seen = tree[position]
  BY SearchFacts, SeenBefore DEF Seen
<1>3. position = b =>
        /\ Type(Seen) = IF a THEN Type(tree[b]) ELSE EMPTY_NODE_LABEL
        /\ Value(Seen) = EMPTY_NODE_LABEL
        /\ Seen.child_index = tree[b].child_index
  <2> SUFFICES ASSUME position = b
               PROVE  /\ Type(Seen) = IF a THEN Type(tree[b]) ELSE EMPTY_NODE_LABEL
                      /\ Value(Seen) = EMPTY_NODE_LABEL
                      /\ Seen.child_index = tree[b].child_index
    OBVIOUS
  <2>1. Seen = [type        |-> IF a THEN Type(tree[b]) ELSE EMPTY_NODE_LABEL,
                value       |-> EMPTY_NODE_LABEL,
                parent      |-> tree[b].parent,
                left_sib    |-> tree[b].left_sib,
                right_sib   |-> -1,
                first_child |-> -1,
                last_child  |-> -1,
                child_index |-> tree[b].child_index]
    BY SearchFacts, SeenPredicted DEF Seen
  <2>2. Type(tree[b]) # UNKNOWN_LABEL
    BY DEF Type, UNKNOWN_LABEL, EMPTY_NODE_LABEL
  <2>3. QED
    BY <2>1, <2>2 DEF Type, Value, UNKNOWN_LABEL, EMPTY_NODE_LABEL
<1>4. position \in 0 .. b - 1 \/ position = b
  BY SearchFacts
<1>5. position \in 0 .. b - 1 => position # b
  BY SearchFacts
<1>6. WriteType /\ Record("WRITE_TYPE") => Reference!WriteType
  <2>1. Type(Seen) = IF position = b /\ ~a THEN EMPTY_NODE_LABEL ELSE Type(tree[position])
    BY <1>2, <1>3, <1>4, <1>5
  <2>2. Here = position =>
          (Reference!WriteType <=>
             Reference!WriteFeature("WRITE_TYPE",
               IF position = b /\ ~a THEN EMPTY_NODE_LABEL ELSE Type(tree[position])))
    BY ReferenceBridge DEF Reference!WriteType, Here
  <2>3. QED
    BY <1>1, <2>1, <2>2 DEF WriteType
<1>7. WriteValue /\ Record("WRITE_VALUE") => Reference!WriteValue
  <2>1. Value(Seen) = IF position = b THEN EMPTY_NODE_LABEL ELSE Value(tree[position])
    BY <1>2, <1>3, <1>4, <1>5
  <2>2. Here = position =>
          (Reference!WriteValue <=>
             Reference!WriteFeature("WRITE_VALUE",
               IF position = b THEN EMPTY_NODE_LABEL ELSE Value(tree[position])))
    BY ReferenceBridge DEF Reference!WriteValue, Here
  <2>3. QED
    BY <1>1, <2>1, <2>2 DEF WriteValue
<1>8. WritePos /\ Record("WRITE_POS") => Reference!WritePos
  <2>1. Seen.child_index = tree[position].child_index
    BY <1>2, <1>3, <1>4
  <2>2. Here = position =>
          (Reference!WritePos <=>
             Reference!WriteFeature("WRITE_POS", -1000 - tree[position].child_index))
    BY DEF Reference!WritePos, Here
  <2>3. QED
    BY <1>1, <2>1, <2>2 DEF WritePos
<1>9. QED
  BY <1>6, <1>7, <1>8

-----------------------------------------------------------------------------
(* Loops: their first step and their iterations are nothing for the        *)
(* reference, their end is its step.                                       *)

LEMMA LoopStutters ==
  ASSUME HInv, NEW op, NEW loop, NEW next, loop # Idle, next # Idle, NEW target,
         BeginLoop(loop, target) \/ Iterate(loop, target, next), Record(op)
  PROVE  UNCHANGED <<tree, slice, Here, written, done>>
<1>1. CASE BeginLoop(loop, target)
  BY <1>1 DEF BeginLoop, Record, Here
<1>2. CASE Iterate(loop, target, next)
  BY <1>2 DEF Iterate, Record, Here
<1>3. QED
  BY <1>1, <1>2

\* Where there is no left sibling the parent is the previous node.
LEMMA PrevDfsUpImplements ==
  ASSUME HInv, OpPrevDfsUp, Record("PREV_DFS")
  PROVE  Reference!GoPrevDfs
<1> DEFINE u == Up(tree, slice, position)
<1>1. Here = position /\ Reference!Go("PREV_DFS", IF u = Stay THEN position ELSE u)
  BY OperationGoes DEF OpPrevDfsUp
<1>2. u = tree[position].parent /\ tree[position].left_sib = -1
  <2>1. Left(tree, slice, position) = Stay
    BY DEF OpPrevDfsUp
  <2>2. QED
    BY <2>1, SearchFacts, VisibleBefore, LeftUpAreLinks DEF Stay
<1>3. IF position = 0 THEN u = Stay ELSE u = position - 1 /\ u # Stay
  <2>1. position \in Nat
    BY SearchFacts
  <2>2. QED
    BY <1>2, <2>1, SearchFacts, LinkFacts DEF Stay
<1>4. Reference!GoPrevDfs <=> Reference!Go("PREV_DFS", IF Here = 0 THEN 0 ELSE Here - 1)
  BY DEF Reference!GoPrevDfs, Here
<1>5. QED
  BY <1>1, <1>3, <1>4

\* From the left sibling the last children lead to the previous node.
LEMMA PrevDfsLeaves ==
  ASSUME HInv, DownLast(tree, slice, position) = Stay,
         Leave(PrevDfsDescend), Record("PREV_DFS")
  PROVE  Reference!GoPrevDfs
<1>1. Here = origin /\ Reference!Go("PREV_DFS", position)
  BY LeaveGoes DEF PrevDfsDescend, Idle
<1>2. position < origin /\ EndsAt(tree, position, origin - 1)
  BY DEF Leave, HInv, SearchInv
<1>3. position \in 0 .. slice.begin - 1 /\ origin - 1 \in position .. slice.begin - 1
  BY <1>2, SearchFacts
<1>4. origin - 1 = position
  BY <1>2, <1>3, SearchFacts, DownLastDescends
<1>5. Reference!GoPrevDfs <=> Reference!Go("PREV_DFS", IF Here = 0 THEN 0 ELSE Here - 1)
  BY DEF Reference!GoPrevDfs, Here
<1>6. QED
  BY <1>1, <1>2, <1>3, <1>4, <1>5

\* The set that PREV_LEAF searches.
LEMMA PrevLeafGoes ==
  ASSUME HInv, phase # Idle,
         NEW target, FindsLast({n \in 0 .. origin - 1 : Leaf(n)}, target),
         Reference!Go("PREV_LEAF", IF target = Stay THEN 0 ELSE target)
  PROVE  Reference!GoPrevLeaf
<1> DEFINE S == {n \in 0 .. origin - 1 : Leaf(n)}
<1>1. S = {n \in 0 .. Here - 1 : Reference!IsLeaf(n)}
  BY ReferenceSets DEF Here
<1>2. S \subseteq Nat
  OBVIOUS
<1>3. Reference!LastOr(S, 0) = IF target = Stay THEN 0 ELSE target
  BY <1>2, LastFound
<1>4. Reference!GoPrevLeaf <=>
        Reference!Go("PREV_LEAF",
          Reference!LastOr({n \in 0 .. Here - 1 : Reference!IsLeaf(n)}, 0))
  BY DEF Reference!GoPrevLeaf, Here
<1>5. QED
  BY <1>1, <1>3, <1>4

\* PREV_LEAF ends at the root when there is no leaf, or at the last one.
LEMMA PrevLeafLeaves ==
  ASSUME HInv, Record("PREV_LEAF"),
         \/ /\ Left(tree, slice, position) = Stay /\ Up(tree, slice, position) = Stay
            /\ Leave(PrevLeafScan)
         \/ /\ DownLast(tree, slice, position) = Stay
            /\ Leave(PrevLeafDescend)
  PROVE  Reference!GoPrevLeaf
<1> DEFINE S == {n \in 0 .. origin - 1 : Leaf(n)}
<1>1. CASE Up(tree, slice, position) = Stay /\ Leave(PrevLeafScan)
  <2>1. Reference!Go("PREV_LEAF", position) /\ phase # Idle
    BY <1>1, LeaveGoes DEF PrevLeafScan, Idle, Leave
  <2>2. position = 0
    <3>1. tree[position].parent = -1
      BY <1>1, SearchFacts, VisibleBefore, LeftUpAreLinks DEF Stay
    <3>2. QED
      BY <3>1, SearchFacts, LinkFacts
  <2>3. \A n \in position .. origin - 1 : ~Leaf(n)
    BY <1>1 DEF Leave, HInv, SearchInv
  <2>4. FindsLast(S, Stay)
    BY <2>2, <2>3 DEF FindsLast
  <2>5. QED
    BY <2>1, <2>2, <2>4, PrevLeafGoes
<1>2. CASE DownLast(tree, slice, position) = Stay /\ Leave(PrevLeafDescend)
  <2>1. Reference!Go("PREV_LEAF", position) /\ phase # Idle
    BY <1>2, LeaveGoes DEF PrevLeafDescend, Idle, Leave
  <2>2. PICK e \in Int : LeafAtEnd(e)
    BY <1>2 DEF Leave, HInv, SearchInv
  <2>3. position \in 0 .. slice.begin - 1 /\ e \in position .. slice.begin - 1
    BY <2>2, SearchFacts DEF LeafAtEnd
  <2>4. e = position /\ Leaf(position)
    BY <1>2, <2>2, <2>3, SearchFacts, DownLastDescends DEF LeafAtEnd, Leaf
  <2>5. FindsLast(S, position) /\ position # Stay
    <3>1. position \in S
      BY <2>2, <2>3, <2>4 DEF LeafAtEnd
    <3>2. \A n \in S : n <= position
      BY <2>2, <2>3, <2>4 DEF LeafAtEnd
    <3>3. QED
      BY <2>3, <3>1, <3>2 DEF FindsLast, Stay
  <2>6. QED
    BY <2>1, <2>5, PrevLeafGoes
<1>3. QED
  BY <1>1, <1>2

\* The set that NEXT_LEAF searches.
LEMMA NextLeafGoes ==
  ASSUME HInv, phase # Idle,
         NEW target, FindsFirst(LeavesBehind(tree, slice.begin, origin), target),
         Reference!Go("NEXT_LEAF", IF target = Stay THEN 0 ELSE target)
  PROVE  Reference!GoNextLeaf
<1> DEFINE S == LeavesBehind(tree, slice.begin, origin)
           R == {n \in Reference!Visible : /\ n > Here
                                           /\ ~Reference!InSubtree(n, Here)
                                           /\ Reference!IsLeaf(n) \/ n = slice.begin}
<1>1. R = S
  BY ReferenceSets DEF Here, LeavesBehind, Leaf
<1>2. S \subseteq Nat
  BY DEF LeavesBehind
<1>3. Reference!FirstOr(S, 0) = IF target = Stay THEN 0 ELSE target
  BY <1>2, FirstFound
<1>4. Reference!GoNextLeaf <=> Reference!Go("NEXT_LEAF", Reference!FirstOr(R, 0))
  BY DEF Reference!GoNextLeaf, Here
<1>5. QED
  BY <1>1, <1>3, <1>4

\* NEXT_LEAF ends at the root when there is no leaf, or at the first one.
LEMMA NextLeafLeaves ==
  ASSUME HInv, Record("NEXT_LEAF"),
         \/ /\ Right(tree, slice, position) = Stay /\ Up(tree, slice, position) = Stay
            /\ Leave(NextLeafScan)
         \/ /\ DownFirst(tree, slice, position) = Stay
            /\ Leave(NextLeafDescend)
  PROVE  Reference!GoNextLeaf
<1> DEFINE b == slice.begin
           S == LeavesBehind(tree, b, origin)
<1>1. CASE Up(tree, slice, position) = Stay /\ Leave(NextLeafScan)
  <2>1. Reference!Go("NEXT_LEAF", position) /\ phase # Idle
    BY <1>1, LeaveGoes DEF NextLeafScan, Idle, Leave
  <2>2. position = 0
    <3>1. tree[position].parent = -1
      BY <1>1, SearchFacts, VisibleBefore, LeftUpAreLinks DEF Stay
    <3>2. QED
      BY <3>1, SearchFacts, LinkFacts
  <2>3. S = {}
    <3>1. S = LeavesBehind(tree, b, position)
      BY <1>1 DEF Leave, HInv, SearchInv
    <3>2. QED
      BY <2>2, <3>1, SearchFacts, NothingBehindRoot
  <2>4. FindsFirst(S, Stay)
    BY <2>3 DEF FindsFirst
  <2>5. QED
    BY <2>1, <2>2, <2>4, NextLeafGoes
<1>2. CASE DownFirst(tree, slice, position) = Stay /\ Leave(NextLeafDescend)
  <2>1. Reference!Go("NEXT_LEAF", position) /\ phase # Idle
    BY <1>2, LeaveGoes DEF NextLeafDescend, Idle, Leave
  <2>2. S = LeavesFrom(tree, b, position)
    BY <1>2 DEF Leave, HInv, SearchInv
  <2>3. position \in S
    BY <1>2, <2>2, SearchFacts, DownFirstDescends
  <2>4. \A n \in S : position <= n
    BY <2>2, SearchFacts DEF LeavesFrom
  <2>5. FindsFirst(S, position) /\ position # Stay
    BY <2>3, <2>4, SearchFacts DEF FindsFirst, Stay
  <2>6. QED
    BY <2>1, <2>5, NextLeafGoes
<1>3. QED
  BY <1>1, <1>2

-----------------------------------------------------------------------------
(* The steps preserve what is said of the search.                          *)

\* Between two operations nothing is said.
LEMMA IdleSearches ==
  ASSUME HInv, NEW op, phase' = Idle, Record(op),
         tree' = tree, slice' = slice, IInv'
  PROVE  HInv'
<1>1. SearchInv'
  BY DEF SearchInv, Idle, PrevDfsDescend, PrevLeafScan, PrevLeafDescend,
         NextLeafScan, NextLeafDescend
<1>2. origin' \in 0 .. slice.begin
  BY SearchFacts DEF Record
<1>3. KnownBefore'
  BY DEF HInv, KnownBefore
<1>4. QED
  BY <1>1, <1>2, <1>3 DEF HInv

\* PREV_DFS is on the path to the last node before the origin.
LEMMA PrevDfsSearches ==
  ASSUME HInv, Record("PREV_DFS"),
         \/ OpPrevDfsLeft
         \/ Iterate(PrevDfsDescend, DownLast(tree, slice, position), PrevDfsDescend)
  PROVE  SearchInv'
<1> DEFINE b == slice.begin
<1>1. tree' = tree /\ slice' = slice /\ phase' = PrevDfsDescend
  BY DEF OpPrevDfsLeft, BeginLoop, Iterate
<1>2. position' < origin' /\ EndsAt(tree, position', origin' - 1)
  <2>1. CASE OpPrevDfsLeft
    <3>1. position' = Left(tree, slice, position) /\ position' # -1 /\ origin' = position
      BY <2>1 DEF OpPrevDfsLeft, BeginLoop, MoveTo, Record, Stay
    <3>2. position' = tree[position].left_sib
      BY <3>1, SearchFacts, VisibleBefore, LeftUpAreLinks
    <3>3. position' \in 0 .. position - 1 /\ EndsAt(tree, position', position - 1)
      BY <3>1, <3>2, SearchFacts, LeftEndsAt
    <3>4. QED
      BY <3>1, <3>3, SearchFacts
  <2>2. CASE Iterate(PrevDfsDescend, DownLast(tree, slice, position), PrevDfsDescend)
    <3>1. /\ position' = DownLast(tree, slice, position) /\ position' # Stay
          /\ origin' = origin /\ phase = PrevDfsDescend
      BY <2>2 DEF Iterate, Record, PrevDfsDescend, Idle
    <3>2. position < origin /\ EndsAt(tree, position, origin - 1)
      BY <3>1 DEF HInv, SearchInv
    <3>3. position \in 0 .. b - 1 /\ origin - 1 \in position .. b - 1
      BY <3>2, SearchFacts
    <3>4. position' \in position + 1 .. origin - 1 /\ EndsAt(tree, position', origin - 1)
      BY <3>1, <3>2, <3>3, SearchFacts, DownLastDescends
    <3>5. QED
      BY <3>1, <3>3, <3>4, SearchFacts
  <2>3. QED
    BY <2>1, <2>2
<1>3. QED
  BY <1>1, <1>2 DEF SearchInv, PrevDfsDescend, PrevLeafScan, PrevLeafDescend,
                    NextLeafScan, NextLeafDescend

\* PREV_LEAF has passed no leaf on its way left and up, ...
LEMMA PrevLeafScans ==
  ASSUME HInv, Record("PREV_LEAF"),
         \/ OpPrevLeaf
         \/ /\ Left(tree, slice, position) = Stay
            /\ Iterate(PrevLeafScan, Up(tree, slice, position), PrevLeafScan)
  PROVE  SearchInv'
<1>1. tree' = tree /\ slice' = slice /\ phase' = PrevLeafScan
  BY DEF OpPrevLeaf, BeginLoop, Iterate
<1>2. position' <= origin' /\ \A n \in position' .. origin' - 1 : ~Leaf(n)
  <2>1. CASE OpPrevLeaf
    <3>1. position' = position /\ origin' = position
      BY <2>1 DEF OpPrevLeaf, BeginLoop, MoveTo, Record, Stay
    <3>2. QED
      BY <3>1, SearchFacts
  <2>2. CASE Left(tree, slice, position) = Stay /\
             Iterate(PrevLeafScan, Up(tree, slice, position), PrevLeafScan)
    <3>1. /\ position' = Up(tree, slice, position) /\ position' # -1
          /\ origin' = origin /\ phase = PrevLeafScan
      BY <2>2 DEF Iterate, Record, PrevLeafScan, Idle, Stay
    <3>2. tree[position].left_sib = -1 /\ tree[position].parent = position'
      BY <2>2, <3>1, SearchFacts, VisibleBefore, LeftUpAreLinks DEF Stay
    <3>3. position' = position - 1
      BY <3>1, <3>2, SearchFacts, LinkFacts
    <3>4. ~Leaf(position')
      BY <3>2, SearchFacts DEF Leaf, ChildrenOf
    <3>5. position <= origin /\ \A n \in position .. origin - 1 : ~Leaf(n)
      BY <3>1 DEF HInv, SearchInv
    <3>6. QED
      BY <3>1, <3>3, <3>4, <3>5, SearchFacts
  <2>3. QED
    BY <2>1, <2>2
<1>3. QED
  BY <1>1, <1>2 DEF SearchInv, Leaf, PrevDfsDescend, PrevLeafScan, PrevLeafDescend,
                    NextLeafScan, NextLeafDescend

\* ... and then goes down at the end of a subtree that holds the leaf.
LEMMA PrevLeafDescends ==
  ASSUME HInv, Record("PREV_LEAF"),
         \/ Iterate(PrevLeafScan, Left(tree, slice, position), PrevLeafDescend)
         \/ Iterate(PrevLeafDescend, DownLast(tree, slice, position), PrevLeafDescend)
  PROVE  SearchInv'
<1> DEFINE b == slice.begin
<1>1. tree' = tree /\ slice' = slice /\ phase' = PrevLeafDescend /\ origin' = origin
  BY DEF Iterate, Record, PrevLeafScan, PrevLeafDescend, Idle
<1>2. \E e \in Int : /\ e \in position' .. origin - 1 /\ EndsAt(tree, position', e)
                     /\ \A n \in e + 1 .. origin - 1 : ~Leaf(n)
  <2>1. CASE Iterate(PrevLeafScan, Left(tree, slice, position), PrevLeafDescend)
    <3>1. /\ position' = Left(tree, slice, position) /\ position' # -1
          /\ phase = PrevLeafScan
      BY <2>1 DEF Iterate, Stay
    <3>2. position' = tree[position].left_sib
      BY <3>1, SearchFacts, VisibleBefore, LeftUpAreLinks
    <3>3. position' \in 0 .. position - 1 /\ EndsAt(tree, position', position - 1)
      BY <3>1, <3>2, SearchFacts, LeftEndsAt
    <3>4. position <= origin /\ \A n \in position .. origin - 1 : ~Leaf(n)
      BY <3>1 DEF HInv, SearchInv
    <3>5. /\ position - 1 \in Int /\ position - 1 \in position' .. origin - 1
          /\ position - 1 + 1 = position
      BY <3>3, <3>4, SearchFacts
    <3>6. QED
      BY <3>3, <3>4, <3>5
  <2>2. CASE Iterate(PrevLeafDescend, DownLast(tree, slice, position), PrevLeafDescend)
    <3>1. /\ position' = DownLast(tree, slice, position) /\ position' # Stay
          /\ phase = PrevLeafDescend
      BY <2>2 DEF Iterate
    <3>2. PICK e \in Int : LeafAtEnd(e)
      BY <3>1 DEF HInv, SearchInv
    <3>3. position \in 0 .. b - 1 /\ e \in position .. b - 1
      BY <3>2, SearchFacts DEF LeafAtEnd
    <3>4. position' \in position + 1 .. e /\ EndsAt(tree, position', e)
      BY <3>1, <3>2, <3>3, SearchFacts, DownLastDescends DEF LeafAtEnd
    <3>5. e \in position' .. origin - 1
      BY <3>2, <3>3, <3>4 DEF LeafAtEnd
    <3>6. QED
      BY <3>2, <3>4, <3>5 DEF LeafAtEnd
  <2>3. QED
    BY <2>1, <2>2
<1>3. QED
  BY <1>1, <1>2 DEF SearchInv, LeafAtEnd, Leaf, PrevDfsDescend, PrevLeafScan,
                    PrevLeafDescend, NextLeafScan, NextLeafDescend

\* NEXT_LEAF has not passed a leaf on its way up and to the right, ...
LEMMA NextLeafScans ==
  ASSUME HInv, Record("NEXT_LEAF"),
         \/ OpNextLeaf
         \/ /\ Right(tree, slice, position) = Stay
            /\ Iterate(NextLeafScan, Up(tree, slice, position), NextLeafScan)
  PROVE  SearchInv'
<1> DEFINE b == slice.begin
<1>1. tree' = tree /\ slice' = slice /\ phase' = NextLeafScan
  BY DEF OpNextLeaf, BeginLoop, Iterate
<1>2. LeavesBehind(tree, b, position') = LeavesBehind(tree, b, origin')
  <2>1. CASE OpNextLeaf
    BY <2>1 DEF OpNextLeaf, BeginLoop, MoveTo, Record, Stay
  <2>2. CASE Right(tree, slice, position) = Stay /\
             Iterate(NextLeafScan, Up(tree, slice, position), NextLeafScan)
    <3>1. /\ position' = Up(tree, slice, position) /\ position' # -1
          /\ origin' = origin /\ phase = NextLeafScan
      BY <2>2 DEF Iterate, Record, NextLeafScan, Idle, Stay
    <3>2. tree[position].parent = position'
      BY <3>1, SearchFacts, VisibleBefore, LeftUpAreLinks
    <3>3. position # 0
      BY <3>1, <3>2, SearchFacts, LinkFacts
    <3>4. LeavesBehind(tree, b, position') = LeavesBehind(tree, b, position)
      BY <2>2, <3>2, <3>3, SearchFacts, BehindParent
    <3>5. QED
      BY <3>1, <3>4 DEF HInv, SearchInv
  <2>3. QED
    BY <2>1, <2>2
<1>3. QED
  BY <1>1, <1>2 DEF SearchInv, PrevDfsDescend, PrevLeafScan, PrevLeafDescend,
                    NextLeafScan, NextLeafDescend

\* ... and then goes down to the first leaf of what comes next.
LEMMA NextLeafDescends ==
  ASSUME HInv, Record("NEXT_LEAF"),
         \/ Iterate(NextLeafScan, Right(tree, slice, position), NextLeafDescend)
         \/ Iterate(NextLeafDescend, DownFirst(tree, slice, position), NextLeafDescend)
  PROVE  SearchInv'
<1> DEFINE b == slice.begin
<1>1. tree' = tree /\ slice' = slice /\ phase' = NextLeafDescend /\ origin' = origin
  BY DEF Iterate, Record, NextLeafScan, NextLeafDescend, Idle
<1>2. LeavesFrom(tree, b, position') = LeavesBehind(tree, b, origin)
  <2>1. CASE Iterate(NextLeafScan, Right(tree, slice, position), NextLeafDescend)
    <3>1. /\ position' = Right(tree, slice, position) /\ position' # Stay
          /\ phase = NextLeafScan
      BY <2>1 DEF Iterate
    <3>2. LeavesBehind(tree, b, position) = LeavesFrom(tree, b, position')
      BY <3>1, SearchFacts, BehindIsRight
    <3>3. QED
      BY <3>1, <3>2 DEF HInv, SearchInv
  <2>2. CASE Iterate(NextLeafDescend, DownFirst(tree, slice, position), NextLeafDescend)
    <3>1. /\ position' = DownFirst(tree, slice, position) /\ position' # Stay
          /\ phase = NextLeafDescend
      BY <2>2 DEF Iterate
    <3>2. LeavesFrom(tree, b, position) = LeavesFrom(tree, b, position')
      BY <3>1, SearchFacts, DownFirstDescends
    <3>3. QED
      BY <3>1, <3>2 DEF HInv, SearchInv
  <2>3. QED
    BY <2>1, <2>2
<1>3. QED
  BY <1>1, <1>2 DEF SearchInv, PrevDfsDescend, PrevLeafScan, PrevLeafDescend,
                    NextLeafScan, NextLeafDescend

-----------------------------------------------------------------------------
(* The refinement, step by step.                                           *)

\* Executions start in the invariant, and where the reference starts.
LEMMA HInitRefines == HInit => HInv /\ Reference!Init
<1> SUFFICES ASSUME HInit
             PROVE  HInv /\ Reference!Init
  OBVIOUS
<1>1. IInv /\ KnownBefore
  BY InitInv DEF HInit
<1>2. phase = Idle /\ origin = position
  BY DEF HInit, Init
<1>3. SearchInv
  BY <1>2 DEF SearchInv, Idle, PrevDfsDescend, PrevLeafScan, PrevLeafDescend,
              NextLeafScan, NextLeafDescend
<1>4. HInv
  BY <1>1, <1>2, <1>3 DEF HInv, IInv
<1>5. Reference!Init
  <2>1. \E begin \in DOMAIN tree, allow \in BOOLEAN :
          slice = Reference!TreeSlice(tree, begin, allow)
    BY ReferenceBridge DEF HInit, Init
  <2>2. /\ tree \in Trees /\ Here = slice.begin /\ written = <<>> /\ done = "none"
    BY DEF HInit, Init, NothingWritten, Here
  <2>3. QED
    BY <2>1, <2>2 DEF Reference!Init, Here
<1>6. QED
  BY <1>4, <1>5

\* What is said of the search is all that a loop's step can disturb.
LEMMA LoopKeeps ==
  ASSUME HInv, IInv', SearchInv', tree' = tree, slice' = slice, NEW op, Record(op)
  PROVE  HInv'
<1>1. origin' \in 0 .. slice.begin
  BY SearchFacts DEF Record
<1>2. KnownBefore'
  BY DEF HInv, KnownBefore
<1>3. QED
  BY <1>1, <1>2 DEF HInv

\* Operations without a loop: one step of the interpreter, one of the reference.
LEMMA OperationRefines ==
  ASSUME HInv, IInv',
         \/ WriteType         /\ Record("WRITE_TYPE")
         \/ WriteValue        /\ Record("WRITE_VALUE")
         \/ WritePos          /\ Record("WRITE_POS")
         \/ OpUp              /\ Record("UP")
         \/ OpLeft            /\ Record("LEFT")
         \/ OpRight           /\ Record("RIGHT")
         \/ OpDownFirst       /\ Record("DOWN_FIRST")
         \/ OpDownLast        /\ Record("DOWN_LAST")
         \/ OpPrevNodeValue   /\ Record("PREV_NODE_VALUE")
         \/ OpPrevNodeType    /\ Record("PREV_NODE_TYPE")
         \/ OpPrevNodeContext /\ Record("PREV_NODE_CONTEXT")
         \/ OpPrevDfsUp       /\ Record("PREV_DFS")
  PROVE  HInv' /\ Reference!Next
<1>1. Reference!Next
  BY WritesImplement, UpImplements, LeftImplements, RightImplements, DownFirstImplements,
     DownLastImplements, PreviousNodeImplements, PrevDfsUpImplements DEF Reference!Next
<1>2. phase' = Idle /\ tree' = tree /\ slice' = slice /\ \E op : Record(op)
  BY DEF WriteType, WriteValue, WritePos, Write, MoveOp, OpUp, OpLeft, OpRight,
         OpDownFirst, OpDownLast, OpPrevNodeValue, OpPrevNodeType, OpPrevNodeContext,
         OpPrevDfsUp
<1>3. HInv'
  BY <1>2, IdleSearches
<1>4. QED
  BY <1>1, <1>3

\* The end of a loop is the step of the reference.
LEMMA LeaveRefines ==
  ASSUME HInv, IInv',
         \/ /\ DownLast(tree, slice, position) = Stay
            /\ Leave(PrevDfsDescend) /\ Record("PREV_DFS")
         \/ /\ Left(tree, slice, position) = Stay /\ Up(tree, slice, position) = Stay
            /\ Leave(PrevLeafScan) /\ Record("PREV_LEAF")
         \/ /\ DownLast(tree, slice, position) = Stay
            /\ Leave(PrevLeafDescend) /\ Record("PREV_LEAF")
         \/ /\ Right(tree, slice, position) = Stay /\ Up(tree, slice, position) = Stay
            /\ Leave(NextLeafScan) /\ Record("NEXT_LEAF")
         \/ /\ DownFirst(tree, slice, position) = Stay
            /\ Leave(NextLeafDescend) /\ Record("NEXT_LEAF")
  PROVE  HInv' /\ Reference!Next
<1>1. Reference!Next
  BY PrevDfsLeaves, PrevLeafLeaves, NextLeafLeaves DEF Reference!Next
<1>2. phase' = Idle /\ tree' = tree /\ slice' = slice /\ \E op : Record(op)
  BY DEF Leave
<1>3. HInv'
  BY <1>2, IdleSearches
<1>4. QED
  BY <1>1, <1>3

\* Everything else in a loop is a stutter.
LEMMA SearchRefines ==
  ASSUME HInv, IInv', SearchInv', NEW op, Record(op),
         NEW loop, loop # Idle, NEW next, next # Idle, NEW target,
         BeginLoop(loop, target) \/ Iterate(loop, target, next)
  PROVE  HInv' /\ UNCHANGED Reference!vars
<1>1. UNCHANGED <<tree, slice, Here, written, done>>
  BY LoopStutters
<1>2. UNCHANGED Reference!vars
  BY <1>1 DEF Reference!vars, Here
<1>3. HInv'
  BY <1>1, LoopKeeps
<1>4. QED
  BY <1>2, <1>3

\* Every step keeps the invariant and is a step of the reference or nothing.
LEMMA StepRefines ==
  ASSUME HInv, [HNext]_hvars
  PROVE  HInv' /\ [Reference!Next]_Reference!vars
<1> USE DEF HInv
<1>1. /\ PrevDfsDescend # Idle /\ PrevLeafScan # Idle /\ PrevLeafDescend # Idle
      /\ NextLeafScan # Idle /\ NextLeafDescend # Idle
  BY DEF Idle, PrevDfsDescend, PrevLeafScan, PrevLeafDescend, NextLeafScan, NextLeafDescend
<1>2. IInv'
  BY NextInv DEF HNext, HLoopStep, Next, LoopStep, hvars, vars
<1>3. CASE \/ WriteType         /\ Record("WRITE_TYPE")
           \/ WriteValue        /\ Record("WRITE_VALUE")
           \/ WritePos          /\ Record("WRITE_POS")
           \/ OpUp              /\ Record("UP")
           \/ OpLeft            /\ Record("LEFT")
           \/ OpRight           /\ Record("RIGHT")
           \/ OpDownFirst       /\ Record("DOWN_FIRST")
           \/ OpDownLast        /\ Record("DOWN_LAST")
           \/ OpPrevNodeValue   /\ Record("PREV_NODE_VALUE")
           \/ OpPrevNodeType    /\ Record("PREV_NODE_TYPE")
           \/ OpPrevNodeContext /\ Record("PREV_NODE_CONTEXT")
  BY <1>2, <1>3, OperationRefines
<1>4. CASE OpPrevDfs /\ Record("PREV_DFS")
  <2>1. CASE OpPrevDfsUp
    BY <1>2, <1>4, <2>1, OperationRefines
  <2>2. CASE OpPrevDfsLeft
    <3>1. BeginLoop(PrevDfsDescend, Left(tree, slice, position))
      BY <2>2 DEF OpPrevDfsLeft
    <3>2. QED
      BY <1>1, <1>2, <1>4, <2>2, <3>1, PrevDfsSearches, SearchRefines
  <2>3. QED
    BY <1>4, <2>1, <2>2 DEF OpPrevDfs
<1>5. CASE OpPrevLeaf /\ Record("PREV_LEAF")
  <2>1. BeginLoop(PrevLeafScan, Stay)
    BY <1>5 DEF OpPrevLeaf
  <2>2. QED
    BY <1>1, <1>2, <1>5, <2>1, PrevLeafScans, SearchRefines
<1>6. CASE OpNextLeaf /\ Record("NEXT_LEAF")
  <2>1. BeginLoop(NextLeafScan, Stay)
    BY <1>6 DEF OpNextLeaf
  <2>2. QED
    BY <1>1, <1>2, <1>6, <2>1, NextLeafScans, SearchRefines
<1>7. CASE PrevDfsStep /\ Record("PREV_DFS")
  <2> DEFINE child == DownLast(tree, slice, position)
  <2>1. CASE Iterate(PrevDfsDescend, child, PrevDfsDescend)
    BY <1>1, <1>2, <1>7, <2>1, PrevDfsSearches, SearchRefines
  <2>2. CASE child = Stay /\ Leave(PrevDfsDescend)
    BY <1>2, <1>7, <2>2, LeaveRefines
  <2>3. QED
    BY <1>7, <2>1, <2>2 DEF PrevDfsStep, Descend
<1>8. CASE PrevLeafStep /\ Record("PREV_LEAF")
  <2> DEFINE left  == Left(tree, slice, position)
             up    == Up(tree, slice, position)
             child == DownLast(tree, slice, position)
  <2>1. CASE Iterate(PrevLeafScan, left, PrevLeafDescend)
    BY <1>1, <1>2, <1>8, <2>1, PrevLeafDescends, SearchRefines
  <2>2. CASE left = Stay /\ Iterate(PrevLeafScan, up, PrevLeafScan)
    BY <1>1, <1>2, <1>8, <2>2, PrevLeafScans, SearchRefines
  <2>3. CASE left = Stay /\ up = Stay /\ Leave(PrevLeafScan)
    BY <1>2, <1>8, <2>3, LeaveRefines
  <2>4. CASE Iterate(PrevLeafDescend, child, PrevLeafDescend)
    BY <1>1, <1>2, <1>8, <2>4, PrevLeafDescends, SearchRefines
  <2>5. CASE child = Stay /\ Leave(PrevLeafDescend)
    BY <1>2, <1>8, <2>5, LeaveRefines
  <2>6. QED
    BY <1>8, <2>1, <2>2, <2>3, <2>4, <2>5 DEF PrevLeafStep, Scan, Descend
<1>9. CASE NextLeafStep /\ Record("NEXT_LEAF")
  <2> DEFINE right == Right(tree, slice, position)
             up    == Up(tree, slice, position)
             child == DownFirst(tree, slice, position)
  <2>1. CASE Iterate(NextLeafScan, right, NextLeafDescend)
    BY <1>1, <1>2, <1>9, <2>1, NextLeafDescends, SearchRefines
  <2>2. CASE right = Stay /\ Iterate(NextLeafScan, up, NextLeafScan)
    BY <1>1, <1>2, <1>9, <2>2, NextLeafScans, SearchRefines
  <2>3. CASE right = Stay /\ up = Stay /\ Leave(NextLeafScan)
    BY <1>2, <1>9, <2>3, LeaveRefines
  <2>4. CASE Iterate(NextLeafDescend, child, NextLeafDescend)
    BY <1>1, <1>2, <1>9, <2>4, NextLeafDescends, SearchRefines
  <2>5. CASE child = Stay /\ Leave(NextLeafDescend)
    BY <1>2, <1>9, <2>5, LeaveRefines
  <2>6. QED
    BY <1>9, <2>1, <2>2, <2>3, <2>4, <2>5 DEF NextLeafStep, Scan, Descend
<1>10. CASE UNCHANGED hvars
  <2>1. UNCHANGED Reference!vars
    BY <1>10 DEF hvars, vars, Reference!vars
  <2>2. HInv'
    BY <1>2, <1>10 DEF hvars, vars, KnownBefore, SearchInv, LeafAtEnd, Leaf
  <2>3. QED
    BY <2>1, <2>2
<1>11. QED
  BY <1>3, <1>4, <1>5, <1>6, <1>7, <1>8, <1>9, <1>10 DEF HNext, HLoopStep

(***************************************************************************)
(* At every point inside PREV_DFS, PREV_LEAF and NEXT_LEAF the cursor is   *)
(* on the way to the node that the operation promises.                     *)
(***************************************************************************)
THEOREM SearchInvariance == HSpec => []HInv
<1>1. HInit => HInv
  BY HInitRefines
<1>2. HInv /\ [HNext]_hvars => HInv'
  BY StepRefines
<1>3. QED
  BY <1>1, <1>2, PTL DEF HSpec

(***************************************************************************)
(* Every operation, loops included, does what TCondReference says it does: *)
(* in a tree of any size and shape, after any program before it.           *)
(***************************************************************************)
THEOREM Implementation == HSpec => ImplementsReference
<1>1. HInit => Reference!Init
  BY HInitRefines
<1>2. HInv /\ [HNext]_hvars => [Reference!Next]_Reference!vars
  BY StepRefines
<1>3. HSpec => Reference!Spec
  BY <1>1, <1>2, SearchInvariance, PTL DEF HSpec, Reference!Spec
<1>4. QED
  BY <1>3 DEF ImplementsReference
=============================================================================
