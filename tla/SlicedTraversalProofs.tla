----------------------- MODULE SlicedTraversalProofs -----------------------
(***************************************************************************)
(* Facts about canonical trees and the moves of SlicedTraversal, for every *)
(* tree, every sliced node and every cursor position.                      *)
(***************************************************************************)
EXTENDS SlicedTraversal, WellFoundedInduction, TLAPS

-----------------------------------------------------------------------------
(* The least-number principle, from the well-founded order on Nat. *)

Below == {p \in Nat \X Nat : p[1] < p[2]}

\* The strict order of the naturals has no infinite descent.
LEMMA BelowWellFounded == IsWellFoundedOn(Below, Nat)
<1>1. OpToRel(<, Nat) = Below
  BY DEF OpToRel, Below
<1>2. QED
  BY <1>1, NatLessThanWellFounded

\* A set of naturals that is not empty has a least element.
LEMMA LeastNatural ==
  ASSUME NEW S, S \subseteq Nat, S # {}
  PROVE  \E m \in S : \A n \in S : m <= n
<1>1. \E m \in S : \A n \in S : ~(<<n, m>> \in Below)
  BY BelowWellFounded, WFMin, Zenon
<1>2. PICK m \in S : \A n \in S : ~(<<n, m>> \in Below)
  BY <1>1
<1>3. ASSUME NEW n \in S
      PROVE  m <= n
  <2>1. m \in Nat /\ n \in Nat
    OBVIOUS
  <2>2. ~(<<n, m>> \in Below)
    BY <1>2
  <2>3. ~(n < m)
    BY <2>1, <2>2 DEF Below
  <2>4. QED
    BY <2>1, <2>3
<1>4. QED
  BY <1>3

\* A set of naturals below a bound has a greatest element.
LEMMA GreatestBelow ==
  ASSUME NEW S, NEW bound \in Nat, S \subseteq 0 .. bound, S # {}
  PROVE  \E m \in S : \A n \in S : n <= m
<1> DEFINE Gaps == {bound - n : n \in S}
<1>1. Gaps \subseteq Nat /\ Gaps # {}
  <2>1. \A n \in S : bound - n \in Nat
    OBVIOUS
  <2>2. QED
    BY <2>1
<1>2. PICK g \in Gaps : \A h \in Gaps : g <= h
  BY <1>1, LeastNatural
<1>3. PICK m \in S : g = bound - m
  BY <1>2
<1>4. ASSUME NEW n \in S
      PROVE  n <= m
  <2>1. bound - n \in Gaps
    OBVIOUS
  <2>2. bound - m <= bound - n
    BY <2>1, <1>2, <1>3
  <2>3. QED
    BY <2>2
<1>5. QED
  BY <1>4

-----------------------------------------------------------------------------
(* Canonical trees. *)

\* The nodes of a canonical tree are 0 .. NumAllocatedNodes - 1, and there
\* is a root.
LEMMA Nodes ==
  ASSUME NEW t, CanonicalTree(t)
  PROVE  /\ NumAllocatedNodes(t) \in Nat \ {0}
         /\ DOMAIN t = 0 .. NumAllocatedNodes(t) - 1
         /\ 0 \in DOMAIN t
         /\ \A n \in DOMAIN t : t[n] \in TreeNode
BY DEF CanonicalTree, RootedAtZero

\* Links and labels are integers.
LEMMA Fields ==
  ASSUME NEW t, CanonicalTree(t), NEW n \in DOMAIN t
  PROVE  /\ t[n].type \in Int /\ t[n].value \in Int
         /\ t[n].parent \in Int /\ t[n].left_sib \in Int /\ t[n].right_sib \in Int
         /\ t[n].first_child \in Int /\ t[n].last_child \in Int
         /\ t[n].child_index \in Int
BY Nodes DEF TreeNode

\* A link of a node leads to a node of the tree or is absent.
LEMMA LinksInside ==
  ASSUME NEW t, CanonicalTree(t), NEW n \in DOMAIN t
  PROVE  /\ t[n].parent      \in 0 .. n - 1 \union {-1}
         /\ t[n].left_sib    \in 0 .. n - 1 \union {-1}
         /\ t[n].right_sib   \in DOMAIN t \union {-1}
         /\ t[n].first_child \in DOMAIN t \union {-1}
         /\ t[n].last_child  \in DOMAIN t \union {-1}
<1>1. LinksConsistent(t, n)
  BY DEF CanonicalTree
<1>2. t[n].parent < n /\ t[n].left_sib < n
  BY DEF CanonicalTree, DepthFirstIds
<1>3. QED
  BY <1>1, <1>2, Nodes DEF LinksConsistent

\* The links of a node of a canonical tree, as one fact for each link.
LEMMA LinkFacts ==
  ASSUME NEW t, CanonicalTree(t), NEW n \in DOMAIN t
  PROVE  /\ n = 0 => t[n].parent = -1 /\ t[n].left_sib = -1 /\ t[n].right_sib = -1
         /\ n # 0 => t[n].parent >= 0
         /\ t[n].left_sib = -1 => t[n].child_index = 0
         /\ t[n].left_sib = -1 /\ n # 0 =>
              t[n].parent = n - 1 /\ t[n - 1].first_child = n
         /\ t[n].left_sib # -1 =>
              /\ t[t[n].left_sib].right_sib = n
              /\ t[t[n].left_sib].parent = t[n].parent
              /\ t[t[n].left_sib].child_index + 1 = t[n].child_index
         /\ t[n].right_sib # -1 => t[t[n].right_sib].left_sib = n /\ n < t[n].right_sib
         /\ t[n].right_sib = -1 /\ n # 0 => t[t[n].parent].last_child = n
         /\ t[n].first_child # -1 =>
              /\ t[n].first_child = n + 1
              /\ t[n + 1].parent = n /\ t[n + 1].left_sib = -1
         /\ t[n].last_child # -1 =>
              /\ n < t[n].last_child
              /\ t[t[n].last_child].parent = n /\ t[t[n].last_child].right_sib = -1
         /\ \A m \in n + 1 .. t[n].right_sib - 1 : n <= t[m].parent
<1>1. LinksConsistent(t, n)
  BY DEF CanonicalTree
<1>2. /\ t[n].first_child >= 0 => t[n].first_child = n + 1
      /\ t[n].last_child >= 0 => n < t[n].last_child
      /\ t[n].right_sib >= 0 => n < t[n].right_sib
      /\ \A m \in n + 1 .. t[n].right_sib - 1 : t[m].parent >= n
  BY Nodes, Fields DEF CanonicalTree, DepthFirstIds
<1>3. /\ n \in Nat
      /\ t[n].parent      \in 0 .. n - 1 \union {-1}
      /\ t[n].left_sib    \in 0 .. n - 1 \union {-1}
      /\ t[n].right_sib   \in DOMAIN t \union {-1}
      /\ t[n].first_child \in DOMAIN t \union {-1}
      /\ t[n].last_child  \in DOMAIN t \union {-1}
      /\ DOMAIN t \subseteq Nat
  BY LinksInside, Nodes
<1>4. n = 0 => t[n].parent = -1 /\ t[n].left_sib = -1 /\ t[n].right_sib = -1
  BY DEF CanonicalTree, RootedAtZero
<1>5. n # 0 => t[n].parent >= 0
  BY DEF CanonicalTree, RootedAtZero
<1>6. t[n].left_sib = -1 /\ n # 0 => t[n].parent = n - 1 /\ t[n - 1].first_child = n
  <2> SUFFICES ASSUME t[n].left_sib = -1, n # 0
               PROVE  t[n].parent = n - 1 /\ t[n - 1].first_child = n
    OBVIOUS
  <2> DEFINE q == t[n].parent
  <2>1. q \in 0 .. n - 1
    BY <1>3, <1>5
  <2>2. t[q].first_child = n
    BY <1>1, <2>1 DEF LinksConsistent
  <2>3. q \in DOMAIN t
    BY <2>1, <1>3, Nodes
  <2>4. t[q].first_child >= 0 => t[q].first_child = q + 1
    BY <2>3 DEF CanonicalTree, DepthFirstIds
  <2>5. n = q + 1
    BY <2>2, <2>4, <1>3
  <2>6. QED
    BY <2>1, <2>2, <2>5, <1>3
<1>7. t[n].right_sib # -1 => t[t[n].right_sib].left_sib = n /\ n < t[n].right_sib
  BY <1>1, <1>2, <1>3 DEF LinksConsistent
<1>8. t[n].left_sib # -1 =>
        /\ t[t[n].left_sib].right_sib = n
        /\ t[t[n].left_sib].parent = t[n].parent
        /\ t[t[n].left_sib].child_index + 1 = t[n].child_index
  BY <1>1, <1>3 DEF LinksConsistent
<1>9. t[n].right_sib = -1 /\ n # 0 => t[t[n].parent].last_child = n
  BY <1>1, <1>3, <1>5 DEF LinksConsistent
<1>10. t[n].first_child # -1 =>
         /\ t[n].first_child = n + 1
         /\ t[n + 1].parent = n /\ t[n + 1].left_sib = -1
  <2> SUFFICES ASSUME t[n].first_child # -1
               PROVE  /\ t[n].first_child = n + 1
                      /\ t[n + 1].parent = n /\ t[n + 1].left_sib = -1
    OBVIOUS
  <2>1. t[n].first_child = n + 1 /\ n + 1 \in DOMAIN t
    BY <1>2, <1>3
  <2>2. t[n + 1].parent = n /\ t[n + 1].left_sib < 0
    BY <1>1, <1>3, <2>1 DEF LinksConsistent
  <2>3. t[n + 1].left_sib \in 0 .. n \union {-1}
    BY <2>1, <1>3, LinksInside
  <2>4. QED
    BY <2>1, <2>2, <2>3
<1>11. t[n].last_child # -1 =>
         /\ n < t[n].last_child
         /\ t[t[n].last_child].parent = n /\ t[t[n].last_child].right_sib = -1
  <2> SUFFICES ASSUME t[n].last_child # -1
               PROVE  /\ n < t[n].last_child
                      /\ t[t[n].last_child].parent = n
                      /\ t[t[n].last_child].right_sib = -1
    OBVIOUS
  <2>1. t[n].last_child \in DOMAIN t /\ t[n].last_child >= 0
    BY <1>3
  <2>2. t[t[n].last_child].parent = n /\ t[t[n].last_child].right_sib < 0
    BY <1>1, <2>1 DEF LinksConsistent
  <2>3. t[t[n].last_child].right_sib \in Nat \union {-1}
    BY <2>1, <1>3, LinksInside
  <2>4. QED
    BY <2>1, <2>2, <2>3, <1>2
<1>12. t[n].left_sib = -1 => t[n].child_index = 0
  BY <1>1 DEF LinksConsistent
<1>13. \A m \in n + 1 .. t[n].right_sib - 1 : n <= t[m].parent
  <2>1. ASSUME NEW m \in n + 1 .. t[n].right_sib - 1
        PROVE  n <= t[m].parent
    BY <1>2, <1>3
  <2>2. QED
    BY <2>1
<1>14. QED
  BY <1>4, <1>5, <1>6, <1>7, <1>8, <1>9, <1>10, <1>11, <1>12, <1>13

\* The slice hides exactly the nodes from its begin on.
LEMMA Sliced ==
  ASSUME NEW t, CanonicalTree(t), NEW b \in DOMAIN t, NEW a \in BOOLEAN,
         NEW n \in DOMAIN t
  PROVE  IsNodeSliced(TreeSlice(t, b, a), n) <=> b <= n
BY Nodes DEF IsNodeSliced, TreeSlice

-----------------------------------------------------------------------------
(* What the cursor sees. *)

\* Before the predicted node the cursor sees the node of the tree.
LEMMA SeenBefore ==
  ASSUME NEW t, CanonicalTree(t), NEW b \in DOMAIN t, NEW a \in BOOLEAN,
         NEW p \in 0 .. b - 1
  PROVE  VisibleNode(t, TreeSlice(t, b, a), p) = t[p]
<1>1. p \in DOMAIN t /\ ~(b <= p)
  BY Nodes
<1>2. ~IsNodeSliced(TreeSlice(t, b, a), p)
  BY <1>1, Sliced
<1>3. QED
  BY <1>2 DEF VisibleNode

\* At the predicted node it sees its place and perhaps its type.
LEMMA SeenPredicted ==
  ASSUME NEW t, CanonicalTree(t), NEW b \in DOMAIN t, NEW a \in BOOLEAN
  PROVE  VisibleNode(t, TreeSlice(t, b, a), b) =
           [type        |-> IF a THEN Type(t[b]) ELSE EMPTY_NODE_LABEL,
            value       |-> EMPTY_NODE_LABEL,
            parent      |-> t[b].parent,
            left_sib    |-> t[b].left_sib,
            right_sib   |-> -1,
            first_child |-> -1,
            last_child  |-> -1,
            child_index |-> t[b].child_index]
<1> DEFINE s == TreeSlice(t, b, a)
<1>1. IsNodeSliced(s, b)
  BY Sliced, Nodes
<1>2. s.begin = b /\ s.allow_reading_type = a
  BY DEF TreeSlice
<1>3. VisibleNode(t, s, b) =
        [EMPTY_NODE EXCEPT
           !.child_index = t[b].child_index,
           !.left_sib    = t[b].left_sib,
           !.parent      = t[b].parent,
           !.type        = IF a THEN Type(t[b]) ELSE EMPTY_NODE_LABEL]
  BY <1>1, <1>2, Zenon DEF VisibleNode
<1>4. QED
  BY <1>3 DEF EMPTY_NODE

\* The features a program can write are integers.
LEMMA SeenLabels ==
  ASSUME NEW t, CanonicalTree(t), NEW b \in DOMAIN t, NEW a \in BOOLEAN,
         NEW p \in 0 .. b
  PROVE  LET seen == VisibleNode(t, TreeSlice(t, b, a), p) IN
         Type(seen) \in Int /\ Value(seen) \in Int /\ seen.child_index \in Int
<1>1. p \in DOMAIN t /\ p \in 0 .. b - 1 \union {b}
  BY Nodes
<1>2. CASE p \in 0 .. b - 1
  BY <1>1, <1>2, SeenBefore, Fields DEF Type, Value, EMPTY_NODE_LABEL
<1>3. CASE p = b
  BY <1>1, <1>3, SeenPredicted, Fields DEF Type, Value, EMPTY_NODE_LABEL
<1>4. QED
  BY <1>1, <1>2, <1>3

-----------------------------------------------------------------------------
(* The moves of the cursor, from a position that is not hidden. *)

Reached(n, last) == n = Stay \/ n \in 0 .. last

\* left() reaches a node before the cursor, and its CHECK holds.
LEMMA LeftReaches ==
  ASSUME NEW t, CanonicalTree(t), NEW b \in DOMAIN t, NEW a \in BOOLEAN,
         NEW p \in 0 .. b
  PROVE  /\ Reached(Left(t, TreeSlice(t, b, a), p), p - 1)
         /\ LeftCheck(t, TreeSlice(t, b, a), p)
<1>1. p \in DOMAIN t /\ b \in Nat
  BY Nodes
<1>2. t[p].left_sib \in 0 .. p - 1 \union {-1}
  BY <1>1, LinksInside
<1>3. t[p].left_sib \in 0 .. p - 1 => ~IsNodeSliced(TreeSlice(t, b, a), t[p].left_sib)
  BY <1>1, Nodes, Sliced
<1>4. QED
  BY <1>2, <1>3 DEF Left, LeftCheck, Reached, Stay

\* up() reaches a node before the cursor, and its CHECK holds.
LEMMA UpReaches ==
  ASSUME NEW t, CanonicalTree(t), NEW b \in DOMAIN t, NEW a \in BOOLEAN,
         NEW p \in 0 .. b
  PROVE  /\ Reached(Up(t, TreeSlice(t, b, a), p), p - 1)
         /\ UpCheck(t, TreeSlice(t, b, a), p)
<1>1. p \in DOMAIN t /\ b \in Nat
  BY Nodes
<1>2. t[p].parent \in 0 .. p - 1 \union {-1}
  BY <1>1, LinksInside
<1>3. t[p].parent \in 0 .. p - 1 => ~IsNodeSliced(TreeSlice(t, b, a), t[p].parent)
  BY <1>1, Nodes, Sliced
<1>4. QED
  BY <1>2, <1>3 DEF Up, UpCheck, Reached, Stay

\* right() reaches the predicted node or a node before it.
LEMMA RightReaches ==
  ASSUME NEW t, CanonicalTree(t), NEW b \in DOMAIN t, NEW a \in BOOLEAN,
         NEW p \in 0 .. b
  PROVE  Reached(Right(t, TreeSlice(t, b, a), p), b)
<1> DEFINE s == TreeSlice(t, b, a)
<1>1. p \in DOMAIN t /\ b \in Nat
  BY Nodes
<1>2. VisibleNode(t, s, p).right_sib \in {t[p].right_sib, -1}
  BY <1>1, SeenBefore, SeenPredicted
<1>3. t[p].right_sib \in DOMAIN t \union {-1}
  BY <1>1, LinksInside
<1>4. t[p].right_sib \in DOMAIN t => (IsNodeSliced(s, t[p].right_sib) <=> b <= t[p].right_sib)
  BY Sliced
<1>5. s.begin = b
  BY DEF TreeSlice
<1>6. QED
  BY <1>1, <1>2, <1>3, <1>4, <1>5, Nodes DEF Right, Reached, Stay

\* down_first_child() reaches the predicted node or a node before it.
LEMMA DownFirstReaches ==
  ASSUME NEW t, CanonicalTree(t), NEW b \in DOMAIN t, NEW a \in BOOLEAN,
         NEW p \in 0 .. b
  PROVE  Reached(DownFirst(t, TreeSlice(t, b, a), p), b)
<1> DEFINE s == TreeSlice(t, b, a)
<1>1. p \in DOMAIN t /\ b \in Nat
  BY Nodes
<1>2. t[p].first_child \in DOMAIN t \union {-1}
  BY <1>1, LinksInside
<1>3. t[p].first_child \in DOMAIN t => (IsNodeSliced(s, t[p].first_child) <=> b <= t[p].first_child)
  BY Sliced
<1>4. s.begin = b
  BY DEF TreeSlice
<1>5. QED
  BY <1>1, <1>2, <1>3, <1>4, Nodes DEF DownFirst, Reached, Stay

\* down_last_child() reaches a node before the predicted one.
LEMMA DownLastReaches ==
  ASSUME NEW t, CanonicalTree(t), NEW b \in DOMAIN t, NEW a \in BOOLEAN,
         NEW p \in 0 .. b
  PROVE  Reached(DownLast(t, TreeSlice(t, b, a), p), b - 1)
<1> DEFINE s == TreeSlice(t, b, a)
<1>1. p \in DOMAIN t /\ b \in Nat
  BY Nodes
<1>2. t[p].last_child \in DOMAIN t \union {-1}
  BY <1>1, LinksInside
<1>3. t[p].last_child \in DOMAIN t => (IsNodeSliced(s, t[p].last_child) <=> b <= t[p].last_child)
  BY Sliced
<1>4. QED
  BY <1>1, <1>2, <1>3, Nodes DEF DownLast, Reached, Stay

\* The actor index moves the cursor to an earlier node.
LEMMA MoveLeftReaches ==
  ASSUME NEW t, CanonicalTree(t), NEW s, NEW kind, NEW p \in DOMAIN t
  PROVE  Reached(MoveLeft(kind, t, s, p), p - 1)
<1> DEFINE symbol  == ActorSymbol(kind, t, s, p)
           earlier == {n \in DOMAIN t : n < p /\ ActorSymbol(kind, t, NoSlice, n) = symbol}
<1>1. earlier \subseteq 0 .. p - 1
  BY Nodes
<1>2. ASSUME earlier # {}
      PROVE  Latest(earlier) \in 0 .. p - 1
  <2>1. p \in Nat /\ earlier \subseteq 0 .. p
    BY <1>1, Nodes
  <2>2. \E m \in earlier : \A n \in earlier : n <= m
    BY <1>2, <2>1, GreatestBelow
  <2>3. Latest(earlier) \in earlier
    BY <2>2 DEF Latest
  <2>4. QED
    BY <2>3, <1>1
<1>3. MoveLeft(kind, t, s, p) \in {Stay, Latest(earlier)}
      /\ (earlier = {} => MoveLeft(kind, t, s, p) = Stay)
  BY DEF MoveLeft
<1>4. QED
  BY <1>2, <1>3 DEF Reached

-----------------------------------------------------------------------------
(* The moves as the links they follow. Stay = -1 = the absent link, so     *)
(* left() and up() are the links themselves.                               *)

\* In a visible node left() and up() follow the links.
LEMMA LeftUpAreLinks ==
  ASSUME NEW t, CanonicalTree(t), NEW s, NEW p \in DOMAIN t,
         \A n \in 0 .. p - 1 : ~IsNodeSliced(s, n)
  PROVE  Left(t, s, p) = t[p].left_sib /\ Up(t, s, p) = t[p].parent
<1>1. t[p].left_sib \in 0 .. p - 1 \union {-1} /\ t[p].parent \in 0 .. p - 1 \union {-1}
  BY LinksInside
<1>2. p \in Nat
  BY Nodes
<1>3. QED
  BY <1>1, <1>2 DEF Left, Up, Stay

\* A slice does not hide what is before its begin.
LEMMA VisibleBefore ==
  ASSUME NEW t, CanonicalTree(t), NEW b \in DOMAIN t, NEW a \in BOOLEAN, NEW p \in 0 .. b
  PROVE  \A n \in 0 .. p - 1 : ~IsNodeSliced(TreeSlice(t, b, a), n)
<1>1. ASSUME NEW n \in 0 .. p - 1
      PROVE  ~IsNodeSliced(TreeSlice(t, b, a), n)
  <2>1. n \in DOMAIN t /\ ~(b <= n)
    BY Nodes
  <2>2. QED
    BY <2>1, Sliced
<1>2. QED
  BY <1>1

\* right() goes to an earlier node or to the predicted one, where the right
\* sibling is the node whose left sibling is p.
LEMMA RightIs ==
  ASSUME NEW t, CanonicalTree(t), NEW b \in DOMAIN t, NEW a \in BOOLEAN, NEW p \in 0 .. b
  PROVE  Right(t, TreeSlice(t, b, a), p) =
           IF p < b /\ t[p].right_sib <= b THEN t[p].right_sib ELSE Stay
<1> DEFINE s == TreeSlice(t, b, a)
           r == t[p].right_sib
<1>1. b \in Nat /\ p \in DOMAIN t /\ s.begin = b
  BY Nodes DEF TreeSlice
<1>2. CASE p = b
  BY <1>1, <1>2, SeenPredicted DEF Right, Stay
<1>3. CASE p \in 0 .. b - 1
  <2>1. VisibleNode(t, s, p).right_sib = r
    BY <1>3, SeenBefore
  <2>2. r \in DOMAIN t \union {-1} /\ DOMAIN t \subseteq Nat
    BY <1>1, LinksInside, Nodes
  <2>3. r \in DOMAIN t => (IsNodeSliced(s, r) <=> b <= r)
    BY Sliced
  <2>4. QED
    BY <1>1, <1>3, <2>1, <2>2, <2>3 DEF Right, Stay
<1>4. QED
  BY <1>1, <1>2, <1>3

\* down_first_child() goes to the next node if there is a child.
LEMMA DownFirstIs ==
  ASSUME NEW t, CanonicalTree(t), NEW b \in DOMAIN t, NEW a \in BOOLEAN, NEW p \in 0 .. b
  PROVE  DownFirst(t, TreeSlice(t, b, a), p) =
           IF p < b /\ t[p].first_child # -1 THEN p + 1 ELSE Stay
<1> DEFINE s == TreeSlice(t, b, a)
           c == t[p].first_child
<1>1. b \in Nat /\ p \in DOMAIN t /\ s.begin = b /\ p \in Nat
  BY Nodes DEF TreeSlice
<1>2. c \in DOMAIN t \union {-1} /\ (c # -1 => c = p + 1)
  BY <1>1, LinksInside, LinkFacts
<1>3. c \in DOMAIN t => (IsNodeSliced(s, c) <=> b <= c)
  BY Sliced
<1>4. QED
  BY <1>1, <1>2, <1>3 DEF DownFirst, Stay

\* down_last_child() goes to a visible last child with a known label.
LEMMA DownLastIs ==
  ASSUME NEW t, CanonicalTree(t), NEW b \in DOMAIN t, NEW a \in BOOLEAN, NEW p \in 0 .. b
  PROVE  LET c == t[p].last_child IN
         DownLast(t, TreeSlice(t, b, a), p) =
           IF p < b /\ c \in 0 .. b - 1 /\ ~HasNonTerminal(t[c]) THEN c ELSE Stay
<1> DEFINE s == TreeSlice(t, b, a)
           c == t[p].last_child
<1>1. b \in Nat /\ p \in DOMAIN t /\ p \in Nat /\ DOMAIN t \subseteq Nat
  BY Nodes
<1>2. c \in DOMAIN t \union {-1} /\ (c # -1 => p < c)
  BY <1>1, LinksInside, LinkFacts
<1>3. c \in DOMAIN t => (IsNodeSliced(s, c) <=> b <= c)
  BY Sliced
<1>4. QED
  BY <1>1, <1>2, <1>3 DEF DownLast, Stay

-----------------------------------------------------------------------------
(* Depth-first order: the subtree of a node is an interval of ids.         *)

\* m is n or a descendant of n.
InSubtree(t, m, n) == m >= n /\ \A k \in n + 1 .. m : t[k].parent >= n

\* A node is in the subtree of its parent. The least one that is not would
\* have a left sibling, which is in it, and whose subtree ends before it.
LEMMA ChildInSubtree ==
  ASSUME NEW t, CanonicalTree(t), NEW c \in DOMAIN t, t[c].parent # -1
  PROVE  InSubtree(t, c, t[c].parent)
<1> DEFINE S == {m \in DOMAIN t : t[m].parent # -1 /\ ~InSubtree(t, m, t[m].parent)}
<1> SUFFICES ASSUME S # {}
             PROVE  FALSE
  OBVIOUS
<1>1. DOMAIN t \subseteq Nat
  BY Nodes
<1>2. PICK m \in S : \A n \in S : m <= n
  BY <1>1, LeastNatural
<1> DEFINE n == t[m].parent
           l == t[m].left_sib
<1>3. m \in DOMAIN t /\ m \in Nat /\ n \in 0 .. m - 1 /\ l \in 0 .. m - 1 \union {-1} /\ m # 0
  BY <1>1, <1>2, LinksInside, LinkFacts
<1>4. CASE l = -1
  <2>1. n = m - 1
    BY <1>3, <1>4, LinkFacts
  <2>2. InSubtree(t, m, n)
    BY <1>3, <2>1 DEF InSubtree
  <2>3. QED
    BY <1>2, <2>2
<1>5. CASE l # -1
  <2>1. l \in DOMAIN t /\ l \in 0 .. m - 1
    BY <1>3, <1>5, Nodes
  <2>2. t[l].right_sib = m /\ t[l].parent = n
    BY <1>3, <1>5, LinkFacts
  <2>3. InSubtree(t, l, n)
    BY <1>2, <1>3, <2>1, <2>2
  <2>4. \A k \in l + 1 .. m - 1 : l <= t[k].parent
    BY <2>1, <2>2, LinkFacts
  <2>5. n < l
    BY <2>1, <2>2, <1>3, LinksInside
  <2>6. ASSUME NEW k \in n + 1 .. m
        PROVE  t[k].parent >= n
    <3>1. k \in DOMAIN t
      BY <1>3, Nodes
    <3>2. t[k].parent \in Int
      BY <3>1, Fields
    <3>3. k \in n + 1 .. l \/ k \in l + 1 .. m - 1 \/ k = m
      BY <1>3, <2>1
    <3>4. QED
      BY <1>3, <2>1, <2>3, <2>4, <2>5, <3>2, <3>3 DEF InSubtree
  <2>7. InSubtree(t, m, n)
    BY <1>3, <2>6 DEF InSubtree
  <2>8. QED
    BY <1>2, <2>7
<1>6. QED
  BY <1>4, <1>5

\* No sibling is between a node and its left sibling.
LEMMA LeftSibling ==
  ASSUME NEW t, CanonicalTree(t), NEW c \in DOMAIN t, NEW d \in DOMAIN t,
         d < c, t[d].parent = t[c].parent
  PROVE  t[c].left_sib # -1 /\ d <= t[c].left_sib
<1> DEFINE l == t[c].left_sib
<1>1. /\ c \in Nat /\ d \in Nat /\ c # 0 /\ l \in 0 .. c - 1 \union {-1}
      /\ t[d].parent \in 0 .. d - 1 \union {-1} /\ DOMAIN t \subseteq Nat
  BY Nodes, LinksInside
<1>2. l # -1
  <2>1. l = -1 => t[c].parent = c - 1
    BY <1>1, LinkFacts
  <2>2. QED
    BY <1>1, <2>1
<1>3. l \in DOMAIN t /\ t[l].right_sib = c /\ t[l].parent = t[c].parent
  BY <1>1, <1>2, LinkFacts, Nodes
<1>4. \A k \in l + 1 .. c - 1 : l <= t[k].parent
  BY <1>3, LinkFacts
<1>5. t[l].parent < l
  BY <1>1, <1>2, <1>3, LinksInside
<1>6. ~(l < d)
  <2> SUFFICES ASSUME l < d
               PROVE  FALSE
    OBVIOUS
  <2>1. d \in l + 1 .. c - 1
    BY <1>1, <1>2
  <2>2. l <= t[d].parent
    BY <1>4, <2>1
  <2>3. QED
    BY <1>1, <1>2, <1>3, <1>5, <2>2
<1>7. QED
  BY <1>1, <1>2, <1>6

\* No sibling is between a node and its right sibling.
LEMMA RightSibling ==
  ASSUME NEW t, CanonicalTree(t), NEW c \in DOMAIN t, NEW d \in DOMAIN t,
         d < c, t[d].parent = t[c].parent
  PROVE  t[d].right_sib # -1 /\ t[d].right_sib <= c
<1> DEFINE S == {m \in DOMAIN t : d < m /\ t[m].parent = t[d].parent}
<1>1. S \subseteq Nat /\ c \in S /\ DOMAIN t \subseteq Nat
  BY Nodes
<1>2. PICK m \in S : \A n \in S : m <= n
  BY <1>1, LeastNatural
<1> DEFINE l == t[m].left_sib
<1>3. l # -1 /\ d <= l
  BY <1>2, LeftSibling
<1>4. l \in 0 .. m - 1 /\ l \in DOMAIN t
  BY <1>1, <1>2, <1>3, LinksInside, Nodes
<1>5. t[l].right_sib = m /\ t[l].parent = t[d].parent
  BY <1>2, <1>3, LinkFacts
<1>6. l = d
  BY <1>1, <1>2, <1>3, <1>4, <1>5
<1>7. m <= c /\ m # -1
  BY <1>1, <1>2
<1>8. QED
  BY <1>5, <1>6, <1>7

\* The parent of a node has links to its first and to its last child.
LEMMA ParentLinks ==
  ASSUME NEW t, CanonicalTree(t), NEW c \in DOMAIN t, t[c].parent # -1
  PROVE  LET n == t[c].parent IN
         /\ n \in DOMAIN t
         /\ t[n].first_child = n + 1 /\ n + 1 \in DOMAIN t /\ n + 1 <= c
         /\ t[n].last_child \in DOMAIN t /\ c <= t[n].last_child
<1> DEFINE n == t[c].parent
           S == {m \in DOMAIN t : t[m].parent = n}
<1>1. S \subseteq Nat /\ c \in S /\ DOMAIN t \subseteq Nat /\ n \in 0 .. c - 1 /\ n \in DOMAIN t
  BY Nodes, LinksInside
<1>2. PICK m \in S : \A k \in S : m <= k
  BY <1>1, LeastNatural
<1>3. m # 0 /\ m \in DOMAIN t /\ m <= c
  BY <1>1, <1>2, LinkFacts
<1>4. t[m].left_sib = -1
  <2> SUFFICES ASSUME t[m].left_sib # -1
               PROVE  FALSE
    OBVIOUS
  <2>1. t[m].left_sib \in 0 .. m - 1 /\ t[m].left_sib \in DOMAIN t
    BY <1>1, <1>3, LinksInside, Nodes
  <2>2. t[m].left_sib \in S
    BY <1>2, <2>1, LinkFacts
  <2>3. QED
    BY <1>1, <1>2, <2>1, <2>2
<1>5. t[m].parent = m - 1 /\ t[m - 1].first_child = m
  BY <1>3, <1>4, LinkFacts
<1>6. n + 1 = m
  BY <1>1, <1>2, <1>5
<1>7. t[n].first_child = n + 1
  BY <1>1, <1>5, <1>6
<1>8. LinksConsistent(t, n)
  BY <1>1 DEF CanonicalTree
<1>9. t[n].last_child # -1 /\ t[n].last_child \in DOMAIN t
  <2>1. t[n].last_child \in DOMAIN t \union {-1}
    BY <1>1, LinksInside
  <2>2. t[n].last_child >= 0
    BY <1>1, <1>7, <1>8 DEF LinksConsistent
  <2>3. QED
    BY <2>1, <2>2
<1>10. c <= t[n].last_child
  <2> SUFFICES ASSUME t[n].last_child < c
               PROVE  FALSE
    BY <1>1, <1>9
  <2>1. t[t[n].last_child].parent = n /\ t[t[n].last_child].right_sib = -1
    BY <1>1, <1>9, LinkFacts
  <2>2. QED
    BY <1>9, <2>1, RightSibling
<1>11. QED
  BY <1>1, <1>3, <1>6, <1>7, <1>9, <1>10

\* What follows the subtree of a last child follows that of its parent.
LEMMA LastChildCloses ==
  ASSUME NEW t, CanonicalTree(t), NEW q \in DOMAIN t, t[q].right_sib = -1, q # 0,
         NEW k \in DOMAIN t, q < k, t[k].parent < q
  PROVE  t[k].parent < t[q].parent
<1> DEFINE u == t[q].parent
           j == t[k].parent
<1>1. /\ q \in Nat /\ k \in Nat /\ k # 0 /\ DOMAIN t \subseteq Nat
      /\ u \in 0 .. q - 1 /\ j \in 0 .. k - 1
  BY Nodes, LinksInside, LinkFacts
<1>2. j # u
  BY RightSibling
<1>3. ~(u < j)
  <2> SUFFICES ASSUME u < j
               PROVE  FALSE
    OBVIOUS
  <2>1. InSubtree(t, k, j)
    BY <1>1, ChildInSubtree
  <2>2. q \in j + 1 .. k
    BY <1>1
  <2>3. u >= j
    BY <2>1, <2>2 DEF InSubtree
  <2>4. QED
    BY <1>1, <2>3
<1>4. QED
  BY <1>1, <1>2, <1>3

\* Only a node with a child has descendants.
LEMMA DescendantOfParent ==
  ASSUME NEW t, CanonicalTree(t), NEW n \in DOMAIN t, NEW m \in DOMAIN t,
         n < m, InSubtree(t, m, n)
  PROVE  n + 1 \in DOMAIN t /\ t[n + 1].parent = n
<1>1. n + 1 \in DOMAIN t /\ n + 1 \in n + 1 .. m /\ n \in Nat
  BY Nodes
<1>2. t[n + 1].parent >= n
  BY <1>1 DEF InSubtree
<1>3. t[n + 1].parent \in 0 .. n \union {-1}
  BY <1>1, LinksInside
<1>4. QED
  BY <1>1, <1>2, <1>3

-----------------------------------------------------------------------------
(* What the moves find, said without links.                                *)

ChildrenOf(t, n) == {m \in DOMAIN t : t[m].parent = n}

\* The root counts as the only child of nothing.
SiblingsOf(t, n) == IF n = 0 THEN {0} ELSE ChildrenOf(t, t[n].parent)

\* The target is the last or the first node of S, or Stay when S is empty.
FindsLast(S, target) ==
  IF S = {} THEN target = Stay ELSE target \in S /\ \A n \in S : n <= target
FindsFirst(S, target) ==
  IF S = {} THEN target = Stay ELSE target \in S /\ \A n \in S : target <= n

\* left() finds the sibling before the node.
LEMMA LeftFinds ==
  ASSUME NEW t, CanonicalTree(t), NEW b \in DOMAIN t, NEW a \in BOOLEAN, NEW p \in 0 .. b
  PROVE  FindsLast({n \in SiblingsOf(t, p) : n < p}, Left(t, TreeSlice(t, b, a), p))
<1> DEFINE S == {n \in SiblingsOf(t, p) : n < p}
           l == t[p].left_sib
<1>1. p \in DOMAIN t /\ p \in Nat /\ DOMAIN t \subseteq Nat
  BY Nodes
<1>2. Left(t, TreeSlice(t, b, a), p) = l
  BY <1>1, VisibleBefore, LeftUpAreLinks
<1>3. l \in 0 .. p - 1 \union {-1}
  BY <1>1, LinksInside
<1>4. ASSUME NEW n \in S
      PROVE  l # -1 /\ n <= l
  <2>1. p # 0
    BY <1>1 DEF SiblingsOf
  <2>2. n \in DOMAIN t /\ t[n].parent = t[p].parent /\ n < p
    BY <2>1 DEF SiblingsOf, ChildrenOf
  <2>3. QED
    BY <1>1, <2>2, LeftSibling
<1>5. l # -1 => l \in S
  <2> SUFFICES ASSUME l # -1
               PROVE  l \in S
    OBVIOUS
  <2>1. t[l].parent = t[p].parent
    BY <1>1, LinkFacts
  <2>2. l \in DOMAIN t /\ l < p /\ p # 0
    BY <1>1, <1>3, Nodes
  <2>3. QED
    BY <2>1, <2>2 DEF SiblingsOf, ChildrenOf
<1>6. QED
  BY <1>2, <1>4, <1>5 DEF FindsLast, Stay

\* right() finds the sibling behind the node, up to the predicted one.
LEMMA RightFinds ==
  ASSUME NEW t, CanonicalTree(t), NEW b \in DOMAIN t, NEW a \in BOOLEAN, NEW p \in 0 .. b
  PROVE  FindsFirst({n \in SiblingsOf(t, p) \cap (0 .. b) : n > p},
                    Right(t, TreeSlice(t, b, a), p))
<1> DEFINE S == {n \in SiblingsOf(t, p) \cap (0 .. b) : n > p}
           r == t[p].right_sib
           right == Right(t, TreeSlice(t, b, a), p)
<1>1. p \in DOMAIN t /\ p \in Nat /\ b \in Nat /\ DOMAIN t \subseteq Nat
  BY Nodes
<1>2. right = IF p < b /\ r <= b THEN r ELSE Stay
  BY RightIs
<1>3. r \in DOMAIN t \union {-1}
  BY <1>1, LinksInside
<1>4. ASSUME NEW n \in S
      PROVE  right # -1 /\ right <= n
  <2>1. p # 0
    BY <1>1 DEF SiblingsOf
  <2>2. n \in DOMAIN t /\ t[n].parent = t[p].parent /\ p < n /\ n <= b
    BY <2>1 DEF SiblingsOf, ChildrenOf
  <2>3. r # -1 /\ r <= n
    BY <1>1, <2>2, RightSibling
  <2>4. QED
    BY <1>1, <1>2, <1>3, <2>2, <2>3
<1>5. right # -1 => right \in S
  <2> SUFFICES ASSUME right # -1
               PROVE  right \in S
    OBVIOUS
  <2>1. right = r /\ r # -1 /\ r <= b
    BY <1>2 DEF Stay
  <2>2. r \in DOMAIN t /\ t[r].left_sib = p /\ p < r
    BY <1>1, <1>3, <2>1, LinkFacts
  <2>3. t[r].parent = t[p].parent
    BY <1>1, <2>2, LinkFacts
  <2>4. p # 0
    BY <1>1, <2>1, LinkFacts
  <2>5. QED
    BY <1>1, <2>1, <2>2, <2>3, <2>4 DEF SiblingsOf, ChildrenOf
<1>6. QED
  BY <1>4, <1>5 DEF FindsFirst, Stay

\* down_first_child() finds the first child, up to the predicted node.
LEMMA DownFirstFinds ==
  ASSUME NEW t, CanonicalTree(t), NEW b \in DOMAIN t, NEW a \in BOOLEAN, NEW p \in 0 .. b
  PROVE  FindsFirst(ChildrenOf(t, p) \cap (0 .. b), DownFirst(t, TreeSlice(t, b, a), p))
<1> DEFINE S == ChildrenOf(t, p) \cap (0 .. b)
           child == DownFirst(t, TreeSlice(t, b, a), p)
<1>1. p \in DOMAIN t /\ p \in Nat /\ b \in Nat /\ DOMAIN t \subseteq Nat
  BY Nodes
<1>2. child = IF p < b /\ t[p].first_child # -1 THEN p + 1 ELSE Stay
  BY DownFirstIs
<1>3. ASSUME NEW n \in S
      PROVE  child = p + 1 /\ child <= n
  <2>1. n \in DOMAIN t /\ t[n].parent = p /\ p # -1 /\ n <= b
    BY <1>1 DEF ChildrenOf
  <2>2. t[p].first_child = p + 1 /\ p + 1 <= n
    BY <2>1, ParentLinks
  <2>3. n \in Nat
    BY <1>1, <2>1
  <2>4. p < b /\ t[p].first_child # -1
    BY <1>1, <2>1, <2>2, <2>3
  <2>5. child = p + 1
    BY <1>2, <2>4
  <2>6. QED
    BY <2>2, <2>5
<1>4. child # Stay => child \in S
  <2> SUFFICES ASSUME child # Stay
               PROVE  child \in S
    OBVIOUS
  <2>1. child = p + 1 /\ p < b /\ t[p].first_child # -1
    BY <1>2
  <2>2. t[p].first_child = p + 1 /\ t[p + 1].parent = p
    BY <1>1, <2>1, LinkFacts
  <2>3. p + 1 \in DOMAIN t /\ p + 1 \in 0 .. b
    BY <1>1, <2>1, Nodes
  <2>4. QED
    BY <2>1, <2>2, <2>3 DEF ChildrenOf
<1>5. QED
  BY <1>1, <1>3, <1>4 DEF FindsFirst, Stay

\* The last child of a node, which need not be visible.
LEMMA LastChildFinds ==
  ASSUME NEW t, CanonicalTree(t), NEW p \in DOMAIN t
  PROVE  FindsLast(ChildrenOf(t, p), t[p].last_child)
<1> DEFINE S == ChildrenOf(t, p)
           c == t[p].last_child
<1>1. p \in Nat /\ DOMAIN t \subseteq Nat /\ c \in DOMAIN t \union {-1}
  BY Nodes, LinksInside
<1>2. ASSUME NEW n \in S
      PROVE  c # -1 /\ n <= c
  <2>1. n \in DOMAIN t /\ t[n].parent = p /\ p # -1
    BY <1>1 DEF ChildrenOf
  <2>2. c \in DOMAIN t /\ n <= c
    BY <2>1, ParentLinks
  <2>3. QED
    BY <1>1, <2>2
<1>3. c # -1 => c \in S
  BY <1>1, LinkFacts DEF ChildrenOf
<1>4. QED
  BY <1>2, <1>3 DEF FindsLast, Stay

-----------------------------------------------------------------------------
(* The loops that go from leaf to leaf.                                    *)

\* The subtree of n ends at e, behind which there is another node.
EndsAt(t, n, e) == InSubtree(t, e, n) /\ t[e + 1].parent < n

\* The subtree of a left sibling ends before the node.
LEMMA LeftEndsAt ==
  ASSUME NEW t, CanonicalTree(t), NEW p \in DOMAIN t, t[p].left_sib # -1
  PROVE  t[p].left_sib \in 0 .. p - 1 /\ EndsAt(t, t[p].left_sib, p - 1)
<1> DEFINE l == t[p].left_sib
<1>1. p \in Nat /\ l \in 0 .. p - 1 /\ l \in DOMAIN t
  BY Nodes, LinksInside
<1>2. t[l].right_sib = p /\ t[l].parent = t[p].parent
  BY LinkFacts
<1>3. \A k \in l + 1 .. p - 1 : l <= t[k].parent
  BY <1>1, <1>2, LinkFacts
<1>4. t[p].parent < l
  BY <1>1, <1>2, LinksInside
<1>5. \A k \in l + 1 .. p - 1 : t[k].parent >= l
  BY <1>1, <1>3
<1>6. p - 1 + 1 = p
  BY <1>1
<1>7. QED
  BY <1>1, <1>4, <1>5, <1>6 DEF EndsAt, InSubtree

\* down_last_child() stays in the end of a subtree, until it is there.
LEMMA DownLastDescends ==
  ASSUME NEW t, CanonicalTree(t), NEW b \in DOMAIN t, NEW a \in BOOLEAN,
         \A n \in 0 .. b - 1 : ~HasNonTerminal(t[n]),
         NEW q \in 0 .. b - 1, NEW e \in q .. b - 1, EndsAt(t, q, e)
  PROVE  LET c == DownLast(t, TreeSlice(t, b, a), q) IN
         IF c = Stay THEN e = q /\ ChildrenOf(t, q) = {}
         ELSE c \in q + 1 .. e /\ EndsAt(t, c, e)
<1> DEFINE c == t[q].last_child
<1>1. /\ b \in Nat /\ q \in Nat /\ e \in Nat /\ DOMAIN t \subseteq Nat
      /\ q \in DOMAIN t /\ e \in DOMAIN t /\ e + 1 \in DOMAIN t
      /\ c \in DOMAIN t \union {-1} /\ q \in 0 .. b
  <2>1. b \in Nat /\ q \in Nat /\ e \in Nat /\ DOMAIN t \subseteq Nat
    BY Nodes
  <2>2. q \in DOMAIN t /\ e \in DOMAIN t /\ e + 1 \in DOMAIN t
    BY <2>1, Nodes
  <2>3. QED
    BY <2>1, <2>2, LinksInside
<1>2. ASSUME c # -1
      PROVE  c \in q + 1 .. e /\ t[c].parent = q /\ t[c].right_sib = -1
  <2>1. t[c].parent = q /\ t[c].right_sib = -1 /\ q < c /\ c \in DOMAIN t
    BY <1>1, <1>2, LinkFacts
  <2>2. InSubtree(t, c, q)
    BY <1>1, <2>1, ChildInSubtree
  <2>3. ~(e < c)
    <3> SUFFICES ASSUME e < c
                 PROVE  FALSE
      OBVIOUS
    <3>1. e + 1 \in q + 1 .. c
      BY <1>1, <2>1
    <3>2. t[e + 1].parent >= q
      BY <2>2, <3>1 DEF InSubtree
    <3>3. t[e + 1].parent \in Int
      BY <1>1, Fields
    <3>4. QED
      BY <1>1, <3>2, <3>3 DEF EndsAt
  <2>4. QED
    BY <1>1, <2>1, <2>3
<1>3. DownLast(t, TreeSlice(t, b, a), q) = c
  <2>1. c # -1 => c \in 0 .. b - 1 /\ ~HasNonTerminal(t[c])
    BY <1>1, <1>2
  <2>2. q < b
    BY <1>1
  <2>3. QED
    BY <1>1, <2>1, <2>2, DownLastIs DEF Stay
<1>4. CASE c = -1
  <2>1. ChildrenOf(t, q) = {}
    BY <1>1, <1>4, LastChildFinds DEF FindsLast, ChildrenOf
  <2>2. ~(q < e)
    BY <1>1, <2>1, DescendantOfParent DEF EndsAt, ChildrenOf
  <2>3. QED
    BY <1>1, <1>3, <1>4, <2>1, <2>2 DEF Stay
<1>5. CASE c # -1
  <2>1. c \in q + 1 .. e /\ t[c].parent = q /\ t[c].right_sib = -1 /\ c # 0 /\ c \in DOMAIN t
    BY <1>1, <1>2, <1>5
  <2>2. t[e + 1].parent < c
    <3>1. t[e + 1].parent \in Int
      BY <1>1, Fields
    <3>2. QED
      BY <1>1, <2>1, <3>1 DEF EndsAt
  <2>3. ASSUME NEW k \in c + 1 .. e
        PROVE  t[k].parent >= c
    <3>1. k \in DOMAIN t /\ k \in q + 1 .. e /\ c < k
      <4>1. c \in q + 1 .. e /\ q \in Nat /\ e \in Nat /\ e \in DOMAIN t
        BY <1>1, <2>1
      <4>2. k \in 0 .. e /\ k \in q + 1 .. e /\ c < k
        BY <4>1
      <4>3. 0 .. e \subseteq DOMAIN t
        BY <4>1, Nodes
      <4> QED
        BY <4>2, <4>3
    <3>2. t[k].parent >= q /\ t[k].parent \in Int
      BY <3>1, Fields DEF EndsAt, InSubtree
    <3>3. ~(t[k].parent < c)
      BY <1>1, <2>1, <3>1, <3>2, LastChildCloses
    <3>4. QED
      BY <1>1, <2>1, <3>2, <3>3
  <2>4. EndsAt(t, c, e)
    BY <1>1, <2>1, <2>2, <2>3 DEF EndsAt, InSubtree
  <2>5. QED
    BY <1>3, <1>5, <2>1, <2>4 DEF Stay
<1>6. QED
  BY <1>4, <1>5

\* The leaves behind the subtree of q, and those from a node r on; the node
\* that is predicted counts as a leaf.
LeavesBehind(t, b, q) ==
  {n \in 0 .. b : n > q /\ ~InSubtree(t, n, q) /\ (ChildrenOf(t, n) = {} \/ n = b)}
LeavesFrom(t, b, r) == {n \in 0 .. b : n >= r /\ (ChildrenOf(t, n) = {} \/ n = b)}

\* All nodes are in the subtree of the root.
LEMMA NothingBehindRoot ==
  ASSUME NEW t, CanonicalTree(t), NEW b \in DOMAIN t
  PROVE  LeavesBehind(t, b, 0) = {}
<1>1. ASSUME NEW n \in 0 .. b
      PROVE  InSubtree(t, n, 0)
  <2>1. \A k \in 1 .. n : k \in DOMAIN t
    BY Nodes
  <2>2. \A k \in 1 .. n : t[k].parent >= 0
    BY <2>1, LinkFacts
  <2>3. QED
    BY <2>2 DEF InSubtree
<1>2. QED
  BY <1>1 DEF LeavesBehind

\* Where right() stays, nothing is between the subtree and that of the parent.
LEMMA BehindParent ==
  ASSUME NEW t, CanonicalTree(t), NEW b \in DOMAIN t, NEW a \in BOOLEAN, NEW q \in 0 .. b,
         Right(t, TreeSlice(t, b, a), q) = Stay, q # 0
  PROVE  LeavesBehind(t, b, t[q].parent) = LeavesBehind(t, b, q)
<1> DEFINE u == t[q].parent
           r == t[q].right_sib
<1>1. /\ q \in DOMAIN t /\ q \in Nat /\ b \in Nat /\ DOMAIN t \subseteq Nat
      /\ u \in 0 .. q - 1 /\ 0 .. b \subseteq DOMAIN t
  <2>1. q \in DOMAIN t /\ q \in Nat /\ b \in Nat /\ DOMAIN t \subseteq Nat /\ 0 .. b \subseteq DOMAIN t
    BY Nodes
  <2>2. u \in 0 .. q - 1 \union {-1} /\ u >= 0
    BY <2>1, LinksInside, LinkFacts
  <2>3. QED
    BY <2>1, <2>2
<1>2. InSubtree(t, q, u)
  BY <1>1, ChildInSubtree
<1>3. ASSUME NEW n \in 0 .. b, n > q
      PROVE  InSubtree(t, n, u) <=> InSubtree(t, n, q)
  <2>1. n \in DOMAIN t /\ \A k \in 1 .. n : k \in DOMAIN t /\ t[k].parent \in Int
    <3>1. \A k \in 1 .. n : k \in DOMAIN t
      BY <1>1
    <3>2. QED
      BY <1>1, <3>1, Fields
  <2>2. ASSUME InSubtree(t, n, q)
        PROVE  InSubtree(t, n, u)
    <3>1. \A k \in q + 1 .. n : t[k].parent >= q
      BY <2>2 DEF InSubtree
    <3>2. \A k \in u + 1 .. q : t[k].parent >= u
      BY <1>2 DEF InSubtree
    <3>3. ASSUME NEW k \in u + 1 .. n
          PROVE  t[k].parent >= u
      <4>1. k \in 1 .. n /\ t[k].parent \in Int
        BY <1>1, <2>1
      <4>2. k \in u + 1 .. q \/ k \in q + 1 .. n
        BY <1>1, <1>3
      <4>3. QED
        BY <1>1, <3>1, <3>2, <4>1, <4>2
    <3>4. QED
      BY <1>1, <1>3, <3>3 DEF InSubtree
  <2>3. ASSUME InSubtree(t, n, u)
        PROVE  InSubtree(t, n, q)
    <3>1. r = -1 \/ n < r
      <4>1. ~(q < b /\ r <= b) \/ r = Stay
        BY RightIs
      <4>2. r \in DOMAIN t \union {-1}
        BY <1>1, LinksInside
      <4>3. QED
        BY <1>1, <1>3, <4>1, <4>2 DEF Stay
    <3>2. ASSUME NEW k \in q + 1 .. n
          PROVE  t[k].parent >= q
      <4>1. k \in DOMAIN t /\ t[k].parent \in Int /\ k \in u + 1 .. n /\ q < k
        BY <1>1, <2>1
      <4>2. t[k].parent >= u
        BY <2>3, <4>1 DEF InSubtree
      <4>3. CASE r = -1
        BY <1>1, <4>1, <4>2, <4>3, LastChildCloses
      <4>4. CASE n < r
        <5>1. r \in Nat
          BY <1>1, <1>3, <4>4, LinksInside
        <5>2. k \in q + 1 .. r - 1
          BY <1>1, <4>4, <5>1
        <5>3. q <= t[k].parent
          BY <1>1, <5>2, LinkFacts
        <5>4. QED
          BY <1>1, <4>1, <5>3
      <4>5. QED
        BY <3>1, <4>3, <4>4
    <3>3. QED
      BY <1>1, <1>3, <3>2 DEF InSubtree
  <2>4. QED
    BY <2>2, <2>3
<1>4. ASSUME NEW n \in 0 .. b, n > u, ~(n > q)
      PROVE  InSubtree(t, n, u)
  <2>1. \A k \in u + 1 .. q : t[k].parent >= u
    BY <1>2 DEF InSubtree
  <2>2. QED
    BY <1>1, <1>4, <2>1 DEF InSubtree
<1>5. \A n \in 0 .. b : /\ n > q => n > u
                        /\ (n > u /\ ~InSubtree(t, n, u)) <=> (n > q /\ ~InSubtree(t, n, q))
  BY <1>1, <1>3, <1>4
<1>6. QED
  BY <1>5 DEF LeavesBehind

\* Behind the subtree of a node comes its right sibling.
LEMMA BehindIsRight ==
  ASSUME NEW t, CanonicalTree(t), NEW b \in DOMAIN t, NEW a \in BOOLEAN, NEW q \in 0 .. b,
         Right(t, TreeSlice(t, b, a), q) # Stay
  PROVE  LET r == Right(t, TreeSlice(t, b, a), q) IN
         r \in q + 1 .. b /\ LeavesBehind(t, b, q) = LeavesFrom(t, b, r)
<1> DEFINE r == t[q].right_sib
<1>1. /\ q \in DOMAIN t /\ q \in Nat /\ b \in Nat /\ DOMAIN t \subseteq Nat
      /\ 0 .. b \subseteq DOMAIN t
  BY Nodes
<1>2. Right(t, TreeSlice(t, b, a), q) = r /\ r <= b /\ r # -1
  BY RightIs DEF Stay
<1>3. r \in DOMAIN t /\ q < r /\ t[r].left_sib = q
  BY <1>1, <1>2, LinksInside, LinkFacts
<1>4. t[r].parent = t[q].parent /\ t[q].parent \in Int /\ t[q].parent < q
  BY <1>1, <1>3, LinkFacts, LinksInside
<1>5. \A k \in q + 1 .. r - 1 : q <= t[k].parent /\ t[k].parent \in Int
  <2>1. \A k \in q + 1 .. r - 1 : k \in DOMAIN t
    BY <1>1, <1>2, <1>3
  <2>2. QED
    BY <1>1, <2>1, LinkFacts, Fields
<1>6. ASSUME NEW n \in 0 .. b, n > q
      PROVE  ~InSubtree(t, n, q) <=> n >= r
  <2>1. ASSUME n >= r
        PROVE  ~InSubtree(t, n, q)
    <3>1. r \in q + 1 .. n
      BY <1>1, <1>3, <2>1
    <3>2. ~(t[r].parent >= q)
      BY <1>1, <1>4
    <3>3. QED
      BY <3>1, <3>2 DEF InSubtree
  <2>2. ASSUME ~(n >= r)
        PROVE  InSubtree(t, n, q)
    <3>1. \A k \in q + 1 .. n : t[k].parent >= q
      BY <1>1, <1>3, <1>5, <2>2
    <3>2. QED
      BY <1>1, <1>6, <3>1 DEF InSubtree
  <2>3. QED
    BY <2>1, <2>2
<1>7. \A n \in 0 .. b : n >= r => n > q
  BY <1>1, <1>3
<1>8. LeavesBehind(t, b, q) = LeavesFrom(t, b, r)
  BY <1>6, <1>7 DEF LeavesBehind, LeavesFrom
<1>9. QED
  BY <1>1, <1>2, <1>3, <1>8

\* down_first_child() passes no leaf, and stays at one.
LEMMA DownFirstDescends ==
  ASSUME NEW t, CanonicalTree(t), NEW b \in DOMAIN t, NEW a \in BOOLEAN, NEW q \in 0 .. b
  PROVE  LET c == DownFirst(t, TreeSlice(t, b, a), q) IN
         IF c = Stay THEN q \in LeavesFrom(t, b, q)
         ELSE c \in q + 1 .. b /\ LeavesFrom(t, b, q) = LeavesFrom(t, b, c)
<1> DEFINE c == DownFirst(t, TreeSlice(t, b, a), q)
<1>1. q \in DOMAIN t /\ q \in Nat /\ b \in Nat
  BY Nodes
<1>2. c = IF q < b /\ t[q].first_child # -1 THEN q + 1 ELSE Stay
  BY DownFirstIs
<1>3. CASE c = Stay
  <2>1. q = b \/ t[q].first_child = -1
    BY <1>1, <1>2, <1>3 DEF Stay
  <2>2. t[q].first_child = -1 => ChildrenOf(t, q) = {}
    <3>1. ASSUME NEW m \in ChildrenOf(t, q)
          PROVE  t[q].first_child # -1
      BY <1>1, ParentLinks DEF ChildrenOf
    <3>2. QED
      BY <3>1
  <2>3. QED
    BY <1>1, <1>3, <2>1, <2>2 DEF LeavesFrom
<1>4. CASE c # Stay
  <2>1. c = q + 1 /\ q < b /\ t[q].first_child # -1
    BY <1>2, <1>4
  <2>2. c \in ChildrenOf(t, q)
    BY <1>1, <1>4, DownFirstFinds DEF FindsFirst
  <2>3. \A n \in 0 .. b : ChildrenOf(t, n) = {} \/ n = b => (n >= q <=> n >= c)
    BY <1>1, <2>1, <2>2
  <2>4. LeavesFrom(t, b, q) = LeavesFrom(t, b, c)
    BY <2>3 DEF LeavesFrom
  <2>5. QED
    BY <1>1, <1>4, <2>1, <2>4
<1>5. QED
  BY <1>3, <1>4

-----------------------------------------------------------------------------
(* Symbols.                                                                *)

\* Before the predicted node the symbols are those that are indexed.
LEMMA SymbolBefore ==
  ASSUME NEW t, CanonicalTree(t), NEW b \in DOMAIN t, NEW a \in BOOLEAN,
         NEW n \in 0 .. b - 1, NEW kind \in ActorKinds
  PROVE  ActorSymbol(kind, t, TreeSlice(t, b, a), n) = ActorSymbol(kind, t, NoSlice, n)
<1> DEFINE s == TreeSlice(t, b, a)
<1>1. b \in Nat /\ 0 .. b \subseteq DOMAIN t
  BY Nodes
<1>2. \A m \in Int : ~IsNodeSliced(NoSlice, m)
  BY DEF IsNodeSliced, NoSlice
<1>3. ASSUME NEW m \in 0 .. b - 1
      PROVE  /\ VisibleNode(t, s, m) = VisibleNode(t, NoSlice, m)
             /\ Labels(t, s, m) = Labels(t, NoSlice, m)
             /\ Up(t, s, m) = Up(t, NoSlice, m)
             /\ Up(t, s, m) = Stay \/ Up(t, s, m) \in 0 .. b - 1
  <2>1. m \in 0 .. b /\ m \in DOMAIN t /\ m \in Int
    BY <1>1
  <2>2. VisibleNode(t, s, m) = t[m] /\ VisibleNode(t, NoSlice, m) = t[m]
    <3>1. VisibleNode(t, s, m) = t[m]
      BY SeenBefore
    <3>2. VisibleNode(t, NoSlice, m) = t[m]
      BY <1>2, <2>1 DEF VisibleNode
    <3>3. QED
      BY <3>1, <3>2
  <2>3. \A k \in 0 .. m - 1 : ~IsNodeSliced(NoSlice, k) /\ ~IsNodeSliced(s, k)
    BY <1>2, <2>1, VisibleBefore
  <2>4. Up(t, s, m) = t[m].parent /\ Up(t, NoSlice, m) = t[m].parent
    BY <2>1, <2>3, LeftUpAreLinks
  <2>5. t[m].parent \in 0 .. m - 1 \union {-1}
    BY <2>1, LinksInside
  <2>6. t[m].parent = Stay \/ t[m].parent \in 0 .. b - 1
    BY <1>1, <2>1, <2>5 DEF Stay
  <2>7. QED
    BY <2>2, <2>4, <2>6 DEF Labels
<1>4. ContextSymbol(t, s, n) = ContextSymbol(t, NoSlice, n)
  <2> DEFINE q == Up(t, s, n)
             r == IF q = Stay THEN Stay ELSE Up(t, s, q)
  <2>1. Up(t, NoSlice, n) = q
    BY <1>3
  <2>2. q # Stay => Up(t, NoSlice, q) = Up(t, s, q) /\ Labels(t, NoSlice, q) = Labels(t, s, q)
    BY <1>3
  <2>3. r # Stay => Labels(t, NoSlice, r) = Labels(t, s, r)
    BY <1>3
  <2>4. ContextSymbol(t, s, n) = <<Labels(t, s, n),
                                   IF q = Stay THEN <<>> ELSE Labels(t, s, q),
                                   IF r = Stay THEN <<>> ELSE Labels(t, s, r)>>
    BY DEF ContextSymbol
  <2>5. ContextSymbol(t, NoSlice, n) = <<Labels(t, NoSlice, n),
                                   IF q = Stay THEN <<>> ELSE Labels(t, NoSlice, q),
                                   IF r = Stay THEN <<>> ELSE Labels(t, NoSlice, r)>>
    BY <2>1, <2>2 DEF ContextSymbol
  <2>6. QED
    BY <1>3, <2>2, <2>3, <2>4, <2>5
<1>5. QED
  BY <1>3, <1>4 DEF ActorSymbol, ActorKinds

\* The node that the index finds: the last one before with the symbol.
LEMMA MoveLeftFinds ==
  ASSUME NEW t, CanonicalTree(t), NEW s, NEW kind, NEW p \in DOMAIN t
  PROVE  LET symbol == ActorSymbol(kind, t, s, p) IN
         FindsLast({n \in 0 .. p - 1 : /\ IsIndexed(kind, symbol)
                                       /\ ActorSymbol(kind, t, NoSlice, n) = symbol},
                   MoveLeft(kind, t, s, p))
<1> DEFINE symbol == ActorSymbol(kind, t, s, p)
           earlier == {n \in DOMAIN t : n < p /\ ActorSymbol(kind, t, NoSlice, n) = symbol}
           S == {n \in 0 .. p - 1 : /\ IsIndexed(kind, symbol)
                                    /\ ActorSymbol(kind, t, NoSlice, n) = symbol}
<1>1. p \in Nat /\ DOMAIN t \subseteq Nat /\ 0 .. p - 1 \subseteq DOMAIN t
  BY Nodes
<1>2. MoveLeft(kind, t, s, p) =
        IF ~IsIndexed(kind, symbol) \/ earlier = {} THEN Stay ELSE Latest(earlier)
  BY DEF MoveLeft
<1>3. CASE ~IsIndexed(kind, symbol)
  <2>1. S = {}
    BY <1>3
  <2>2. QED
    BY <1>2, <1>3, <2>1 DEF FindsLast
<1>4. CASE IsIndexed(kind, symbol)
  <2>1. S = earlier
    BY <1>1, <1>4
  <2>2. ASSUME S # {}
        PROVE  Latest(S) \in S /\ \A n \in S : n <= Latest(S)
    <3>1. S \subseteq 0 .. p
      BY <1>1
    <3>2. \E m \in S : \A n \in S : n <= m
      BY <1>1, <2>2, <3>1, GreatestBelow
    <3>3. QED
      BY <3>2, Zenon DEF Latest
  <2>3. QED
    BY <1>2, <1>4, <2>1, <2>2 DEF FindsLast
<1>5. QED
  BY <1>3, <1>4
=============================================================================
