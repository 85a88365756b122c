--------------------- MODULE TCondNoninterferenceProofs ---------------------
(***************************************************************************)
(* Noninterference of TCond programs, for all pairs of canonical trees:    *)
(* what a program does and writes at a node is a function of the labels    *)
(* that are predicted before that node. Programs also ask the index, which *)
(* was built from the whole tree: the index of a canonical tree answers as *)
(* MoveLeft, which the executions use, says.                               *)
(***************************************************************************)
EXTENDS TCondNoninterference, ActorIndex, SlicedTraversalProofs, FiniteSetTheorems

-----------------------------------------------------------------------------
(* Two canonical trees that are predicted alike up to the node b have the
   same shape up to b, and a cursor that a slice keeps before b moves and
   sees the same in both. *)

\* The sliced trees t and u have the same history.
Alike(t, u, b, a) ==
  /\ CanonicalTree(t)
  /\ CanonicalTree(u)
  /\ a \in BOOLEAN
  /\ SameHistory(t, u, b, a)

\* Alike does not tell which tree is the first.
LEMMA AlikeSymmetric ==
  ASSUME NEW t, NEW u, NEW b, NEW a, Alike(t, u, b, a)
  PROVE  Alike(u, t, b, a)
BY DEF Alike, SameHistory, SameLabel

\* What the lemmas below use of Alike.
LEMMA AlikeFacts ==
  ASSUME NEW t, NEW u, NEW b, NEW a, Alike(t, u, b, a)
  PROVE  /\ CanonicalTree(t) /\ CanonicalTree(u) /\ a \in BOOLEAN
         /\ b \in Nat
         /\ 0 .. b \subseteq DOMAIN t /\ 0 .. b \subseteq DOMAIN u
         /\ \A n \in 0 .. b - 1 : SameLabel(t[n], u[n])
         /\ a => t[b].type = u[b].type
BY Nodes DEF Alike, SameHistory

-----------------------------------------------------------------------------
(* The place of a node. *)

\* The left sibling of a node in one tree is not before the one it has in
\* the other, when all earlier nodes have the same place.
LEMMA LeftSiblingNotEarlier ==
  ASSUME NEW t, NEW u, NEW b, NEW a, Alike(t, u, b, a),
         NEW n \in 1 .. b,
         \A m \in 0 .. n - 1 : SamePlace(t[m], u[m]),
         t[n].left_sib # -1, u[n].left_sib # -1
  PROVE  ~(t[n].left_sib < u[n].left_sib)
<1> SUFFICES ASSUME t[n].left_sib < u[n].left_sib
             PROVE  FALSE
  OBVIOUS
<1> DEFINE l == t[n].left_sib
           k == u[n].left_sib
           r == t[k].right_sib
<1>1. /\ CanonicalTree(t) /\ CanonicalTree(u) /\ b \in Nat /\ n \in Nat
      /\ n \in DOMAIN t /\ n \in DOMAIN u
  BY AlikeFacts
<1>2. l \in 0 .. n - 1 /\ k \in 0 .. n - 1
  BY <1>1, LinksInside
<1>3. k \in DOMAIN t /\ k \in DOMAIN u /\ l \in DOMAIN t
  BY <1>1, <1>2, AlikeFacts
<1>4. u[k].right_sib = n
  BY <1>1, LinkFacts
<1>5. r # -1
  <2>1. SameLabel(t[k], u[k])
    BY <1>1, <1>2, AlikeFacts
  <2>2. QED
    BY <1>1, <1>4, <2>1 DEF SameLabel
<1>6. r \in DOMAIN t /\ k < r /\ t[r].left_sib = k
  BY <1>1, <1>3, <1>5, LinksInside, LinkFacts
<1>7. CASE r = n
  BY <1>2, <1>6, <1>7
<1>8. CASE r < n
  <2>1. r \in 0 .. n - 1 /\ r \in DOMAIN u
    BY <1>1, <1>2, <1>6, <1>8, Nodes, AlikeFacts, SMTT(30)
  <2>2. u[r].left_sib = k
    BY <1>6, <2>1 DEF SamePlace
  <2>3. k # -1
    BY <1>2
  <2>4. u[k].right_sib = r
    BY <1>1, <2>1, <2>2, <2>3, LinkFacts
  <2>5. r # n
    BY <1>1, <1>8, <2>1
  <2>6. QED
    BY <1>4, <2>4, <2>5
<1>9. CASE n < r
  <2>1. n \in k + 1 .. r - 1
    BY <1>1, <1>2, <1>6, <1>9, Nodes, SMTT(30)
  <2>2. k <= t[n].parent
    BY <1>1, <1>3, <2>1, LinkFacts
  <2>3. t[n].parent = t[l].parent
    BY <1>1, LinkFacts
  <2>4. t[l].parent < l /\ t[l].parent \in Int
    BY <1>1, <1>2, <1>3, LinksInside
  <2>5. QED
    BY <1>2, <2>2, <2>3, <2>4
<1>10. QED
  BY <1>1, <1>6, <1>7, <1>8, <1>9, Nodes

\* A node has the same place in both trees when all earlier nodes have.
LEMMA SamePlaceStep ==
  ASSUME NEW t, NEW u, NEW b, NEW a, Alike(t, u, b, a),
         NEW n \in 0 .. b,
         \A m \in 0 .. n - 1 : SamePlace(t[m], u[m])
  PROVE  SamePlace(t[n], u[n])
<1>1. /\ CanonicalTree(t) /\ CanonicalTree(u) /\ b \in Nat /\ n \in Nat
      /\ n \in DOMAIN t /\ n \in DOMAIN u
  BY AlikeFacts
<1>2. CASE n = 0
  BY <1>1, <1>2, LinkFacts DEF SamePlace
<1>3. CASE n # 0 /\ t[n - 1].first_child # -1
  <2>1. n - 1 \in 0 .. b - 1 /\ n - 1 \in DOMAIN t /\ n - 1 \in DOMAIN u
    BY <1>1, <1>3, AlikeFacts
  <2>2. u[n - 1].first_child # -1
    BY <1>3, <2>1, AlikeFacts DEF SameLabel
  <2>3. (n - 1) + 1 = n
    BY <1>1
  <2>4. /\ t[n].parent = n - 1 /\ t[n].left_sib = -1
        /\ u[n].parent = n - 1 /\ u[n].left_sib = -1
    BY <1>1, <1>3, <2>1, <2>2, <2>3, LinkFacts
  <2>5. t[n].child_index = 0 /\ u[n].child_index = 0
    BY <1>1, <2>4, LinkFacts
  <2>6. QED
    BY <2>4, <2>5 DEF SamePlace
<1>4. CASE n # 0 /\ t[n - 1].first_child = -1
  <2> DEFINE l == t[n].left_sib
             k == u[n].left_sib
  <2>1. n - 1 \in 0 .. b - 1 /\ n \in 1 .. b
    BY <1>1, <1>4
  <2>2. u[n - 1].first_child = -1
    BY <1>4, <2>1, AlikeFacts DEF SameLabel
  <2>3. l # -1 /\ k # -1
    BY <1>1, <1>4, <2>2, LinkFacts
  <2>4. l \in 0 .. n - 1 /\ k \in 0 .. n - 1
    BY <1>1, <2>3, LinksInside
  <2>5. ~(l < k)
    BY <2>1, <2>3, LeftSiblingNotEarlier
  <2>6. ~(k < l)
    <3>1. \A m \in 0 .. n - 1 : SamePlace(u[m], t[m])
      BY DEF SamePlace
    <3>2. QED
      BY <2>1, <2>3, <3>1, AlikeSymmetric, LeftSiblingNotEarlier
  <2>7. l = k
    BY <2>4, <2>5, <2>6
  <2>8. /\ t[l].parent = t[n].parent /\ t[l].child_index + 1 = t[n].child_index
        /\ u[l].parent = u[n].parent /\ u[l].child_index + 1 = u[n].child_index
    BY <1>1, <2>3, <2>7, LinkFacts
  <2>9. t[l].parent = u[l].parent /\ t[l].child_index = u[l].child_index
    BY <2>4 DEF SamePlace
  <2>10. QED
    BY <2>7, <2>8, <2>9 DEF SamePlace
<1>5. QED
  BY <1>2, <1>3, <1>4

\* All nodes up to b have the same place in both trees: the first node that
\* had not would contradict SamePlaceStep.
LEMMA SamePlaces ==
  ASSUME NEW t, NEW u, NEW b, NEW a, Alike(t, u, b, a)
  PROVE  \A n \in 0 .. b : SamePlace(t[n], u[n])
<1> DEFINE Misplaced == {n \in 0 .. b : ~SamePlace(t[n], u[n])}
<1>1. b \in Nat
  BY AlikeFacts
<1>2. ASSUME Misplaced # {}
      PROVE  FALSE
  <2>1. Misplaced \subseteq Nat
    BY <1>1
  <2>2. PICK first \in Misplaced : \A n \in Misplaced : first <= n
    BY <1>2, <2>1, LeastNatural
  <2>3. first \in 0 .. b
    OBVIOUS
  <2>4. ASSUME NEW m \in 0 .. first - 1
        PROVE  SamePlace(t[m], u[m])
    <3>1. m \in 0 .. b /\ ~(first <= m)
      BY <1>1, <2>3
    <3>2. m \notin Misplaced
      BY <2>2, <3>1
    <3>3. QED
      BY <3>1, <3>2
  <2>5. SamePlace(t[first], u[first])
    BY <2>3, <2>4, SamePlaceStep
  <2>6. QED
    BY <2>5
<1>3. QED
  BY <1>2
-----------------------------------------------------------------------------
(* What the cursor sees and where it moves, in two trees with the same     *)
(* history.                                                                *)

\* left() and up() go to the same node.
LEMMA SameLeftUp ==
  ASSUME NEW t, NEW u, NEW b, NEW a, Alike(t, u, b, a), NEW p \in 0 .. b
  PROVE  /\ Left(t, TreeSlice(t, b, a), p) = Left(u, TreeSlice(u, b, a), p)
         /\ Up(t, TreeSlice(t, b, a), p) = Up(u, TreeSlice(u, b, a), p)
<1>1. /\ CanonicalTree(t) /\ CanonicalTree(u) /\ a \in BOOLEAN
      /\ b \in DOMAIN t /\ b \in DOMAIN u /\ p \in DOMAIN t /\ p \in DOMAIN u
  BY AlikeFacts
<1>2. /\ \A n \in 0 .. p - 1 : ~IsNodeSliced(TreeSlice(t, b, a), n)
      /\ \A n \in 0 .. p - 1 : ~IsNodeSliced(TreeSlice(u, b, a), n)
  BY <1>1, VisibleBefore
<1>3. SamePlace(t[p], u[p])
  BY SamePlaces
<1>4. /\ Left(t, TreeSlice(t, b, a), p) = t[p].left_sib
      /\ Up(t, TreeSlice(t, b, a), p) = t[p].parent
  BY <1>1, <1>2, LeftUpAreLinks
<1>5. /\ Left(u, TreeSlice(u, b, a), p) = u[p].left_sib
      /\ Up(u, TreeSlice(u, b, a), p) = u[p].parent
  BY <1>1, <1>2, LeftUpAreLinks
<1>6. QED
  BY <1>3, <1>4, <1>5 DEF SamePlace

\* The features that can be written are the same.
LEMMA SameSeen ==
  ASSUME NEW t, NEW u, NEW b, NEW a, Alike(t, u, b, a), NEW p \in 0 .. b
  PROVE  LET m == VisibleNode(t, TreeSlice(t, b, a), p)
             n == VisibleNode(u, TreeSlice(u, b, a), p)
         IN  Type(m) = Type(n) /\ Value(m) = Value(n) /\ m.child_index = n.child_index
<1>1. /\ CanonicalTree(t) /\ CanonicalTree(u) /\ a \in BOOLEAN /\ b \in Nat
      /\ b \in DOMAIN t /\ b \in DOMAIN u
  BY AlikeFacts
<1>2. SamePlace(t[p], u[p])
  BY SamePlaces
<1>3. CASE p \in 0 .. b - 1
  <2>1. SameLabel(t[p], u[p])
    BY <1>3, AlikeFacts
  <2>2. QED
    BY <1>1, <1>2, <1>3, <2>1, SeenBefore DEF SameLabel, SamePlace, Type, Value
<1>4. CASE p = b
  <2>1. ASSUME a
        PROVE  Type(t[b]) = Type(u[b])
    <3>1. t[b].type = u[b].type
      BY <2>1, Zenon DEF Alike, SameHistory
    <3>2. QED
      BY <3>1 DEF Type
  <2>2. QED
    BY <1>1, <1>2, <1>4, <2>1, SeenPredicted DEF SamePlace, Type, Value
<1>5. QED
  BY <1>1, <1>3, <1>4

\* A right sibling up to b is the right sibling in both trees: it has the
\* same left sibling there.
LEMMA RightSiblingShared ==
  ASSUME NEW t, NEW u, NEW b, NEW a, Alike(t, u, b, a), NEW p \in 0 .. b - 1,
         t[p].right_sib <= b
  PROVE  u[p].right_sib = t[p].right_sib
<1> DEFINE r == t[p].right_sib
<1>1. /\ CanonicalTree(t) /\ CanonicalTree(u) /\ b \in Nat
      /\ p \in DOMAIN t /\ p \in DOMAIN u
  BY AlikeFacts
<1>2. SameLabel(t[p], u[p])
  BY AlikeFacts
<1>3. CASE r = -1
  BY <1>2, <1>3 DEF SameLabel
<1>4. CASE r # -1
  <2>1. r \in DOMAIN t /\ r \in 0 .. b
    BY <1>1, <1>4, LinksInside, Nodes
  <2>2. t[r].left_sib = p
    BY <1>1, <1>4, LinkFacts
  <2>3. u[r].left_sib = p /\ r \in DOMAIN u
    BY <2>1, <2>2, SamePlaces, AlikeFacts DEF SamePlace
  <2>4. p # -1
    BY <1>1
  <2>5. QED
    BY <1>1, <2>3, <2>4, LinkFacts
<1>5. QED
  BY <1>3, <1>4

\* right() goes to the same node.
LEMMA SameRight ==
  ASSUME NEW t, NEW u, NEW b, NEW a, Alike(t, u, b, a), NEW p \in 0 .. b
  PROVE  Right(t, TreeSlice(t, b, a), p) = Right(u, TreeSlice(u, b, a), p)
<1>1. /\ CanonicalTree(t) /\ CanonicalTree(u) /\ a \in BOOLEAN /\ b \in Nat
      /\ b \in DOMAIN t /\ b \in DOMAIN u
  BY AlikeFacts
<1>2. /\ Right(t, TreeSlice(t, b, a), p) =
           IF p < b /\ t[p].right_sib <= b THEN t[p].right_sib ELSE Stay
      /\ Right(u, TreeSlice(u, b, a), p) =
           IF p < b /\ u[p].right_sib <= b THEN u[p].right_sib ELSE Stay
  BY <1>1, RightIs
<1>3. p < b /\ t[p].right_sib <= b => u[p].right_sib = t[p].right_sib
  BY <1>1, RightSiblingShared
<1>4. p < b /\ u[p].right_sib <= b => t[p].right_sib = u[p].right_sib
  BY <1>1, AlikeSymmetric, RightSiblingShared
<1>5. QED
  BY <1>2, <1>3, <1>4

\* down_first_child() goes to the same node.
LEMMA SameDownFirst ==
  ASSUME NEW t, NEW u, NEW b, NEW a, Alike(t, u, b, a), NEW p \in 0 .. b
  PROVE  DownFirst(t, TreeSlice(t, b, a), p) = DownFirst(u, TreeSlice(u, b, a), p)
<1>1. /\ CanonicalTree(t) /\ CanonicalTree(u) /\ a \in BOOLEAN /\ b \in Nat
      /\ b \in DOMAIN t /\ b \in DOMAIN u
  BY AlikeFacts
<1>2. p < b => (t[p].first_child # -1) = (u[p].first_child # -1)
  BY <1>1, AlikeFacts DEF SameLabel
<1>3. /\ DownFirst(t, TreeSlice(t, b, a), p) =
           IF p < b /\ t[p].first_child # -1 THEN p + 1 ELSE Stay
      /\ DownFirst(u, TreeSlice(u, b, a), p) =
           IF p < b /\ u[p].first_child # -1 THEN p + 1 ELSE Stay
  BY <1>1, DownFirstIs
<1>4. QED
  BY <1>2, <1>3

\* A last child before b is the last child in both trees: there too it has
\* this parent and no right sibling, which is part of its label.
LEMMA LastChildShared ==
  ASSUME NEW t, NEW u, NEW b, NEW a, Alike(t, u, b, a), NEW p \in 0 .. b - 1,
         t[p].last_child \in 0 .. b - 1
  PROVE  /\ u[p].last_child = t[p].last_child
         /\ (HasNonTerminal(u[t[p].last_child]) <=> HasNonTerminal(t[t[p].last_child]))
<1> DEFINE c == t[p].last_child
<1>1. /\ CanonicalTree(t) /\ CanonicalTree(u) /\ b \in Nat
      /\ p \in DOMAIN t /\ c \in DOMAIN u /\ c \in 0 .. b
  BY AlikeFacts
<1>2. SameLabel(t[c], u[c])
  BY AlikeFacts
<1>3. SamePlace(t[c], u[c])
  BY <1>1, SamePlaces
<1>4. t[c].parent = p /\ t[c].right_sib = -1 /\ p < c
  BY <1>1, LinkFacts
<1>5. u[c].parent = p /\ u[c].right_sib = -1
  BY <1>2, <1>3, <1>4 DEF SameLabel, SamePlace
<1>6. c # 0
  BY <1>1, <1>4
<1>7. u[p].last_child = c
  BY <1>1, <1>5, <1>6, LinkFacts
<1>8. (HasNonTerminal(u[c]) <=> HasNonTerminal(t[c]))
  BY <1>2 DEF SameLabel, HasNonTerminal
<1>9. QED
  BY <1>7, <1>8

\* down_last_child() goes to the same node.
LEMMA SameDownLast ==
  ASSUME NEW t, NEW u, NEW b, NEW a, Alike(t, u, b, a), NEW p \in 0 .. b
  PROVE  DownLast(t, TreeSlice(t, b, a), p) = DownLast(u, TreeSlice(u, b, a), p)
<1> DEFINE c == t[p].last_child
           d == u[p].last_child
<1>1. /\ CanonicalTree(t) /\ CanonicalTree(u) /\ a \in BOOLEAN /\ b \in Nat
      /\ b \in DOMAIN t /\ b \in DOMAIN u
  BY AlikeFacts
<1>2. DownLast(t, TreeSlice(t, b, a), p) =
        IF p < b /\ c \in 0 .. b - 1 /\ ~HasNonTerminal(t[c]) THEN c ELSE Stay
  BY <1>1, DownLastIs
<1>3. DownLast(u, TreeSlice(u, b, a), p) =
        IF p < b /\ d \in 0 .. b - 1 /\ ~HasNonTerminal(u[d]) THEN d ELSE Stay
  BY <1>1, DownLastIs
<1>4. p < b /\ c \in 0 .. b - 1 => d = c /\ (HasNonTerminal(u[c]) <=> HasNonTerminal(t[c]))
  BY <1>1, LastChildShared
<1>5. p < b /\ d \in 0 .. b - 1 => c = d /\ (HasNonTerminal(t[d]) <=> HasNonTerminal(u[d]))
  BY <1>1, AlikeSymmetric, LastChildShared
<1>6. QED
  BY <1>2, <1>3, <1>4, <1>5

-----------------------------------------------------------------------------
(* The actor index. *)

\* The symbol seen at a position.
LEMMA SameSymbol ==
  ASSUME NEW t, NEW u, NEW b, NEW a, Alike(t, u, b, a), NEW p \in 0 .. b,
         NEW kind \in ActorKinds
  PROVE  ActorSymbol(kind, t, TreeSlice(t, b, a), p) =
         ActorSymbol(kind, u, TreeSlice(u, b, a), p)
<1> DEFINE s == TreeSlice(t, b, a)
           v == TreeSlice(u, b, a)
<1>1. /\ CanonicalTree(t) /\ CanonicalTree(u) /\ a \in BOOLEAN /\ b \in Nat
      /\ b \in DOMAIN t /\ b \in DOMAIN u
  BY AlikeFacts
<1>2. \A n \in 0 .. b : /\ Type(VisibleNode(t, s, n)) = Type(VisibleNode(u, v, n))
                        /\ Value(VisibleNode(t, s, n)) = Value(VisibleNode(u, v, n))
                        /\ Labels(t, s, n) = Labels(u, v, n)
                        /\ Up(t, s, n) = Up(u, v, n)
  BY SameSeen, SameLeftUp DEF Labels
<1>3. \A n \in 0 .. b : Up(t, s, n) = Stay \/ Up(t, s, n) \in 0 .. b
  BY <1>1, UpReaches DEF Reached
<1>4. ContextSymbol(t, s, p) = ContextSymbol(u, v, p)
  <2> DEFINE q == Up(t, s, p)
             r == IF q = Stay THEN Stay ELSE Up(t, s, q)
  <2>1. Up(u, v, p) = q
    BY <1>2
  <2>2. q # Stay => Up(u, v, q) = Up(t, s, q) /\ Labels(u, v, q) = Labels(t, s, q)
    BY <1>2, <1>3
  <2>3. r # Stay => Labels(u, v, r) = Labels(t, s, r)
    BY <1>2, <1>3
  <2>4. ContextSymbol(t, s, p) = <<Labels(t, s, p),
                                   IF q = Stay THEN <<>> ELSE Labels(t, s, q),
                                   IF r = Stay THEN <<>> ELSE Labels(t, s, r)>>
    BY DEF ContextSymbol
  <2>5. ContextSymbol(u, v, p) = <<Labels(u, v, p),
                                   IF q = Stay THEN <<>> ELSE Labels(u, v, q),
                                   IF r = Stay THEN <<>> ELSE Labels(u, v, r)>>
    BY <2>1, <2>2 DEF ContextSymbol
  <2>6. Labels(u, v, p) = Labels(t, s, p)
    BY <1>2
  <2>7. QED
    BY <2>2, <2>3, <2>4, <2>5, <2>6
<1>5. QED
  BY <1>2, <1>4 DEF ActorSymbol, ActorKinds

\* The symbol under which the index, built without a slice, holds a node.
LEMMA SameIndexed ==
  ASSUME NEW t, NEW u, NEW b, NEW a, Alike(t, u, b, a), NEW p \in 0 .. b - 1,
         NEW kind \in ActorKinds
  PROVE  ActorSymbol(kind, t, NoSlice, p) = ActorSymbol(kind, u, NoSlice, p)
<1>1. /\ CanonicalTree(t) /\ CanonicalTree(u) /\ b \in Nat
      /\ 0 .. b \subseteq DOMAIN t /\ 0 .. b \subseteq DOMAIN u
  BY AlikeFacts
<1>2. \A n \in Int : ~IsNodeSliced(NoSlice, n)
  BY DEF IsNodeSliced, NoSlice
<1>3. \A n \in 0 .. b - 1 : VisibleNode(t, NoSlice, n) = t[n] /\ VisibleNode(u, NoSlice, n) = u[n]
  BY <1>1, <1>2 DEF VisibleNode
<1>4. \A n \in 0 .. b - 1 : SameLabel(t[n], u[n]) /\ SamePlace(t[n], u[n])
  BY <1>1, AlikeFacts, SamePlaces
<1>5. \A n \in 0 .. b - 1 :
         /\ Type(VisibleNode(t, NoSlice, n)) = Type(VisibleNode(u, NoSlice, n))
         /\ Value(VisibleNode(t, NoSlice, n)) = Value(VisibleNode(u, NoSlice, n))
         /\ Labels(t, NoSlice, n) = Labels(u, NoSlice, n)
  BY <1>3, <1>4 DEF SameLabel, Type, Value, Labels
<1>6. ASSUME NEW n \in 0 .. b - 1
      PROVE  /\ Up(t, NoSlice, n) = Up(u, NoSlice, n)
             /\ Up(t, NoSlice, n) = Stay \/ Up(t, NoSlice, n) \in 0 .. b - 1
  <2>1. n \in DOMAIN t /\ n \in DOMAIN u
    BY <1>1
  <2>2. \A m \in 0 .. n - 1 : ~IsNodeSliced(NoSlice, m)
    BY <1>2
  <2>3. Up(t, NoSlice, n) = t[n].parent /\ Up(u, NoSlice, n) = u[n].parent
    BY <1>1, <2>1, <2>2, LeftUpAreLinks
  <2>4. t[n].parent \in 0 .. n - 1 \union {-1}
    BY <1>1, <2>1, LinksInside
  <2>5. QED
    BY <1>1, <1>4, <2>3, <2>4 DEF SamePlace, Stay
<1>7. ContextSymbol(t, NoSlice, p) = ContextSymbol(u, NoSlice, p)
  <2> DEFINE q == Up(t, NoSlice, p)
             r == IF q = Stay THEN Stay ELSE Up(t, NoSlice, q)
  <2>1. Up(u, NoSlice, p) = q
    BY <1>6
  <2>2. q # Stay => /\ Up(u, NoSlice, q) = Up(t, NoSlice, q)
                    /\ Labels(u, NoSlice, q) = Labels(t, NoSlice, q)
    BY <1>5, <1>6
  <2>3. r # Stay => Labels(u, NoSlice, r) = Labels(t, NoSlice, r)
    BY <1>5, <1>6
  <2>4. ContextSymbol(t, NoSlice, p) = <<Labels(t, NoSlice, p),
                                   IF q = Stay THEN <<>> ELSE Labels(t, NoSlice, q),
                                   IF r = Stay THEN <<>> ELSE Labels(t, NoSlice, r)>>
    BY DEF ContextSymbol
  <2>5. ContextSymbol(u, NoSlice, p) = <<Labels(u, NoSlice, p),
                                   IF q = Stay THEN <<>> ELSE Labels(u, NoSlice, q),
                                   IF r = Stay THEN <<>> ELSE Labels(u, NoSlice, r)>>
    BY <2>1, <2>2 DEF ContextSymbol
  <2>6. Labels(u, NoSlice, p) = Labels(t, NoSlice, p)
    BY <1>5
  <2>7. QED
    BY <2>2, <2>3, <2>4, <2>5, <2>6
<1>8. QED
  BY <1>5, <1>7 DEF ActorSymbol, ActorKinds

\* A look-up in the index, which covers the whole tree, finds the same node.
LEMMA SameMoveLeft ==
  ASSUME NEW t, NEW u, NEW b, NEW a, Alike(t, u, b, a), NEW p \in 0 .. b,
         NEW kind \in ActorKinds
  PROVE  MoveLeft(kind, t, TreeSlice(t, b, a), p) = MoveLeft(kind, u, TreeSlice(u, b, a), p)
<1> DEFINE symbol == ActorSymbol(kind, t, TreeSlice(t, b, a), p)
           Earlier(w) == {n \in DOMAIN w : n < p /\ ActorSymbol(kind, w, NoSlice, n) = symbol}
<1>1. /\ CanonicalTree(t) /\ CanonicalTree(u) /\ b \in Nat
      /\ 0 .. b \subseteq DOMAIN t /\ 0 .. b \subseteq DOMAIN u
      /\ DOMAIN t \subseteq Nat /\ DOMAIN u \subseteq Nat
  BY AlikeFacts, Nodes
<1>2. ActorSymbol(kind, u, TreeSlice(u, b, a), p) = symbol
  BY SameSymbol
<1>3. \A n \in 0 .. b - 1 : ActorSymbol(kind, t, NoSlice, n) = ActorSymbol(kind, u, NoSlice, n)
  BY SameIndexed
<1>4. \A n : n < p /\ n \in Nat => n \in 0 .. b - 1
  BY <1>1
<1>5. Earlier(t) = Earlier(u)
  BY <1>1, <1>3, <1>4
<1>6. MoveLeft(kind, t, TreeSlice(t, b, a), p) =
        IF ~IsIndexed(kind, symbol) \/ Earlier(t) = {} THEN Stay ELSE Latest(Earlier(t))
  BY DEF MoveLeft
<1>7. MoveLeft(kind, u, TreeSlice(u, b, a), p) =
        IF ~IsIndexed(kind, symbol) \/ Earlier(u) = {} THEN Stay ELSE Latest(Earlier(u))
  BY <1>2 DEF MoveLeft
<1>8. QED
  BY <1>5, <1>6, <1>7

-----------------------------------------------------------------------------
(* The two instances of TCondExecution bring their own copies of the       *)
(* constant operators; they are the same operators.                        *)

\* The left execution moves and sees by the operators of SlicedTraversal.
LEMMA LeftBridge ==
  ASSUME NEW t, NEW s, NEW p
  PROVE  /\ L!Left(t, s, p) = Left(t, s, p)
         /\ L!Right(t, s, p) = Right(t, s, p)
         /\ L!Up(t, s, p) = Up(t, s, p)
         /\ L!DownFirst(t, s, p) = DownFirst(t, s, p)
         /\ L!DownLast(t, s, p) = DownLast(t, s, p)
         /\ L!MoveLeft("value", t, s, p) = MoveLeft("value", t, s, p)
         /\ L!MoveLeft("type", t, s, p) = MoveLeft("type", t, s, p)
         /\ L!MoveLeft("context", t, s, p) = MoveLeft("context", t, s, p)
         /\ L!Type(L!VisibleNode(t, s, p)) = Type(VisibleNode(t, s, p))
         /\ L!Value(L!VisibleNode(t, s, p)) = Value(VisibleNode(t, s, p))
         /\ L!VisibleNode(t, s, p).child_index = VisibleNode(t, s, p).child_index
         /\ L!Stay = Stay
<1>1. \A n : L!Type(n) = Type(n) /\ L!Value(n) = Value(n)
  BY DEF L!Type, Type, L!Value, Value, L!EMPTY_NODE_LABEL, EMPTY_NODE_LABEL,
         L!UNKNOWN_LABEL, UNKNOWN_LABEL
<1>2. L!Stay = Stay /\ L!NoSlice = NoSlice
  BY DEF L!Stay, Stay, L!NoSlice, NoSlice
<1>3. \A w, v, n : L!VisibleNode(w, v, n) = VisibleNode(w, v, n)
  BY Zenon DEF L!VisibleNode, VisibleNode, L!IsNodeSliced, IsNodeSliced,
               L!EMPTY_NODE, EMPTY_NODE, L!EMPTY_NODE_LABEL, EMPTY_NODE_LABEL,
               L!Type, Type, L!UNKNOWN_LABEL, UNKNOWN_LABEL
<1>4. \A w, v, n : L!Up(w, v, n) = Up(w, v, n)
  BY <1>2 DEF L!Up, Up, L!IsNodeSliced, IsNodeSliced
<1>5. L!Left(t, s, p) = Left(t, s, p)
  BY <1>2 DEF L!Left, Left, L!IsNodeSliced, IsNodeSliced
<1>6. L!Right(t, s, p) = Right(t, s, p)
  BY <1>2, <1>3 DEF L!Right, Right, L!IsNodeSliced, IsNodeSliced
<1>7. L!DownFirst(t, s, p) = DownFirst(t, s, p)
  BY <1>2 DEF L!DownFirst, DownFirst, L!IsNodeSliced, IsNodeSliced
<1>8. L!DownLast(t, s, p) = DownLast(t, s, p)
  BY <1>2 DEF L!DownLast, DownLast, L!IsNodeSliced, IsNodeSliced,
              L!HasNonTerminal, HasNonTerminal, L!UNKNOWN_LABEL, UNKNOWN_LABEL
<1>9. ASSUME NEW kind
      PROVE  L!MoveLeft(kind, t, s, p) = MoveLeft(kind, t, s, p)
  <2>1. \A w, v, n : L!Labels(w, v, n) = Labels(w, v, n)
    BY <1>1, <1>3 DEF L!Labels, Labels
  <2>2. \A w, v, n : L!ContextSymbol(w, v, n) = ContextSymbol(w, v, n)
    BY <1>2, <1>4, <2>1 DEF L!ContextSymbol, ContextSymbol
  <2>3. \A w, v, n : L!ActorSymbol(kind, w, v, n) = ActorSymbol(kind, w, v, n)
    BY <1>1, <1>3, <2>2, Zenon DEF L!ActorSymbol, ActorSymbol
  <2>4. \A S : L!Latest(S) = Latest(S)
    BY DEF L!Latest, Latest
  <2>5. \A symbol : L!IsIndexed(kind, symbol) = IsIndexed(kind, symbol)
    BY DEF L!IsIndexed, IsIndexed
  <2>6. QED
    BY <1>2, <2>3, <2>4, <2>5 DEF L!MoveLeft, MoveLeft
<1>10. QED
  BY <1>1, <1>2, <1>3, <1>4, <1>5, <1>6, <1>7, <1>8, <1>9

\* The right execution moves and sees by the operators of SlicedTraversal.
LEMMA RightBridge ==
  ASSUME NEW t, NEW s, NEW p
  PROVE  /\ R!Left(t, s, p) = Left(t, s, p)
         /\ R!Right(t, s, p) = Right(t, s, p)
         /\ R!Up(t, s, p) = Up(t, s, p)
         /\ R!DownFirst(t, s, p) = DownFirst(t, s, p)
         /\ R!DownLast(t, s, p) = DownLast(t, s, p)
         /\ R!MoveLeft("value", t, s, p) = MoveLeft("value", t, s, p)
         /\ R!MoveLeft("type", t, s, p) = MoveLeft("type", t, s, p)
         /\ R!MoveLeft("context", t, s, p) = MoveLeft("context", t, s, p)
         /\ R!Type(R!VisibleNode(t, s, p)) = Type(VisibleNode(t, s, p))
         /\ R!Value(R!VisibleNode(t, s, p)) = Value(VisibleNode(t, s, p))
         /\ R!VisibleNode(t, s, p).child_index = VisibleNode(t, s, p).child_index
         /\ R!Stay = Stay
<1>1. \A n : R!Type(n) = Type(n) /\ R!Value(n) = Value(n)
  BY DEF R!Type, Type, R!Value, Value, R!EMPTY_NODE_LABEL, EMPTY_NODE_LABEL,
         R!UNKNOWN_LABEL, UNKNOWN_LABEL
<1>2. R!Stay = Stay /\ R!NoSlice = NoSlice
  BY DEF R!Stay, Stay, R!NoSlice, NoSlice
<1>3. \A w, v, n : R!VisibleNode(w, v, n) = VisibleNode(w, v, n)
  BY Zenon DEF R!VisibleNode, VisibleNode, R!IsNodeSliced, IsNodeSliced,
               R!EMPTY_NODE, EMPTY_NODE, R!EMPTY_NODE_LABEL, EMPTY_NODE_LABEL,
               R!Type, Type, R!UNKNOWN_LABEL, UNKNOWN_LABEL
<1>4. \A w, v, n : R!Up(w, v, n) = Up(w, v, n)
  BY <1>2 DEF R!Up, Up, R!IsNodeSliced, IsNodeSliced
<1>5. R!Left(t, s, p) = Left(t, s, p)
  BY <1>2 DEF R!Left, Left, R!IsNodeSliced, IsNodeSliced
<1>6. R!Right(t, s, p) = Right(t, s, p)
  BY <1>2, <1>3 DEF R!Right, Right, R!IsNodeSliced, IsNodeSliced
<1>7. R!DownFirst(t, s, p) = DownFirst(t, s, p)
  BY <1>2 DEF R!DownFirst, DownFirst, R!IsNodeSliced, IsNodeSliced
<1>8. R!DownLast(t, s, p) = DownLast(t, s, p)
  BY <1>2 DEF R!DownLast, DownLast, R!IsNodeSliced, IsNodeSliced,
              R!HasNonTerminal, HasNonTerminal, R!UNKNOWN_LABEL, UNKNOWN_LABEL
<1>9. ASSUME NEW kind
      PROVE  R!MoveLeft(kind, t, s, p) = MoveLeft(kind, t, s, p)
  <2>1. \A w, v, n : R!Labels(w, v, n) = Labels(w, v, n)
    BY <1>1, <1>3 DEF R!Labels, Labels
  <2>2. \A w, v, n : R!ContextSymbol(w, v, n) = ContextSymbol(w, v, n)
    BY <1>2, <1>4, <2>1 DEF R!ContextSymbol, ContextSymbol
  <2>3. \A w, v, n : R!ActorSymbol(kind, w, v, n) = ActorSymbol(kind, w, v, n)
    BY <1>1, <1>3, <2>2, Zenon DEF R!ActorSymbol, ActorSymbol
  <2>4. \A S : R!Latest(S) = Latest(S)
    BY DEF R!Latest, Latest
  <2>5. \A symbol : R!IsIndexed(kind, symbol) = IsIndexed(kind, symbol)
    BY DEF R!IsIndexed, IsIndexed
  <2>6. QED
    BY <1>2, <2>3, <2>4, <2>5 DEF R!MoveLeft, MoveLeft
<1>10. QED
  BY <1>1, <1>2, <1>3, <1>4, <1>5, <1>6, <1>7, <1>8, <1>9

-----------------------------------------------------------------------------
(***************************************************************************)
(* The inductive invariant: the histories stay the same because trees and  *)
(* slice do not change, the cursors are together and not past the          *)
(* predicted node, and so every move and every feature is the same.        *)
(***************************************************************************)
IInv ==
  /\ slice \in [begin : Int, allow_reading_type : BOOLEAN]
  /\ Alike(treeL, treeR, slice.begin, slice.allow_reading_type)
  /\ positionL \in 0 .. slice.begin
  /\ phaseL \in L!Phases
  /\ writtenL \in Seq(Int)
  /\ SameExecution

\* What the invariant is for.
LEMMA InvTypes ==
  ASSUME IInv
  PROVE  TypeOK /\ SameExecution
BY DEF IInv, TypeOK, SameExecution, L!Phases, R!Phases, L!Idle, R!Idle,
       L!PrevLeafScan, R!PrevLeafScan, L!PrevLeafDescend, R!PrevLeafDescend,
       L!NextLeafScan, R!NextLeafScan, L!NextLeafDescend, R!NextLeafDescend,
       L!PrevDfsDescend, R!PrevDfsDescend

\* Executions start in the invariant.
LEMMA InitInv == Init => IInv
<1> SUFFICES ASSUME Init
             PROVE  IInv
  OBVIOUS
<1>1. CanonicalTree(treeL) /\ CanonicalTree(treeR)
  BY TreesAreCanonical DEF Init
<1>2. slice.begin \in Nat /\ slice \in [begin : Int, allow_reading_type : BOOLEAN]
  BY <1>1, Nodes DEF Init
<1>3. Alike(treeL, treeR, slice.begin, slice.allow_reading_type)
  BY <1>1, <1>2 DEF Init, Alike
<1>4. /\ positionL \in 0 .. slice.begin /\ phaseL \in L!Phases /\ writtenL \in Seq(Int)
      /\ SameExecution
  BY <1>2 DEF Init, Start, SameExecution, L!Phases
<1>5. QED
  BY <1>2, <1>3, <1>4 DEF IInv

\* Where the two cursors go by a move, as sets of named moves.
LEMMA SameMoves ==
  ASSUME IInv
  PROVE  LET s == SliceOf(treeL)
             v == SliceOf(treeR)
         IN  /\ Left(treeL, s, positionL) = Left(treeR, v, positionR)
             /\ Right(treeL, s, positionL) = Right(treeR, v, positionR)
             /\ Up(treeL, s, positionL) = Up(treeR, v, positionR)
             /\ DownFirst(treeL, s, positionL) = DownFirst(treeR, v, positionR)
             /\ DownLast(treeL, s, positionL) = DownLast(treeR, v, positionR)
             /\ \A kind \in ActorKinds :
                  MoveLeft(kind, treeL, s, positionL) = MoveLeft(kind, treeR, v, positionR)
<1> DEFINE b == slice.begin
           a == slice.allow_reading_type
<1>1. Alike(treeL, treeR, b, a) /\ positionL \in 0 .. b /\ positionR = positionL
  BY DEF IInv, SameExecution
<1>2. SliceOf(treeL) = TreeSlice(treeL, b, a) /\ SliceOf(treeR) = TreeSlice(treeR, b, a)
  BY DEF SliceOf
<1>3. \A kind \in ActorKinds :
        MoveLeft(kind, treeL, TreeSlice(treeL, b, a), positionL) =
        MoveLeft(kind, treeR, TreeSlice(treeR, b, a), positionL)
  BY <1>1, SameMoveLeft
<1>4. QED
  BY <1>1, <1>2, <1>3, SameLeftUp, SameRight, SameDownFirst, SameDownLast

\* All moves end in front of the hidden nodes.
LEMMA MovesReach ==
  ASSUME IInv
  PROVE  LET s == SliceOf(treeL)
             Inside(n) == Reached(n, slice.begin)
         IN  /\ Inside(Left(treeL, s, positionL))
             /\ Inside(Right(treeL, s, positionL))
             /\ Inside(Up(treeL, s, positionL))
             /\ Inside(DownFirst(treeL, s, positionL))
             /\ Inside(DownLast(treeL, s, positionL))
             /\ \A kind \in ActorKinds : Inside(MoveLeft(kind, treeL, s, positionL))
<1> DEFINE b == slice.begin
           a == slice.allow_reading_type
           s == TreeSlice(treeL, b, a)
<1>1. /\ CanonicalTree(treeL) /\ a \in BOOLEAN /\ b \in Nat /\ b \in DOMAIN treeL
      /\ positionL \in 0 .. b /\ positionL \in DOMAIN treeL
  BY AlikeFacts DEF IInv
<1>2. SliceOf(treeL) = s
  BY DEF SliceOf
<1>3. Reached(Left(treeL, s, positionL), b) /\ Reached(Up(treeL, s, positionL), b)
  BY <1>1, LeftReaches, UpReaches DEF Reached
<1>4. Reached(Right(treeL, s, positionL), b) /\ Reached(DownFirst(treeL, s, positionL), b)
  BY <1>1, RightReaches, DownFirstReaches
<1>5. Reached(DownLast(treeL, s, positionL), b)
  BY <1>1, DownLastReaches DEF Reached
<1>6. \A kind : Reached(MoveLeft(kind, treeL, s, positionL), b)
  BY <1>1, MoveLeftReaches DEF Reached
<1>7. QED
  BY <1>2, <1>3, <1>4, <1>5, <1>6

\* The features both executions would write.
LEMMA SameFeatures ==
  ASSUME IInv
  PROVE  LET m == VisibleNode(treeL, SliceOf(treeL), positionL)
             n == VisibleNode(treeR, SliceOf(treeR), positionR)
         IN  /\ Type(m) = Type(n) /\ Type(m) \in Int
             /\ Value(m) = Value(n) /\ Value(m) \in Int
             /\ m.child_index = n.child_index /\ m.child_index \in Int
<1> DEFINE b == slice.begin
           a == slice.allow_reading_type
<1>1. /\ Alike(treeL, treeR, b, a) /\ positionL \in 0 .. b /\ positionR = positionL
      /\ CanonicalTree(treeL) /\ a \in BOOLEAN /\ b \in DOMAIN treeL
  BY AlikeFacts DEF IInv, SameExecution
<1>2. SliceOf(treeL) = TreeSlice(treeL, b, a) /\ SliceOf(treeR) = TreeSlice(treeR, b, a)
  BY DEF SliceOf
<1>3. QED
  BY <1>1, <1>2, SameSeen, SeenLabels

-----------------------------------------------------------------------------
(* One step of both executions. *)

\* What both steps have to establish.
LEMMA StepInv ==
  ASSUME IInv, UNCHANGED <<slice, treeL, treeR>>,
         positionL' \in 0 .. slice.begin, phaseL' \in L!Phases, writtenL' \in Seq(Int),
         positionL' = positionR', phaseL' = phaseR', writtenL' = writtenR'
  PROVE  IInv'
BY SMTT(30) DEF IInv, SameExecution, Alike, SameHistory, SameLabel, CanonicalTree, NumAllocatedNodes,
       LinksConsistent, RootedAtZero, DepthFirstIds, L!Phases

\* Both write the same feature.
LEMMA WriteInv ==
  ASSUME IInv, UNCHANGED slice, NEW feature \in Int,
         L!Write(feature), R!Write(feature)
  PROVE  IInv'
<1>1. /\ UNCHANGED <<slice, treeL, treeR, positionL, positionR, phaseL, phaseR>>
      /\ writtenL' = <<feature>> /\ writtenR' = <<feature>>
  BY DEF L!Write, R!Write
<1>2. writtenL' \in Seq(Int)
  BY <1>1
<1>3. /\ positionL \in 0 .. slice.begin /\ phaseL \in L!Phases
      /\ positionL = positionR /\ phaseL = phaseR
  BY DEF IInv, SameExecution
<1>4. QED
  BY <1>1, <1>2, <1>3, StepInv

\* Both make the same move.
LEMMA MoveInv ==
  ASSUME IInv, UNCHANGED slice, NEW target, Reached(target, slice.begin),
         L!MoveTo(target), R!MoveTo(target),
         phaseL' = phaseR', phaseL' \in L!Phases,
         UNCHANGED <<treeL, writtenL, treeR, writtenR>>
  PROVE  IInv'
BY StepInv DEF L!MoveTo, R!MoveTo, L!Stay, R!Stay, Stay, Reached, IInv, SameExecution

\* Both make an operation that is one move.
LEMMA MoveOpInv ==
  ASSUME IInv, UNCHANGED slice, NEW target, Reached(target, slice.begin),
         L!MoveOp(target), R!MoveOp(target)
  PROVE  IInv'
BY MoveInv DEF L!MoveOp, R!MoveOp, IInv, SameExecution

\* Both start a loop with the same move.
LEMMA BeginLoopInv ==
  ASSUME IInv, UNCHANGED slice, NEW target, Reached(target, slice.begin),
         NEW loop \in L!Phases,
         L!BeginLoop(loop, target), R!BeginLoop(loop, target)
  PROVE  IInv'
BY MoveInv DEF L!BeginLoop, R!BeginLoop

\* Both iterate with the same move, or both leave the loop.
LEMMA IterateInv ==
  ASSUME IInv, UNCHANGED slice, NEW target, Reached(target, slice.begin),
         NEW loop, NEW next \in L!Phases,
         L!Iterate(loop, target, next), R!Iterate(loop, target, next)
  PROVE  IInv'
BY MoveInv DEF L!Iterate, R!Iterate, L!MoveTo, R!MoveTo

\* Both leave a loop.
LEMMA LeaveInv ==
  ASSUME IInv, UNCHANGED slice, NEW loopL, NEW loopR, L!Leave(loopL), R!Leave(loopR)
  PROVE  IInv'
BY StepInv DEF L!Leave, R!Leave, IInv, SameExecution, L!Phases, L!Idle, R!Idle

\* Both run the same operation.
LEMMA OperationInv ==
  ASSUME IInv, UNCHANGED slice,
         \/ L!WriteType /\ R!WriteType
         \/ L!WriteValue /\ R!WriteValue
         \/ L!WritePos /\ R!WritePos
         \/ L!OpUp /\ R!OpUp
         \/ L!OpLeft /\ R!OpLeft
         \/ L!OpRight /\ R!OpRight
         \/ L!OpDownFirst /\ R!OpDownFirst
         \/ L!OpDownLast /\ R!OpDownLast
         \/ L!OpPrevNodeValue /\ R!OpPrevNodeValue
         \/ L!OpPrevNodeType /\ R!OpPrevNodeType
         \/ L!OpPrevNodeContext /\ R!OpPrevNodeContext
  PROVE  IInv'
<1> DEFINE s == SliceOf(treeL)
           v == SliceOf(treeR)
           m == VisibleNode(treeL, s, positionL)
           n == VisibleNode(treeR, v, positionR)
<1>1. /\ Type(m) = Type(n) /\ Type(m) \in Int
      /\ Value(m) = Value(n) /\ Value(m) \in Int
      /\ m.child_index = n.child_index /\ -1000 - m.child_index \in Int
  BY SameFeatures
<1>2. CASE L!WriteType /\ R!WriteType
  <2>1. L!Write(Type(m)) /\ R!Write(Type(n))
    BY <1>2, LeftBridge, RightBridge DEF L!WriteType, R!WriteType, L!Seen, R!Seen
  <2>2. QED
    BY <1>1, <2>1, WriteInv
<1>3. CASE L!WriteValue /\ R!WriteValue
  <2>1. L!Write(Value(m)) /\ R!Write(Value(n))
    BY <1>3, LeftBridge, RightBridge DEF L!WriteValue, R!WriteValue, L!Seen, R!Seen
  <2>2. QED
    BY <1>1, <2>1, WriteInv
<1>4. CASE L!WritePos /\ R!WritePos
  <2>1. L!Write(-1000 - m.child_index) /\ R!Write(-1000 - n.child_index)
    BY <1>4, LeftBridge, RightBridge DEF L!WritePos, R!WritePos, L!Seen, R!Seen
  <2>2. QED
    BY <1>1, <2>1, WriteInv
<1>5. CASE L!OpUp /\ R!OpUp
  <2>1. L!MoveOp(Up(treeL, s, positionL)) /\ R!MoveOp(Up(treeR, v, positionR))
    BY <1>5, LeftBridge, RightBridge DEF L!OpUp, R!OpUp
  <2>2. QED
    BY <2>1, SameMoves, MovesReach, MoveOpInv
<1>6. CASE L!OpLeft /\ R!OpLeft
  <2>1. L!MoveOp(Left(treeL, s, positionL)) /\ R!MoveOp(Left(treeR, v, positionR))
    BY <1>6, LeftBridge, RightBridge DEF L!OpLeft, R!OpLeft
  <2>2. QED
    BY <2>1, SameMoves, MovesReach, MoveOpInv
<1>7. CASE L!OpRight /\ R!OpRight
  <2>1. L!MoveOp(Right(treeL, s, positionL)) /\ R!MoveOp(Right(treeR, v, positionR))
    BY <1>7, LeftBridge, RightBridge DEF L!OpRight, R!OpRight
  <2>2. QED
    BY <2>1, SameMoves, MovesReach, MoveOpInv
<1>8. CASE L!OpDownFirst /\ R!OpDownFirst
  <2>1. L!MoveOp(DownFirst(treeL, s, positionL)) /\ R!MoveOp(DownFirst(treeR, v, positionR))
    BY <1>8, LeftBridge, RightBridge DEF L!OpDownFirst, R!OpDownFirst
  <2>2. QED
    BY <2>1, SameMoves, MovesReach, MoveOpInv
<1>9. CASE L!OpDownLast /\ R!OpDownLast
  <2>1. L!MoveOp(DownLast(treeL, s, positionL)) /\ R!MoveOp(DownLast(treeR, v, positionR))
    BY <1>9, LeftBridge, RightBridge DEF L!OpDownLast, R!OpDownLast
  <2>2. QED
    BY <2>1, SameMoves, MovesReach, MoveOpInv
<1>10. CASE L!OpPrevNodeValue /\ R!OpPrevNodeValue
  <2> DEFINE target(t, w, p, seen) == IF Value(seen) = -1 THEN Stay ELSE MoveLeft("value", t, w, p)
  <2>1. /\ L!MoveOp(target(treeL, s, positionL, m))
        /\ R!MoveOp(target(treeR, v, positionR, n))
    BY <1>10, LeftBridge, RightBridge DEF L!OpPrevNodeValue, R!OpPrevNodeValue, L!Seen, R!Seen
  <2>2. target(treeL, s, positionL, m) = target(treeR, v, positionR, n)
    BY <1>1, SameMoves DEF ActorKinds
  <2>3. Reached(target(treeL, s, positionL, m), slice.begin)
    BY MovesReach DEF ActorKinds, Reached
  <2>4. QED
    BY <2>1, <2>2, <2>3, MoveOpInv
<1>11. CASE L!OpPrevNodeType /\ R!OpPrevNodeType
  <2>1. /\ L!MoveLeft("type", treeL, s, positionL) = MoveLeft("type", treeL, s, positionL)
        /\ R!MoveLeft("type", treeR, v, positionR) = MoveLeft("type", treeR, v, positionR)
    BY LeftBridge, RightBridge
  <2>2. /\ MoveLeft("type", treeL, s, positionL) = MoveLeft("type", treeR, v, positionR)
        /\ Reached(MoveLeft("type", treeL, s, positionL), slice.begin)
    BY SameMoves, MovesReach DEF ActorKinds
  <2>3. /\ L!MoveOp(MoveLeft("type", treeL, s, positionL))
        /\ R!MoveOp(MoveLeft("type", treeL, s, positionL))
    BY <1>11, <2>1, <2>2, Zenon DEF L!OpPrevNodeType, R!OpPrevNodeType
  <2>4. QED
    BY <2>2, <2>3, MoveOpInv
<1>12. CASE L!OpPrevNodeContext /\ R!OpPrevNodeContext
  <2>1. /\ L!MoveLeft("context", treeL, s, positionL) = MoveLeft("context", treeL, s, positionL)
        /\ R!MoveLeft("context", treeR, v, positionR) = MoveLeft("context", treeR, v, positionR)
    BY LeftBridge, RightBridge
  <2>2. /\ MoveLeft("context", treeL, s, positionL) = MoveLeft("context", treeR, v, positionR)
        /\ Reached(MoveLeft("context", treeL, s, positionL), slice.begin)
    BY SameMoves, MovesReach DEF ActorKinds
  <2>3. /\ L!MoveOp(MoveLeft("context", treeL, s, positionL))
        /\ R!MoveOp(MoveLeft("context", treeL, s, positionL))
    BY <1>12, <2>1, <2>2, Zenon DEF L!OpPrevNodeContext, R!OpPrevNodeContext
  <2>4. QED
    BY <2>2, <2>3, MoveOpInv
<1>13. QED
  BY <1>2, <1>3, <1>4, <1>5, <1>6, <1>7, <1>8, <1>9, <1>10, <1>11, <1>12

\* Both start a loop, or PREV_DFS goes up in both.
LEMMA StartInv ==
  ASSUME IInv, UNCHANGED slice,
         \/ L!OpPrevDfs /\ R!OpPrevDfs
         \/ L!OpPrevLeaf /\ R!OpPrevLeaf
         \/ L!OpNextLeaf /\ R!OpNextLeaf
  PROVE  IInv'
<1> DEFINE s == SliceOf(treeL)
           v == SliceOf(treeR)
           left == Left(treeL, s, positionL)
           up == Up(treeL, s, positionL)
<1>1. /\ L!Left(treeL, s, positionL) = left /\ R!Left(treeR, v, positionR) = left
      /\ L!Up(treeL, s, positionL) = up /\ R!Up(treeR, v, positionR) = up
      /\ L!Stay = Stay /\ R!Stay = Stay
  BY LeftBridge, RightBridge, SameMoves
<1>2. Reached(left, slice.begin) /\ Reached(up, slice.begin) /\ Reached(Stay, slice.begin)
  BY MovesReach DEF Reached
<1>3. /\ R!PrevDfsDescend = L!PrevDfsDescend /\ L!PrevDfsDescend \in L!Phases
      /\ R!PrevLeafScan = L!PrevLeafScan /\ L!PrevLeafScan \in L!Phases
      /\ R!NextLeafScan = L!NextLeafScan /\ L!NextLeafScan \in L!Phases
  BY DEF L!PrevDfsDescend, R!PrevDfsDescend, L!PrevLeafScan, R!PrevLeafScan,
         L!NextLeafScan, R!NextLeafScan, L!Phases
<1>4. CASE L!OpPrevDfs /\ R!OpPrevDfs
  <2>1. CASE left = Stay
    <3>1. L!MoveOp(up) /\ R!MoveOp(up)
      BY <1>1, <1>4, <2>1, Zenon
         DEF L!OpPrevDfs, R!OpPrevDfs, L!OpPrevDfsUp, R!OpPrevDfsUp,
             L!OpPrevDfsLeft, R!OpPrevDfsLeft
    <3>2. QED
      BY <1>2, <3>1, MoveOpInv
  <2>2. CASE left # Stay
    <3>1. L!BeginLoop(L!PrevDfsDescend, left) /\ R!BeginLoop(L!PrevDfsDescend, left)
      BY <1>1, <1>3, <1>4, <2>2, Zenon
         DEF L!OpPrevDfs, R!OpPrevDfs, L!OpPrevDfsUp, R!OpPrevDfsUp,
             L!OpPrevDfsLeft, R!OpPrevDfsLeft
    <3>2. QED
      BY <1>2, <1>3, <3>1, BeginLoopInv
  <2>3. QED
    BY <2>1, <2>2
<1>5. CASE L!OpPrevLeaf /\ R!OpPrevLeaf
  <2>1. L!BeginLoop(L!PrevLeafScan, Stay) /\ R!BeginLoop(L!PrevLeafScan, Stay)
    BY <1>1, <1>3, <1>5, Zenon DEF L!OpPrevLeaf, R!OpPrevLeaf
  <2>2. QED
    BY <1>2, <1>3, <2>1, BeginLoopInv
<1>6. CASE L!OpNextLeaf /\ R!OpNextLeaf
  <2>1. L!BeginLoop(L!NextLeafScan, Stay) /\ R!BeginLoop(L!NextLeafScan, Stay)
    BY <1>1, <1>3, <1>6, Zenon DEF L!OpNextLeaf, R!OpNextLeaf
  <2>2. QED
    BY <1>2, <1>3, <2>1, BeginLoopInv
<1>7. QED
  BY <1>4, <1>5, <1>6

\* One iteration of a scan, or of a descent, in both.
LEMMA ScanInv ==
  ASSUME IInv, UNCHANGED slice,
         NEW scan, NEW sideways, NEW descend \in L!Phases, scan \in L!Phases,
         Reached(sideways, slice.begin),
         L!Scan(scan, sideways, descend), R!Scan(scan, sideways, descend)
  PROVE  IInv'
<1> DEFINE up == Up(treeL, SliceOf(treeL), positionL)
<1>1. /\ L!Up(treeL, SliceOf(treeL), positionL) = up
      /\ R!Up(treeR, SliceOf(treeR), positionR) = up
      /\ L!Stay = Stay /\ R!Stay = Stay
  BY LeftBridge, RightBridge, SameMoves
<1>2. Reached(up, slice.begin)
  BY MovesReach
<1>3. CASE sideways # Stay
  <2>1. L!Iterate(scan, sideways, descend) /\ R!Iterate(scan, sideways, descend)
    BY <1>1, <1>3, Zenon DEF L!Scan, R!Scan
  <2>2. QED
    BY <2>1, IterateInv
<1>4. CASE sideways = Stay /\ up # Stay
  <2>1. L!Iterate(scan, up, scan) /\ R!Iterate(scan, up, scan)
    <3>1. ~L!Iterate(scan, sideways, descend) /\ ~R!Iterate(scan, sideways, descend)
      BY <1>1, <1>4 DEF L!Iterate, R!Iterate
    <3>2. QED
      BY <1>1, <1>4, <3>1, Zenon DEF L!Scan, R!Scan
  <2>2. QED
    BY <1>2, <2>1, IterateInv
<1>5. CASE sideways = Stay /\ up = Stay
  <2>1. L!Leave(scan) /\ R!Leave(scan)
    <3>1. /\ ~L!Iterate(scan, sideways, descend) /\ ~R!Iterate(scan, sideways, descend)
          /\ ~L!Iterate(scan, up, scan) /\ ~R!Iterate(scan, up, scan)
      BY <1>1, <1>5 DEF L!Iterate, R!Iterate
    <3>2. QED
      BY <1>1, <3>1, Zenon DEF L!Scan, R!Scan
  <2>2. QED
    BY <2>1, LeaveInv
<1>6. QED
  BY <1>3, <1>4, <1>5

\* One iteration of a descent in both.
LEMMA DescendInv ==
  ASSUME IInv, UNCHANGED slice,
         NEW loop, loop \in L!Phases, NEW child, Reached(child, slice.begin),
         L!Descend(loop, child), R!Descend(loop, child)
  PROVE  IInv'
<1>1. L!Stay = Stay /\ R!Stay = Stay
  BY DEF L!Stay, R!Stay, Stay
<1>2. CASE child # Stay
  <2>1. L!Iterate(loop, child, loop) /\ R!Iterate(loop, child, loop)
    BY <1>1, <1>2, Zenon DEF L!Descend, R!Descend
  <2>2. QED
    BY <2>1, IterateInv
<1>3. CASE child = Stay
  <2>1. ~L!Iterate(loop, child, loop) /\ ~R!Iterate(loop, child, loop)
    BY <1>1, <1>3 DEF L!Iterate, R!Iterate
  <2>2. L!Leave(loop) /\ R!Leave(loop)
    BY <2>1, Zenon DEF L!Descend, R!Descend
  <2>3. QED
    BY <2>2, LeaveInv
<1>4. QED
  BY <1>2, <1>3

\* An iteration is one of the loop that the phase names, in both.
LEMMA LoopInv ==
  ASSUME IInv, UNCHANGED slice, L!LoopStep, R!LoopStep
  PROVE  IInv'
<1> DEFINE s == SliceOf(treeL)
           v == SliceOf(treeR)
           left == Left(treeL, s, positionL)
           right == Right(treeL, s, positionL)
           first == DownFirst(treeL, s, positionL)
           last == DownLast(treeL, s, positionL)
<1>1. /\ L!Left(treeL, s, positionL) = left /\ R!Left(treeR, v, positionR) = left
      /\ L!Right(treeL, s, positionL) = right /\ R!Right(treeR, v, positionR) = right
      /\ L!DownFirst(treeL, s, positionL) = first /\ R!DownFirst(treeR, v, positionR) = first
      /\ L!DownLast(treeL, s, positionL) = last /\ R!DownLast(treeR, v, positionR) = last
  BY LeftBridge, RightBridge, SameMoves
<1>2. /\ Reached(left, slice.begin) /\ Reached(right, slice.begin)
      /\ Reached(first, slice.begin) /\ Reached(last, slice.begin)
  BY MovesReach
<1>3. /\ R!PrevLeafScan = L!PrevLeafScan /\ R!PrevLeafDescend = L!PrevLeafDescend
      /\ R!NextLeafScan = L!NextLeafScan /\ R!NextLeafDescend = L!NextLeafDescend
      /\ R!PrevDfsDescend = L!PrevDfsDescend
  BY DEF L!PrevLeafScan, R!PrevLeafScan, L!PrevLeafDescend, R!PrevLeafDescend,
         L!NextLeafScan, R!NextLeafScan, L!NextLeafDescend, R!NextLeafDescend,
         L!PrevDfsDescend, R!PrevDfsDescend
<1>4. /\ L!PrevLeafScan \in L!Phases /\ L!PrevLeafDescend \in L!Phases
      /\ L!NextLeafScan \in L!Phases /\ L!NextLeafDescend \in L!Phases
      /\ L!PrevDfsDescend \in L!Phases
  BY DEF L!Phases
<1>5. \/ L!Scan(L!PrevLeafScan, left, L!PrevLeafDescend)
      \/ L!Descend(L!PrevLeafDescend, last)
      \/ L!Scan(L!NextLeafScan, right, L!NextLeafDescend)
      \/ L!Descend(L!NextLeafDescend, first)
      \/ L!Descend(L!PrevDfsDescend, last)
  BY <1>1, Zenon DEF L!LoopStep, L!PrevLeafStep, L!NextLeafStep, L!PrevDfsStep
<1>6. \/ R!Scan(L!PrevLeafScan, left, L!PrevLeafDescend)
      \/ R!Descend(L!PrevLeafDescend, last)
      \/ R!Scan(L!NextLeafScan, right, L!NextLeafDescend)
      \/ R!Descend(L!NextLeafDescend, first)
      \/ R!Descend(L!PrevDfsDescend, last)
  BY <1>1, <1>3, Zenon DEF R!LoopStep, R!PrevLeafStep, R!NextLeafStep, R!PrevDfsStep
<1>7. /\ \A scan, sideways, descend :
           /\ L!Scan(scan, sideways, descend) => phaseL = scan
           /\ R!Scan(scan, sideways, descend) => phaseL = scan
      /\ \A loop, child :
           /\ L!Descend(loop, child) => phaseL = loop
           /\ R!Descend(loop, child) => phaseL = loop
  BY DEF L!Scan, R!Scan, L!Descend, R!Descend, L!Iterate, R!Iterate, L!Leave, R!Leave,
         IInv, SameExecution
<1>8. CASE phaseL = L!PrevLeafScan
  <2>1. /\ L!Scan(L!PrevLeafScan, left, L!PrevLeafDescend)
        /\ R!Scan(L!PrevLeafScan, left, L!PrevLeafDescend)
    BY <1>5, <1>6, <1>7, <1>8
       DEF L!PrevLeafScan, L!PrevLeafDescend, L!NextLeafScan, L!NextLeafDescend, L!PrevDfsDescend
  <2>2. QED
    BY <1>2, <1>4, <2>1, ScanInv
<1>9. CASE phaseL = L!PrevLeafDescend
  <2>1. L!Descend(L!PrevLeafDescend, last) /\ R!Descend(L!PrevLeafDescend, last)
    BY <1>5, <1>6, <1>7, <1>9
       DEF L!PrevLeafScan, L!PrevLeafDescend, L!NextLeafScan, L!NextLeafDescend, L!PrevDfsDescend
  <2>2. QED
    BY <1>2, <1>4, <2>1, DescendInv
<1>10. CASE phaseL = L!NextLeafScan
  <2>1. /\ L!Scan(L!NextLeafScan, right, L!NextLeafDescend)
        /\ R!Scan(L!NextLeafScan, right, L!NextLeafDescend)
    BY <1>5, <1>6, <1>7, <1>10
       DEF L!PrevLeafScan, L!PrevLeafDescend, L!NextLeafScan, L!NextLeafDescend, L!PrevDfsDescend
  <2>2. QED
    BY <1>2, <1>4, <2>1, ScanInv
<1>11. CASE phaseL = L!NextLeafDescend
  <2>1. L!Descend(L!NextLeafDescend, first) /\ R!Descend(L!NextLeafDescend, first)
    BY <1>5, <1>6, <1>7, <1>11
       DEF L!PrevLeafScan, L!PrevLeafDescend, L!NextLeafScan, L!NextLeafDescend, L!PrevDfsDescend
  <2>2. QED
    BY <1>2, <1>4, <2>1, DescendInv
<1>12. CASE phaseL = L!PrevDfsDescend
  <2>1. L!Descend(L!PrevDfsDescend, last) /\ R!Descend(L!PrevDfsDescend, last)
    BY <1>5, <1>6, <1>7, <1>12
       DEF L!PrevLeafScan, L!PrevLeafDescend, L!NextLeafScan, L!NextLeafDescend, L!PrevDfsDescend
  <2>2. QED
    BY <1>2, <1>4, <2>1, DescendInv
<1>13. QED
  BY <1>5, <1>7, <1>8, <1>9, <1>10, <1>11, <1>12

\* Every step of the two executions preserves the invariant.
LEMMA NextInv == IInv /\ [Next]_vars => IInv'
<1> SUFFICES ASSUME IInv, [Next]_vars
             PROVE  IInv'
  OBVIOUS
<1>1. CASE UNCHANGED vars
  <2>1. /\ UNCHANGED <<slice, treeL, treeR, positionL, positionR>>
        /\ UNCHANGED <<phaseL, phaseR, writtenL, writtenR>>
    BY <1>1 DEF vars, varsL, varsR
  <2>2. QED
    BY <2>1, StepInv DEF IInv, SameExecution
<1>2. CASE Next
  BY <1>2, OperationInv, StartInv, LoopInv, Zenon DEF Next
<1>3. QED
  BY <1>1, <1>2

-----------------------------------------------------------------------------
\* The invariant holds in every reachable state.
THEOREM Invariance == Spec => []IInv
BY InitInv, NextInv, PTL DEF Spec

(***************************************************************************)
(* The state of the two interpreters stays well typed.                     *)
(***************************************************************************)
THEOREM TypeCorrect == Spec => []TypeOK
<1>1. IInv => TypeOK
  BY InvTypes
<1>2. QED
  BY <1>1, Invariance, PTL

(***************************************************************************)
(* Noninterference: whatever the program, and whatever comes in the two    *)
(* trees from the predicted node on, both executions do and write the      *)
(* same.                                                                   *)
(***************************************************************************)
THEOREM Noninterference == Spec => []SameExecution
<1>1. IInv => SameExecution
  BY InvTypes
<1>2. QED
  BY <1>1, Invariance, PTL

-----------------------------------------------------------------------------
(* The index of any canonical tree, of any size and with any labels. Build *)
(* keeps no stack: at a node it has indexed the nodes before it, and on    *)
(* the way out of a node the nodes up to the end of its subtree, because   *)
(* ids follow the depth-first order.                                       *)

\* Build on a canonical tree.
BuildSpec == NotBuilt /\ CanonicalTree(tree) /\ [][BuildStep]_index_vars

-----------------------------------------------------------------------------
(* The inductive invariant.                                                *)

\* The sequence has the numbers of S, in ascending order.
Ascends(seq, S) ==
  /\ seq \in Seq(S)
  /\ \A i, j \in 1 .. Len(seq) : i < j => seq[i] < seq[j]
  /\ \A n \in S : \E i \in 1 .. Len(seq) : seq[i] = n

WithSymbol(symbol, k) == {n \in 0 .. k - 1 : SymbolOf(n) = symbol}

\* The entry of a node that was visited.
EntryIsExact(n) ==
  IF IsIndexed(actor_kind, SymbolOf(n))
  THEN /\ symbol_predecessors_[n] = Entry(SymbolOf(n), symbol_predecessors_[n].pred_position)
       /\ FindsLast(WithSymbol(SymbolOf(n), n), symbol_predecessors_[n].pred_position)
  ELSE symbol_predecessors_[n] = NoEntry

\* The index is that of the first k nodes.
IndexedUpTo(k) ==
  /\ DOMAIN symbol_predecessors_ = DOMAIN tree
  /\ \A n \in DOMAIN tree :
       IF n < k THEN EntryIsExact(n) ELSE symbol_predecessors_[n] = NoEntry
  /\ \A symbol \in DOMAIN symbol_sequences_ :
       IsIndexed(actor_kind, symbol) /\ Ascends(symbol_sequences_[symbol], WithSymbol(symbol, k))
  /\ \A n \in 0 .. k - 1 :
       IsIndexed(actor_kind, SymbolOf(n)) => SymbolOf(n) \in DOMAIN symbol_sequences_

\* e is the last node of the subtree of n.
EndsSubtree(n, e) ==
  /\ e \in DOMAIN tree /\ InSubtree(tree, e, n)
  /\ e + 1 \in DOMAIN tree => tree[e + 1].parent < n

IndexInv ==
  /\ CanonicalTree(tree)
  /\ index_pc \in {"not built", "visit", "leave", "built"}
  /\ index_pc = "not built" => symbol_sequences_ = <<>> /\ current_node = 0
  /\ index_pc # "not built" => actor_kind \in ActorKinds /\ current_node \in DOMAIN tree
  /\ index_pc = "visit" => IndexedUpTo(current_node)
  /\ index_pc = "leave" => \E e \in DOMAIN tree : EndsSubtree(current_node, e) /\ IndexedUpTo(e + 1)
  /\ index_pc = "built" => IndexedUpTo(NumAllocatedNodes(tree))

-----------------------------------------------------------------------------
(* The walk: where the subtree of a node ends.                             *)

\* The subtree of a node without children is the node.
LEMMA ChildlessEnds ==
  ASSUME CanonicalTree(tree), NEW n \in DOMAIN tree, tree[n].first_child = -1
  PROVE  EndsSubtree(n, n)
<1>1. n \in Nat /\ DOMAIN tree \subseteq Nat
  BY Nodes
<1>2. InSubtree(tree, n, n)
  BY <1>1 DEF InSubtree
<1>3. ASSUME n + 1 \in DOMAIN tree
      PROVE  tree[n + 1].parent < n
  <2>1. tree[n + 1].parent \in 0 .. n \union {-1}
    BY <1>1, <1>3, LinksInside
  <2>2. tree[n + 1].parent # n
    <3> SUFFICES ASSUME tree[n + 1].parent = n
                 PROVE  FALSE
      OBVIOUS
    <3>1. tree[n].first_child = n + 1
      BY <1>1, <1>3, ParentLinks
    <3>2. QED
      BY <1>1, <3>1
  <2>3. QED
    BY <1>1, <2>1, <2>2
<1>4. QED
  BY <1>2, <1>3 DEF EndsSubtree

\* The right sibling comes right behind the subtree.
LEMMA RightComesNext ==
  ASSUME CanonicalTree(tree), NEW n \in DOMAIN tree, NEW e \in DOMAIN tree,
         EndsSubtree(n, e), tree[n].right_sib # -1
  PROVE  tree[n].right_sib = e + 1
<1> DEFINE r == tree[n].right_sib
<1>1. n \in Nat /\ e \in Nat /\ r \in DOMAIN tree /\ r \in Nat /\ DOMAIN tree \subseteq Nat
  BY Nodes, LinksInside
<1>2. n < r /\ tree[r].left_sib = n
  BY LinkFacts
<1>3. tree[r].parent = tree[n].parent /\ tree[n].parent < n
  <2>1. tree[r].left_sib # -1
    BY <1>1, <1>2
  <2>2. QED
    BY <1>1, <1>2, <2>1, LinkFacts, LinksInside
<1>4. ~(r <= e)
  <2> SUFFICES ASSUME r <= e
               PROVE  FALSE
    OBVIOUS
  <2>1. r \in n + 1 .. e
    BY <1>1, <1>2
  <2>2. tree[r].parent >= n
    BY <2>1 DEF EndsSubtree, InSubtree
  <2>3. QED
    BY <1>1, <1>3, <2>2, Fields
<1>5. ~(e + 1 < r)
  <2> SUFFICES ASSUME e + 1 < r
               PROVE  FALSE
    OBVIOUS
  <2>1. n <= e
    BY <1>1 DEF EndsSubtree, InSubtree
  <2>2. e + 1 \in DOMAIN tree
    BY <1>1, Nodes
  <2>3. e + 1 \in n + 1 .. r - 1
    BY <1>1, <2>1
  <2>4. n <= tree[e + 1].parent
    BY <2>3, LinkFacts
  <2>5. tree[e + 1].parent < n /\ tree[e + 1].parent \in Int
    BY <2>2, Fields DEF EndsSubtree
  <2>6. QED
    BY <1>1, <2>4, <2>5
<1>6. QED
  BY <1>1, <1>4, <1>5

\* The subtree of a parent ends with that of its last child.
LEMMA LastChildEnds ==
  ASSUME CanonicalTree(tree), NEW n \in DOMAIN tree, NEW e \in DOMAIN tree,
         EndsSubtree(n, e), tree[n].right_sib = -1, n # 0
  PROVE  tree[n].parent \in DOMAIN tree /\ EndsSubtree(tree[n].parent, e)
<1> DEFINE u == tree[n].parent
<1>1. /\ n \in Nat /\ e \in Nat /\ DOMAIN tree \subseteq Nat /\ n <= e
      /\ u \in DOMAIN tree /\ u \in Nat /\ u < n
  <2>1. n \in Nat /\ e \in Nat /\ DOMAIN tree \subseteq Nat
    BY Nodes
  <2>2. u \in 0 .. n - 1
    BY <2>1, LinksInside, LinkFacts
  <2>3. n <= e
    BY <2>1 DEF EndsSubtree, InSubtree
  <2>4. QED
    BY <2>1, <2>2, <2>3, Nodes
<1>2. InSubtree(tree, n, u)
  BY <1>1, ChildInSubtree
<1>3. ASSUME NEW k \in u + 1 .. e
      PROVE  tree[k].parent >= u
  <2>1. k \in DOMAIN tree
    BY <1>1, Nodes
  <2>2. tree[k].parent \in Int
    BY <2>1, Fields
  <2>3. CASE k <= n
    BY <1>1, <1>2, <2>3 DEF InSubtree
  <2>4. CASE n < k
    <3>1. k \in n + 1 .. e
      BY <1>1, <2>4
    <3>2. tree[k].parent >= n
      BY <3>1 DEF EndsSubtree, InSubtree
    <3>3. QED
      BY <1>1, <2>2, <3>2
  <2>5. QED
    BY <1>1, <2>3, <2>4
<1>4. ASSUME e + 1 \in DOMAIN tree
      PROVE  tree[e + 1].parent < u
  <2>1. tree[e + 1].parent < n
    BY <1>4 DEF EndsSubtree
  <2>2. n < e + 1
    BY <1>1
  <2>3. QED
    BY <1>4, <2>1, <2>2, LastChildCloses
<1>5. QED
  BY <1>1, <1>3, <1>4 DEF EndsSubtree, InSubtree

\* Behind the subtree of the root there is nothing.
LEMMA RootEndsAll ==
  ASSUME CanonicalTree(tree), NEW e \in DOMAIN tree, EndsSubtree(0, e)
  PROVE  e + 1 = NumAllocatedNodes(tree)
<1>1. e + 1 \notin DOMAIN tree
  <2> SUFFICES ASSUME e + 1 \in DOMAIN tree
               PROVE  FALSE
    OBVIOUS
  <2>1. e \in Nat
    BY Nodes
  <2>2. tree[e + 1].parent >= 0
    BY <2>1, LinkFacts
  <2>3. tree[e + 1].parent < 0 /\ tree[e + 1].parent \in Int
    BY Fields DEF EndsSubtree
  <2>4. QED
    BY <2>2, <2>3
<1>2. QED
  BY <1>1, Nodes

-----------------------------------------------------------------------------
(* Ascending sequences.                                                    *)

\* Nothing is in the empty sequence.
LEMMA AscendsEmpty == Ascends(<<>>, {})
BY DEF Ascends

\* The numbers of an ascending sequence.
LEMMA AscendsRange ==
  ASSUME NEW n \in Nat, NEW S \in SUBSET (0 .. n - 1), NEW seq, Ascends(seq, S)
  PROVE  /\ seq \in Seq(S) /\ Len(seq) \in Nat
         /\ \A i \in 1 .. Len(seq) : seq[i] \in S /\ seq[i] \in 0 .. n - 1
         /\ \A m \in S : m \in Int
<1>1. seq \in Seq(S)
  BY DEF Ascends
<1>2. Len(seq) \in Nat /\ \A i \in 1 .. Len(seq) : seq[i] \in S
  BY <1>1
<1>3. \A m \in S : m \in 0 .. n - 1 /\ m \in Int
  OBVIOUS
<1>4. QED
  BY <1>1, <1>2, <1>3

\* A larger number goes to the end.
LEMMA AscendsAppend ==
  ASSUME NEW n \in Nat, NEW S \in SUBSET (0 .. n - 1), NEW seq, Ascends(seq, S)
  PROVE  Ascends(Append(seq, n), S \union {n})
<1> DEFINE T == S \union {n}
           new == Append(seq, n)
<1>1. seq \in Seq(T) /\ seq \in Seq(S) /\ Len(seq) \in Nat
  <2>1. seq \in Seq(S) /\ Len(seq) \in Nat
    BY AscendsRange
  <2>2. QED
    BY <2>1
<1>2. /\ new \in Seq(T) /\ Len(new) = Len(seq) + 1 /\ new[Len(seq) + 1] = n
      /\ \A i \in 1 .. Len(seq) : new[i] = seq[i] /\ seq[i] \in 0 .. n - 1
  <2>1. /\ new \in Seq(T) /\ Len(new) = Len(seq) + 1 /\ new[Len(seq) + 1] = n
        /\ \A i \in 1 .. Len(seq) : new[i] = seq[i]
    BY <1>1
  <2>2. QED
    BY <2>1, AscendsRange
<1>3. ASSUME NEW i \in 1 .. Len(new), NEW j \in 1 .. Len(new), i < j
      PROVE  new[i] < new[j]
  <2>1. i \in 1 .. Len(seq)
    BY <1>1, <1>2, <1>3
  <2>2. CASE j \in 1 .. Len(seq)
    BY <1>2, <1>3, <2>1, <2>2 DEF Ascends
  <2>3. CASE j = Len(seq) + 1
    BY <1>2, <2>1, <2>3
  <2>4. QED
    BY <1>1, <1>2, <2>2, <2>3
<1>4. ASSUME NEW m \in T
      PROVE  \E i \in 1 .. Len(new) : new[i] = m
  <2>1. CASE m \in S
    <3>1. PICK i \in 1 .. Len(seq) : seq[i] = m
      BY <2>1 DEF Ascends
    <3>2. i \in 1 .. Len(new) /\ new[i] = m
      BY <1>1, <1>2, <3>1
    <3>3. QED
      BY <3>2
  <2>2. CASE m = n
    <3>1. Len(seq) + 1 \in 1 .. Len(new)
      BY <1>1, <1>2
    <3>2. QED
      BY <1>2, <2>2, <3>1
  <2>3. QED
    BY <2>1, <2>2
<1>5. QED
  BY <1>2, <1>3, <1>4 DEF Ascends

\* The last number is the greatest.
LEMMA AscendsToLast ==
  ASSUME NEW n \in Nat, NEW S \in SUBSET (0 .. n - 1), NEW seq, Ascends(seq, S)
  PROVE  FindsLast(S, IF seq = <<>> THEN -1 ELSE seq[Len(seq)])
<1>1. seq \in Seq(S) /\ Len(seq) \in Nat
  BY DEF Ascends
<1>2. CASE seq = <<>>
  <2>1. S = {}
    BY <1>2 DEF Ascends
  <2>2. QED
    BY <1>2, <2>1 DEF FindsLast, Stay
<1>3. CASE seq # <<>>
  <2>1. Len(seq) \in 1 .. Len(seq) /\ seq[Len(seq)] \in S
    BY <1>1, <1>3
  <2>2. ASSUME NEW m \in S
        PROVE  m <= seq[Len(seq)]
    <3>1. PICK i \in 1 .. Len(seq) : seq[i] = m
      BY DEF Ascends
    <3>2. i < Len(seq) => m < seq[Len(seq)]
      BY <2>1, <3>1 DEF Ascends
    <3>3. i = Len(seq) \/ i < Len(seq)
      BY <1>1
    <3>4. m \in Int /\ seq[Len(seq)] \in Int
      BY <2>1, AscendsRange
    <3>5. QED
      BY <3>1, <3>2, <3>3, <3>4
  <2>3. QED
    BY <1>3, <2>1, <2>2 DEF FindsLast
<1>4. QED
  BY <1>2, <1>3

\* lower_bound is behind the numbers that are less.
LEMMA LowerBoundFinds ==
  ASSUME NEW n \in Nat, NEW S \in SUBSET (0 .. n - 1), NEW seq, Ascends(seq, S), NEW p \in Int
  PROVE  LET k == LowerBound(seq, p)
         IN FindsLast({m \in S : m < p}, IF k = 0 THEN Stay ELSE seq[k])
<1> DEFINE Less == {i \in 1 .. Len(seq) : seq[i] < p}
           k == LowerBound(seq, p)
<1>1. seq \in Seq(S) /\ Len(seq) \in Nat /\ \A i \in 1 .. Len(seq) : seq[i] \in S /\ seq[i] \in Int
  <2>1. \A m \in 0 .. n - 1 : m \in Int
    OBVIOUS
  <2>2. QED
    BY <2>1, AscendsRange
<1>2. k = Cardinality(Less)
  BY DEF LowerBound
<1>3. \A m \in S : m < p => \E i \in Less : seq[i] = m
  BY DEF Ascends
<1>4. CASE Less = {}
  <2>1. k = 0
    BY <1>2, <1>4, FS_EmptySet
  <2>2. {m \in S : m < p} = {}
    BY <1>3, <1>4
  <2>3. QED
    BY <2>1, <2>2 DEF FindsLast
<1>5. CASE Less # {}
  <2>1. Less \subseteq 0 .. Len(seq)
    BY <1>1
  <2>2. PICK last \in Less : \A i \in Less : i <= last
    BY <1>1, <1>5, <2>1, GreatestBelow
  <2>3. Less = 1 .. last
    <3>1. last \in 1 .. Len(seq) /\ seq[last] < p
      BY <2>2
    <3>2. ASSUME NEW i \in 1 .. last
          PROVE  i \in Less
      <4>1. i \in 1 .. Len(seq)
        BY <1>1, <3>1
      <4>2. i < last => seq[i] < seq[last]
        BY <3>1, <4>1 DEF Ascends
      <4>3. seq[i] < p
        <5>1. seq[i] \in Int /\ seq[last] \in Int
          BY <1>1, <3>1, <4>1
        <5>2. i = last \/ i < last
          BY <3>1
        <5>3. QED
          BY <3>1, <4>2, <5>1, <5>2
      <4>4. QED
        BY <4>1, <4>3
    <3>3. \A i \in Less : i \in 1 .. last
      BY <1>1, <2>2, <3>1
    <3>4. QED
      BY <3>2, <3>3
  <2>4. k = last /\ last \in 1 .. Len(seq) /\ seq[last] < p
    <3>1. last \in 1 .. Len(seq) /\ seq[last] < p
      BY <2>2
    <3>2. Cardinality(1 .. last) = last
      BY <3>1, FS_Interval
    <3>3. QED
      BY <1>2, <2>3, <3>1, <3>2
  <2>5. ASSUME NEW m \in S, m < p
        PROVE  m <= seq[last]
    <3>1. PICK i \in Less : seq[i] = m
      BY <1>3, <2>5
    <3>2. i < last \/ i = last
      BY <2>2, <2>4, <3>1
    <3>3. i < last => seq[i] < seq[last]
      BY <2>4, <3>1 DEF Ascends
    <3>4. QED
      BY <1>1, <2>4, <3>1, <3>2, <3>3
  <2>6. seq[last] \in {m \in S : m < p}
    BY <1>1, <2>4
  <2>7. QED
    BY <2>4, <2>5, <2>6 DEF FindsLast
<1>6. QED
  BY <1>4, <1>5

-----------------------------------------------------------------------------
(* Build.                                                                  *)

\* One more node either has the symbol or not.
LEMMA WithOneMore ==
  ASSUME NEW n \in Nat, NEW symbol
  PROVE  /\ WithSymbol(symbol, n) \in SUBSET (0 .. n - 1)
         /\ WithSymbol(symbol, n + 1) =
              IF symbol = SymbolOf(n) THEN WithSymbol(symbol, n) \union {n} ELSE WithSymbol(symbol, n)
BY DEF WithSymbol

\* The nodes of a symbol that is indexed, whether or not it was met.
LEMMA FoundIsExact ==
  ASSUME NEW n \in Nat, IndexedUpTo(n), NEW symbol, IsIndexed(actor_kind, symbol)
  PROVE  Ascends(find_sequence(symbol), WithSymbol(symbol, n))
<1>1. CASE symbol \in DOMAIN symbol_sequences_
  BY <1>1 DEF find_sequence, IndexedUpTo
<1>2. CASE symbol \notin DOMAIN symbol_sequences_
  <2>1. WithSymbol(symbol, n) = {}
    BY <1>2 DEF IndexedUpTo, WithSymbol
  <2>2. find_sequence(symbol) = <<>>
    BY <1>2 DEF find_sequence
  <2>3. QED
    BY <2>1, <2>2, AscendsEmpty
<1>3. QED
  BY <1>1, <1>2

\* The callback adds its node to the index.
LEMMA CallbackIndexes ==
  ASSUME CanonicalTree(tree), NEW n \in DOMAIN tree, IndexedUpTo(n),
         UNCHANGED <<tree, actor_kind>>,
         IF IsIndexed(actor_kind, SymbolOf(n)) THEN Index(n)
         ELSE UNCHANGED <<symbol_sequences_, symbol_predecessors_>>
  PROVE  IndexedUpTo(n + 1)'
<1> DEFINE symbol == SymbolOf(n)
           nodes  == find_sequence(symbol)
           last   == IF nodes = <<>> THEN -1 ELSE nodes[Len(nodes)]
<1>1. n \in Nat /\ DOMAIN tree \subseteq Nat /\ 0 .. n \subseteq DOMAIN tree
  BY Nodes
<1>2. \A m : SymbolOf(m)' = SymbolOf(m)
  BY DEF SymbolOf
<1>3. \A x, k : WithSymbol(x, k)' = WithSymbol(x, k)
  BY <1>2 DEF WithSymbol
<1>4. \A m \in DOMAIN tree : m < n + 1 <=> m < n \/ m = n
  BY <1>1
<1>5. CASE ~IsIndexed(actor_kind, symbol)
  <2>1. \A m \in DOMAIN tree :
          IF m < n + 1 THEN EntryIsExact(m)' ELSE symbol_predecessors_'[m] = NoEntry
    BY <1>1, <1>2, <1>3, <1>4, <1>5 DEF EntryIsExact, IndexedUpTo
  <2>2. \A x \in DOMAIN symbol_sequences_ : WithSymbol(x, n + 1) = WithSymbol(x, n)
    BY <1>1, <1>5, WithOneMore DEF IndexedUpTo
  <2>3. \A x \in DOMAIN symbol_sequences_' :
          IsIndexed(actor_kind', x) /\ Ascends(symbol_sequences_'[x], WithSymbol(x, n + 1)')
    BY <1>3, <1>5, <2>2 DEF IndexedUpTo
  <2>4. \A m \in 0 .. n : IsIndexed(actor_kind', SymbolOf(m)') => SymbolOf(m)' \in DOMAIN symbol_sequences_'
    <3>1. \A m \in 0 .. n : m \in 0 .. n - 1 \/ m = n
      BY <1>1
    <3>2. QED
      BY <1>2, <1>5, <3>1 DEF IndexedUpTo
  <2>5. DOMAIN symbol_predecessors_' = DOMAIN tree'
    BY <1>5 DEF IndexedUpTo
  <2>6. 0 .. (n + 1) - 1 = 0 .. n
    BY <1>1
  <2>7. QED
    BY <2>1, <2>3, <2>4, <2>5, <2>6 DEF IndexedUpTo
<1>6. CASE IsIndexed(actor_kind, symbol)
  <2>1. /\ symbol_predecessors_' = [symbol_predecessors_ EXCEPT ![n] = Entry(symbol, last)]
        /\ DOMAIN symbol_sequences_' = DOMAIN symbol_sequences_ \union {symbol}
        /\ symbol_sequences_'[symbol] = Append(nodes, n)
        /\ \A x \in DOMAIN symbol_sequences_ : x # symbol =>
             symbol_sequences_'[x] = symbol_sequences_[x]
    BY <1>6 DEF Index, AddTo
  <2>2. Ascends(nodes, WithSymbol(symbol, n))
    BY <1>1, <1>6, FoundIsExact
  <2>3. FindsLast(WithSymbol(symbol, n), last)
    BY <1>1, <2>2, WithOneMore, AscendsToLast
  <2>4. DOMAIN symbol_predecessors_' = DOMAIN tree'
    BY <2>1 DEF IndexedUpTo
  <2>5. \A m \in DOMAIN tree :
          symbol_predecessors_'[m] = IF m = n THEN Entry(symbol, last) ELSE symbol_predecessors_[m]
    BY <2>1 DEF IndexedUpTo
  <2>6. ASSUME NEW m \in DOMAIN tree
        PROVE  IF m < n + 1 THEN EntryIsExact(m)' ELSE symbol_predecessors_'[m] = NoEntry
    <3>1. CASE m = n
      <4>1. symbol_predecessors_'[m] = Entry(symbol, last) /\ m < n + 1
        BY <1>1, <2>5, <3>1
      <4>2. symbol_predecessors_'[m].pred_position = last
        BY <4>1 DEF Entry
      <4>3. EntryIsExact(m)'
        BY <1>2, <1>3, <1>6, <2>3, <3>1, <4>1, <4>2 DEF EntryIsExact
      <4>4. QED
        BY <4>1, <4>3
    <3>2. CASE m # n
      <4>1. symbol_predecessors_'[m] = symbol_predecessors_[m] /\ (m < n + 1 <=> m < n)
        BY <1>4, <2>5, <3>2
      <4>2. IF m < n THEN EntryIsExact(m) ELSE symbol_predecessors_[m] = NoEntry
        BY DEF IndexedUpTo
      <4>3. EntryIsExact(m)' <=> EntryIsExact(m)
        BY <1>2, <1>3, <4>1 DEF EntryIsExact, Entry
      <4>4. QED
        BY <4>1, <4>2, <4>3
    <3>3. QED
      BY <3>1, <3>2
  <2>7. ASSUME NEW x \in DOMAIN symbol_sequences_'
        PROVE  IsIndexed(actor_kind', x) /\ Ascends(symbol_sequences_'[x], WithSymbol(x, n + 1)')
    <3>1. CASE x = symbol
      <4>1. Ascends(Append(nodes, n), WithSymbol(symbol, n) \union {n})
        BY <1>1, <2>2, WithOneMore, AscendsAppend
      <4>2. WithSymbol(symbol, n + 1) = WithSymbol(symbol, n) \union {n}
        BY <1>1, WithOneMore
      <4>3. QED
        BY <1>3, <1>6, <2>1, <3>1, <4>1, <4>2
    <3>2. CASE x # symbol
      <4>1. x \in DOMAIN symbol_sequences_ /\ symbol_sequences_'[x] = symbol_sequences_[x]
        BY <2>1, <3>2
      <4>2. WithSymbol(x, n + 1) = WithSymbol(x, n)
        BY <1>1, <3>2, WithOneMore
      <4>3. QED
        BY <1>3, <4>1, <4>2 DEF IndexedUpTo
    <3>3. QED
      BY <3>1, <3>2
  <2>8. \A m \in 0 .. n : IsIndexed(actor_kind', SymbolOf(m)') => SymbolOf(m)' \in DOMAIN symbol_sequences_'
    <3>1. \A m \in 0 .. n : m \in 0 .. n - 1 \/ m = n
      BY <1>1
    <3>2. QED
      BY <1>2, <2>1, <3>1 DEF IndexedUpTo
  <2>9. 0 .. (n + 1) - 1 = 0 .. n
    BY <1>1
  <2>10. QED
    BY <2>4, <2>6, <2>7, <2>8, <2>9 DEF IndexedUpTo
<1>7. QED
  BY <1>5, <1>6

\* What the walk leaves alone stays indexed.
LEMMA IndexStays ==
  ASSUME NEW k, IndexedUpTo(k),
         UNCHANGED <<tree, actor_kind, symbol_sequences_, symbol_predecessors_>>
  PROVE  IndexedUpTo(k)'
<1>1. \A m : SymbolOf(m)' = SymbolOf(m)
  BY DEF SymbolOf
<1>2. \A x, n : WithSymbol(x, n)' = WithSymbol(x, n)
  BY <1>1 DEF WithSymbol
<1>3. \A m : EntryIsExact(m)' = EntryIsExact(m)
  BY <1>1, <1>2 DEF EntryIsExact
<1>4. QED
  BY <1>1, <1>2, <1>3 DEF IndexedUpTo

\* Every step of Build keeps the invariant.
LEMMA IndexStep ==
  ASSUME IndexInv, [BuildStep]_index_vars
  PROVE  IndexInv'
<1>1. CanonicalTree(tree) /\ DOMAIN tree \subseteq Nat /\ 0 \in DOMAIN tree
  <2>1. CanonicalTree(tree)
    BY DEF IndexInv
  <2>2. QED
    BY <2>1, Nodes
<1>2. CASE StartBuild
  <2>1. /\ index_pc = "not built" /\ index_pc' = "visit" /\ actor_kind' \in ActorKinds
        /\ symbol_predecessors_' = [n \in DOMAIN tree |-> NoEntry]
        /\ UNCHANGED <<tree, symbol_sequences_, current_node>>
        /\ symbol_sequences_ = <<>> /\ current_node = 0
    BY <1>2 DEF StartBuild, IndexInv
  <2>2. IndexedUpTo(0)'
    <3>1. DOMAIN symbol_predecessors_' = DOMAIN tree'
          /\ \A n \in DOMAIN tree' : ~(n < 0) /\ symbol_predecessors_'[n] = NoEntry
      <4>1. \A n \in DOMAIN tree : ~(n < 0)
        BY <1>1
      <4>2. DOMAIN symbol_predecessors_' = DOMAIN tree
            /\ \A n \in DOMAIN tree : symbol_predecessors_'[n] = NoEntry
        BY <2>1
      <4>3. QED
        BY <2>1, <4>1, <4>2
    <3>2. DOMAIN symbol_sequences_' = {} /\ 0 .. 0 - 1 = {}
      <4>1. symbol_sequences_' = <<>>
        BY <2>1
      <4>2. DOMAIN <<>> = {}
        OBVIOUS
      <4>3. QED
        BY <4>1, <4>2
    <3>3. QED
      BY <3>1, <3>2 DEF IndexedUpTo
  <2>3. QED
    BY <1>1, <2>1, <2>2 DEF IndexInv
<1>3. CASE Visit
  <2> DEFINE n == current_node
  <2>1. /\ index_pc = "visit" /\ UNCHANGED <<tree, actor_kind>> /\ actor_kind \in ActorKinds
        /\ n \in DOMAIN tree /\ n \in Nat /\ IndexedUpTo(n)
    BY <1>1, <1>3 DEF Visit, IndexInv
  <2>2. IF IsIndexed(actor_kind, SymbolOf(n)) THEN Index(n)
        ELSE UNCHANGED <<symbol_sequences_, symbol_predecessors_>>
    BY <1>3 DEF Visit
  <2>3. \A m \in DOMAIN tree : m = n => IndexedUpTo(m + 1)'
    <3> SUFFICES ASSUME NEW m \in DOMAIN tree, m = n
                 PROVE  IndexedUpTo(m + 1)'
      OBVIOUS
    <3>1. IndexedUpTo(m)
      BY <2>1
    <3>2. IF IsIndexed(actor_kind, SymbolOf(m)) THEN Index(m)
          ELSE UNCHANGED <<symbol_sequences_, symbol_predecessors_>>
      BY <2>2
    <3>3. QED
      BY <1>1, <2>1, <3>1, <3>2, CallbackIndexes
  <2>4. PICK m \in DOMAIN tree : m = n /\ IndexedUpTo(m + 1)'
    BY <2>1, <2>3
  <2>5. tree[m].first_child \in DOMAIN tree \union {-1}
    BY <1>1, LinksInside
  <2>6. CASE tree[n].first_child >= 0
    <3>1. n' = tree[m].first_child /\ index_pc' = "visit"
      BY <1>3, <2>1, <2>4, <2>6 DEF Visit
    <3>2. tree[m].first_child = m + 1 /\ m + 1 \in DOMAIN tree
      BY <1>1, <2>4, <2>5, <2>6, LinkFacts
    <3>3. QED
      BY <1>1, <2>1, <2>4, <3>1, <3>2 DEF IndexInv
  <2>7. CASE ~(tree[n].first_child >= 0)
    <3>1. n' = m /\ index_pc' = "leave"
      BY <1>3, <2>4, <2>7 DEF Visit
    <3>2. tree[m].first_child = -1
      BY <1>1, <2>4, <2>5, <2>7
    <3>3. EndsSubtree(m, m)'
      BY <1>1, <2>1, <3>2, ChildlessEnds DEF EndsSubtree
    <3>4. QED
      BY <1>1, <2>1, <2>4, <3>1, <3>3 DEF IndexInv
  <2>8. QED
    BY <2>6, <2>7
<1>4. CASE Return
  <2>1. /\ index_pc = "leave" /\ index_pc' = "built" /\ current_node = 0
        /\ UNCHANGED <<tree, actor_kind, symbol_sequences_, symbol_predecessors_, current_node>>
    BY <1>4 DEF Return
  <2>2. PICK e \in DOMAIN tree : EndsSubtree(0, e) /\ IndexedUpTo(e + 1)
    BY <2>1 DEF IndexInv
  <2>3. e + 1 = NumAllocatedNodes(tree)
    BY <1>1, <2>2, RootEndsAll
  <2>4. IndexedUpTo(NumAllocatedNodes(tree))'
    BY <2>1, <2>2, <2>3, IndexStays
  <2>5. QED
    BY <1>1, <2>1, <2>4 DEF IndexInv
<1>5. CASE LeaveUp
  <2>1. /\ index_pc = "leave" /\ index_pc' = "leave" /\ current_node # 0
        /\ tree[current_node].right_sib < 0 /\ current_node' = tree[current_node].parent
        /\ UNCHANGED <<tree, actor_kind, symbol_sequences_, symbol_predecessors_>>
        /\ current_node \in DOMAIN tree /\ actor_kind \in ActorKinds
    BY <1>5 DEF LeaveUp, IndexInv
  <2>2. PICK e \in DOMAIN tree : EndsSubtree(current_node, e) /\ IndexedUpTo(e + 1)
    BY <2>1 DEF IndexInv
  <2>3. tree[current_node].right_sib = -1
    BY <1>1, <2>1, LinksInside
  <2>4. current_node' \in DOMAIN tree /\ EndsSubtree(tree[current_node].parent, e)
    BY <1>1, <2>1, <2>2, <2>3, LastChildEnds
  <2>5. EndsSubtree(current_node, e)'
    BY <2>1, <2>4 DEF EndsSubtree
  <2>6. IndexedUpTo(e + 1)'
    BY <2>1, <2>2, IndexStays
  <2>7. QED
    BY <1>1, <2>1, <2>4, <2>5, <2>6 DEF IndexInv
<1>6. CASE LeaveRight
  <2>1. /\ index_pc = "leave" /\ index_pc' = "visit"
        /\ tree[current_node].right_sib >= 0 /\ current_node' = tree[current_node].right_sib
        /\ UNCHANGED <<tree, actor_kind, symbol_sequences_, symbol_predecessors_>>
        /\ current_node \in DOMAIN tree /\ actor_kind \in ActorKinds
    BY <1>6 DEF LeaveRight, IndexInv
  <2>2. PICK e \in DOMAIN tree : EndsSubtree(current_node, e) /\ IndexedUpTo(e + 1)
    BY <2>1 DEF IndexInv
  <2>3. tree[current_node].right_sib # -1 /\ tree[current_node].right_sib \in DOMAIN tree
    BY <1>1, <2>1, LinksInside
  <2>4. current_node' = e + 1
    BY <1>1, <2>1, <2>2, <2>3, RightComesNext
  <2>5. IndexedUpTo(e + 1)'
    BY <2>1, <2>2, IndexStays
  <2>6. QED
    BY <1>1, <2>1, <2>3, <2>4, <2>5 DEF IndexInv
<1>7. CASE UNCHANGED index_vars
  <2>1. UNCHANGED <<tree, actor_kind, symbol_sequences_, symbol_predecessors_, current_node, index_pc>>
    BY <1>7 DEF index_vars
  <2>2. \A k : IndexedUpTo(k) => IndexedUpTo(k)'
    BY <2>1, IndexStays
  <2>3. \A n, e : EndsSubtree(n, e)' <=> EndsSubtree(n, e)
    BY <2>1 DEF EndsSubtree
  <2>4. QED
    BY <2>1, <2>2, <2>3 DEF IndexInv
<1>8. QED
  BY <1>2, <1>3, <1>4, <1>5, <1>6, <1>7 DEF BuildStep

\* Build indexes the nodes in the order of their ids, and all of them.
THEOREM BuildInvariant == BuildSpec => []IndexInv
<1>1. NotBuilt /\ CanonicalTree(tree) => IndexInv
  BY DEF NotBuilt, IndexInv
<1>2. IndexInv /\ [BuildStep]_index_vars => IndexInv'
  BY IndexStep
<1>3. QED
  BY <1>1, <1>2, PTL DEF BuildSpec

-----------------------------------------------------------------------------
(* What the built index answers.                                           *)

\* At most one node is the last of a set.
LEMMA LastIsUnique ==
  ASSUME NEW n \in Nat, NEW S \in SUBSET (0 .. n - 1), NEW x, NEW y,
         FindsLast(S, x), FindsLast(S, y)
  PROVE  x = y
<1>1. CASE S = {}
  BY <1>1 DEF FindsLast
<1>2. CASE S # {}
  <2>1. x \in S /\ y \in S /\ x <= y /\ y <= x
    BY <1>2 DEF FindsLast
  <2>2. x \in 0 .. n - 1 /\ y \in 0 .. n - 1
    BY <2>1
  <2>3. QED
    BY <2>1, <2>2
<1>3. QED
  BY <1>1, <1>2

\* The predecessor of a place that was indexed under the symbol that is seen,
\* or the search in the sequence, gives the node that MoveLeft finds.
LEMMA AnswersAtPlace ==
  ASSUME CanonicalTree(tree), IndexedUpTo(NumAllocatedNodes(tree)),
         NEW begin \in DOMAIN tree, NEW allow \in BOOLEAN, NEW p \in 0 .. begin
  PROVE  LET s == TreeSlice(tree, begin, allow)
         IN IndexedMoveLeft(s, p) = MoveLeft(actor_kind, tree, s, p)
<1> DEFINE s      == TreeSlice(tree, begin, allow)
           symbol == ActorSymbol(actor_kind, tree, s, p)
           size   == NumAllocatedNodes(tree)
           sought == {n \in 0 .. p - 1 : IsIndexed(actor_kind, symbol) /\ SymbolOf(n) = symbol}
<1>1. p \in DOMAIN tree /\ p \in Nat /\ p < size /\ size \in Nat /\ 0 .. p - 1 \subseteq 0 .. size - 1
  BY Nodes
<1>2. FindsLast(sought, MoveLeft(actor_kind, tree, s, p))
  BY <1>1, MoveLeftFinds DEF SymbolOf
<1>3. FindsLast(sought, IndexedMoveLeft(s, p))
  <2> DEFINE entry == symbol_predecessors_[p]
  <2>1. EntryIsExact(p)
    BY <1>1 DEF IndexedUpTo
  <2>2. CASE HasPredecessor(symbol, p) /\ IsIndexed(actor_kind, SymbolOf(p))
    <3>1. entry = Entry(SymbolOf(p), entry.pred_position)
          /\ FindsLast(WithSymbol(SymbolOf(p), p), entry.pred_position)
      BY <2>1, <2>2 DEF EntryIsExact
    <3>2. entry.indexed /\ entry.symbol = SymbolOf(p)
      BY <3>1 DEF Entry
    <3>3. symbol = SymbolOf(p)
      BY <2>2, <3>2 DEF HasPredecessor
    <3>4. sought = WithSymbol(SymbolOf(p), p)
      BY <2>2, <3>3 DEF WithSymbol
    <3>5. IndexedMoveLeft(s, p) = entry.pred_position
      BY <2>2 DEF IndexedMoveLeft
    <3>6. QED
      BY <3>1, <3>4, <3>5
  <2>3. CASE HasPredecessor(symbol, p) /\ ~IsIndexed(actor_kind, SymbolOf(p))
    <3>1. entry = NoEntry
      BY <2>1, <2>3 DEF EntryIsExact
    <3>2. ~entry.indexed /\ entry.pred_position = -1
      BY <3>1 DEF NoEntry
    <3>3. ~IsIndexed(actor_kind, symbol)
      BY <2>3, <3>2 DEF HasPredecessor
    <3>4. sought = {}
      BY <3>3
    <3>5. IndexedMoveLeft(s, p) = -1
      BY <2>3, <3>2 DEF IndexedMoveLeft
    <3>6. QED
      BY <3>4, <3>5 DEF FindsLast, Stay
  <2>4. CASE ~HasPredecessor(symbol, p)
    <3> DEFINE nodes == find_sequence(symbol)
               k     == LowerBound(nodes, p)
    <3>1. IndexedMoveLeft(s, p) = IF k = 0 THEN Stay ELSE nodes[k]
      BY <2>4 DEF IndexedMoveLeft, LookUp
    <3>2. ASSUME NEW S \in SUBSET (0 .. size - 1), Ascends(nodes, S),
                 {m \in S : m < p} = sought
          PROVE  FindsLast(sought, IF k = 0 THEN Stay ELSE nodes[k])
      <4>1. p \in Int /\ size \in Nat
        BY <1>1
      <4>2. FindsLast({m \in S : m < p}, IF k = 0 THEN Stay ELSE nodes[k])
        BY <3>2, <4>1, LowerBoundFinds, Zenon
      <4>3. QED
        BY <3>2, <4>2
    <3>3. CASE IsIndexed(actor_kind, symbol)
      <4>1. Ascends(nodes, WithSymbol(symbol, size))
        BY <1>1, <3>3, FoundIsExact
      <4>2. WithSymbol(symbol, size) \in SUBSET (0 .. size - 1)
        BY DEF WithSymbol
      <4>3. {m \in WithSymbol(symbol, size) : m < p} = sought
        BY <1>1, <3>3 DEF WithSymbol
      <4>4. QED
        BY <3>1, <3>2, <4>1, <4>2, <4>3
    <3>4. CASE ~IsIndexed(actor_kind, symbol)
      <4>1. nodes = <<>>
        BY <3>4 DEF find_sequence, IndexedUpTo
      <4>2. Ascends(nodes, {})
        BY <4>1, AscendsEmpty
      <4>3. {m \in {} : m < p} = sought
        BY <3>4
      <4>4. QED
        BY <3>1, <3>2, <4>2, <4>3
    <3>5. QED
      BY <3>3, <3>4
  <2>5. QED
    BY <2>2, <2>3, <2>4
<1>4. sought \in SUBSET (0 .. p - 1)
  OBVIOUS
<1>5. QED
  BY <1>1, <1>2, <1>3, <1>4, LastIsUnique

\* Sequences are in order at any time, and in the end they have all nodes.
LEMMA IndexIsExact == ASSUME IndexInv PROVE SequencesAreExact
<1>1. CanonicalTree(tree) /\ NumAllocatedNodes(tree) \in Nat /\ DOMAIN tree = 0 .. NumAllocatedNodes(tree) - 1
  <2>1. CanonicalTree(tree)
    BY DEF IndexInv
  <2>2. QED
    BY <2>1, Nodes
<1>2. ASSUME NEW k \in Nat, IndexedUpTo(k), NEW symbol \in DOMAIN symbol_sequences_
      PROVE  LET nodes == symbol_sequences_[symbol]
             IN \A i \in 1 .. Len(nodes) :
                  SymbolOf(nodes[i]) = symbol /\ (i > 1 => nodes[i - 1] < nodes[i])
  <2> DEFINE nodes == symbol_sequences_[symbol]
  <2>1. Ascends(nodes, WithSymbol(symbol, k)) /\ WithSymbol(symbol, k) \in SUBSET (0 .. k - 1)
    BY <1>2 DEF IndexedUpTo, WithSymbol
  <2>2. /\ Len(nodes) \in Nat
        /\ \A i \in 1 .. Len(nodes) : nodes[i] \in WithSymbol(symbol, k)
    BY <2>1, AscendsRange
  <2>3. \A i \in 1 .. Len(nodes) : SymbolOf(nodes[i]) = symbol
    BY <2>2 DEF WithSymbol
  <2>4. \A i \in 1 .. Len(nodes) : i > 1 => nodes[i - 1] < nodes[i]
    <3>1. ASSUME NEW i \in 1 .. Len(nodes), i > 1
          PROVE  nodes[i - 1] < nodes[i]
      <4>1. i - 1 \in 1 .. Len(nodes) /\ i - 1 < i
        BY <2>2, <3>1
      <4>2. QED
        BY <2>1, <4>1 DEF Ascends
    <3>2. QED
      BY <3>1
  <2>5. QED
    BY <2>3, <2>4
<1>3. CASE index_pc = "not built"
  <2>1. symbol_sequences_ = <<>>
    BY <1>3 DEF IndexInv
  <2>2. DOMAIN symbol_sequences_ = {}
    <3>1. DOMAIN <<>> = {}
      OBVIOUS
    <3>2. QED
      BY <2>1, <3>1
  <2>3. QED
    BY <1>3, <2>2 DEF SequencesAreExact
<1>4. CASE index_pc = "visit"
  <2>1. current_node \in Nat /\ IndexedUpTo(current_node)
    BY <1>1, <1>4 DEF IndexInv
  <2>2. PICK k \in Nat : IndexedUpTo(k)
    <3>1. \A k \in Nat : k = current_node => IndexedUpTo(k)
      BY <2>1
    <3>2. QED
      BY <2>1, <3>1
  <2>3. QED
    BY <1>2, <1>4, <2>2 DEF SequencesAreExact
<1>5. CASE index_pc = "leave"
  <2>1. PICK e \in DOMAIN tree : IndexedUpTo(e + 1)
    BY <1>5 DEF IndexInv
  <2>2. e + 1 \in Nat
    BY <1>1
  <2>3. QED
    BY <1>2, <1>5, <2>1, <2>2 DEF SequencesAreExact
<1>6. CASE index_pc = "built"
  <2> DEFINE size == NumAllocatedNodes(tree)
  <2>1. IndexedUpTo(size)
    BY <1>6 DEF IndexInv
  <2>2. ASSUME NEW n \in DOMAIN tree, IsIndexed(actor_kind, SymbolOf(n))
        PROVE  \E i \in 1 .. Len(find_sequence(SymbolOf(n))) : find_sequence(SymbolOf(n))[i] = n
    <3>1. Ascends(find_sequence(SymbolOf(n)), WithSymbol(SymbolOf(n), size))
      BY <1>1, <2>1, <2>2, FoundIsExact
    <3>2. n \in WithSymbol(SymbolOf(n), size)
      BY <1>1 DEF WithSymbol
    <3>3. QED
      BY <3>1, <3>2 DEF Ascends
  <2>3. QED
    BY <1>1, <1>2, <1>6, <2>1, <2>2 DEF SequencesAreExact
<1>7. QED
  BY <1>3, <1>4, <1>5, <1>6 DEF IndexInv

\* The index of a canonical tree, for each actor_kind of symbol, answers from every
\* place and while any node is predicted as MoveLeft says.
THEOREM IndexAnswers == BuildSpec => []AnswersMoveLeft
<1>1. IndexInv => AnswersMoveLeft
  <2> SUFFICES ASSUME IndexInv
               PROVE  AnswersMoveLeft
    OBVIOUS
  <2>1. SequencesAreExact
    BY IndexIsExact
  <2>2. ASSUME index_pc = "built", NEW begin \in DOMAIN tree, NEW allow \in BOOLEAN, NEW p \in 0 .. begin
        PROVE  LET s == TreeSlice(tree, begin, allow)
               IN IndexedMoveLeft(s, p) = MoveLeft(actor_kind, tree, s, p)
    <3>1. CanonicalTree(tree) /\ IndexedUpTo(NumAllocatedNodes(tree))
      BY <2>2 DEF IndexInv
    <3>2. QED
      BY <3>1, AnswersAtPlace
  <2>3. QED
    BY <2>1, <2>2 DEF AnswersMoveLeft
<1>2. QED
  BY <1>1, BuildInvariant, PTL
=============================================================================
