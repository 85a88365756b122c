------------------------ MODULE RecordReadersProofs ------------------------
(***************************************************************************)
(* The readers give out every record once, for any number of threads, any  *)
(* file, any folds and any schedule. The proof keeps accounts: of every    *)
(* record, the copies that were delivered in this pass and those that are  *)
(* in the hands of threads are as many as the places that were read and    *)
(* are of the right folds.                                                 *)
(***************************************************************************)
EXTENDS RecordReaders, FiniteSetTheorems, SequenceTheorems, TLAPS

-----------------------------------------------------------------------------
(* The inductive invariant.                                                *)

\* The records that somebody may get.
Values == {Records[p] : p \in DOMAIN Records} \ {Blank}

BagsOf(V) == UNION {[D -> Nat \ {0}] : D \in SUBSET V}
Copies(B, r) == IF r \in DOMAIN B THEN B[r] ELSE 0

PCs == {"test", "read", "fold", "record", "deliver", "done"}

TypeOK ==
  /\ source \in Files /\ input \in Inputs
  /\ pass \in Nat \ {0}
  /\ pos \in Nat \ {0} /\ eof \in BOOLEAN
  /\ row_id \in Nat
  /\ recorded_cache_ \in Seq(Values) /\ recording_pos \in Nat \ {0}
  /\ pc \in [Threads -> PCs]
  /\ record \in [Threads -> Values \union {Blank}]
  /\ delivered \in Seq(BagsOf(Values)) /\ Len(delivered) = pass
  /\ stopped \in BOOLEAN

\* What is behind the end of a file is blank.
EndIsBlank == eof => \A p \in DOMAIN Records : p >= pos => Records[p] = Blank

\* Until its end the cross validation knows the number of the row, but for a
\* multiple of the folds.
RowIsCounted == IsFolded /\ ~ReachedEnd => row_id = Row(pos - 1) % input.folds

\* Where threads are, and why they have left.
ThreadInv ==
  \A t \in Threads : /\ pc[t] = "fold" => IsFolded
                     /\ pc[t] = "record" => Caches
                     /\ pc[t] = "done" => stopped \/ ReachedEnd

\* The places of a record in a sequence, and how many threads are in one of
\* these states with it.
Places(seq, S, r) == {p \in S : seq[p] = r}
Holding(states, r) == {t \in Threads : pc[t] \in states /\ record[t] = r}
Held(states, r) == Cardinality(Holding(states, r))
InHand == {"record", "deliver"}

\* The wanted places that were read.
Passed == {p \in DOMAIN Records : p < pos /\ IsWanted(p)}

\* Nothing is lost and nothing is doubled on the way from the file ...
FileBalance ==
  ~Replays => \A r \in Values :
    Copies(delivered[pass], r) + Held(InHand, r) = Cardinality(Places(Records, Passed, r))

\* ... into the cache ...
CacheBalance ==
  input.caching => \A r \in Values :
    Cardinality(Places(recorded_cache_, DOMAIN recorded_cache_, r)) =
      Copies(delivered[1], r) + IF pass = 1 THEN Held({"deliver"}, r) ELSE 0

\* ... and out of it.
Replayed == {i \in DOMAIN recorded_cache_ : i < recording_pos}
ReplayBalance ==
  Replays => \A r \in Values :
    Copies(delivered[pass], r) + Held(InHand, r) = Cardinality(Places(recorded_cache_, Replayed, r))

ReaderInv ==
  /\ TypeOK /\ EndIsBlank /\ RowIsCounted /\ ThreadInv
  /\ FileBalance /\ CacheBalance /\ ReplayBalance

-----------------------------------------------------------------------------
(* Numbers.                                                                *)

One(condition) == IF condition THEN 1 ELSE 0

\* Division with remainder has one result.
LEMMA RemainderIs ==
  ASSUME NEW n \in Nat, NEW f \in Nat, f > 1, NEW q \in Nat, NEW r \in 0 .. f - 1, n = f * q + r
  PROVE  n % f = r
<1> DEFINE d == n \div f
<1>1. n % f \in 0 .. f - 1 /\ d \in Nat /\ n = f * d + (n % f)
  OBVIOUS
<1>2. f * (d - q) = r - (n % f)
  BY <1>1
<1>3. CASE d - q = 0
  BY <1>1, <1>2, <1>3
<1>4. CASE d - q >= 1
  <2>1. f * (d - q) >= f
    BY <1>1, <1>4
  <2>2. QED
    BY <1>1, <1>2, <2>1
<1>5. CASE d - q <= -1
  <2>1. f * (d - q) <= - f
    BY <1>1, <1>5
  <2>2. QED
    BY <1>1, <1>2, <2>1
<1>6. QED
  BY <1>1, <1>3, <1>4, <1>5

\* row_id may be counted modulo the folds.
LEMMA NextRemainder ==
  ASSUME NEW n \in Nat, NEW f \in Nat, f > 1
  PROVE  ((n % f) + 1) % f = (n + 1) % f /\ (n + 1) % f \in 0 .. f - 1
<1> DEFINE q == n \div f
           r == n % f
<1>1. r \in 0 .. f - 1 /\ q \in Nat /\ n = f * q + r
  OBVIOUS
<1>2. CASE r + 1 < f
  <2>1. r + 1 \in 0 .. f - 1 /\ n + 1 = f * q + (r + 1)
    BY <1>1, <1>2
  <2>2. (n + 1) % f = r + 1
    <3>1. n + 1 \in Nat
      OBVIOUS
    <3>2. QED
      BY <1>1, <2>1, <3>1, RemainderIs
  <2>3. (r + 1) % f = r + 1
    <3>1. r + 1 = f * 0 + (r + 1) /\ r + 1 \in Nat
      BY <1>1
    <3>2. QED
      BY <2>1, <3>1, RemainderIs
  <2>4. QED
    BY <2>1, <2>2, <2>3
<1>3. CASE r + 1 = f
  <2>1. 0 \in 0 .. f - 1 /\ n + 1 = f * (q + 1) + 0 /\ r + 1 = f * 1 + 0
    BY <1>1, <1>3
  <2>2. (n + 1) % f = 0
    <3>1. q + 1 \in Nat /\ n + 1 \in Nat
      BY <1>1
    <3>2. QED
      BY <2>1, <3>1, RemainderIs
  <2>3. (r + 1) % f = 0
    <3>1. r + 1 \in Nat /\ 1 \in Nat
      BY <1>1
    <3>2. QED
      BY <2>1, <3>1, RemainderIs
  <2>4. QED
    BY <2>1, <2>2, <2>3
<1>4. QED
  BY <1>1, <1>2, <1>3

\* The least number of a set.
Below == {p \in Nat \X Nat : p[1] < p[2]}

LEMMA BelowWellFounded == IsWellFoundedOn(Below, Nat)
<1>1. OpToRel(<, Nat) = Below
  BY DEF OpToRel, Below
<1>2. QED
  BY <1>1, NatLessThanWellFounded

LEMMA MinIsLeast ==
  ASSUME NEW S, S \subseteq Nat, S # {}
  PROVE  Min(S) \in S /\ \A n \in S : Min(S) <= n
<1>1. \E m \in S : \A n \in S : ~(<<n, m>> \in Below)
  BY BelowWellFounded, WFMin, Zenon
<1>2. PICK m \in S : \A n \in S : ~(<<n, m>> \in Below)
  BY <1>1
<1>3. ASSUME NEW n \in S
      PROVE  m <= n
  <2>1. m \in Nat /\ n \in Nat /\ ~(<<n, m>> \in Below)
    BY <1>2
  <2>2. ~(n < m)
    BY <2>1 DEF Below
  <2>3. QED
    BY <2>1, <2>2
<1>4. QED
  BY <1>3 DEF Min

-----------------------------------------------------------------------------
(* Bags.                                                                   *)

\* One more of an element.
LEMMA CopiesAdd ==
  ASSUME NEW V, NEW B \in BagsOf(V), NEW x \in V
  PROVE  /\ B (+) SetToBag({x}) \in BagsOf(V)
         /\ \A r : Copies(B (+) SetToBag({x}), r) = Copies(B, r) + One(r = x)
<1>1. PICK D \in SUBSET V : B \in [D -> Nat \ {0}]
  BY DEF BagsOf
<1> DEFINE C == B (+) SetToBag({x})
<1>2. C = [e \in D \union {x} |-> (IF e \in D THEN B[e] ELSE 0) + (IF e = x THEN 1 ELSE 0)]
  BY <1>1 DEF (+), SetToBag
<1>3. C \in [D \union {x} -> Nat \ {0}]
  <2>1. \A e \in D \union {x} : (IF e \in D THEN B[e] ELSE 0) + (IF e = x THEN 1 ELSE 0) \in Nat \ {0}
    BY <1>1
  <2> HIDE DEF C
  <2>2. QED
    BY <1>2, <2>1
<1>4. \A r : Copies(C, r) = Copies(B, r) + One(r = x)
  BY <1>1, <1>2 DEF Copies, One
<1>5. QED
  BY <1>3, <1>4 DEF BagsOf

LEMMA EmptyBagFacts ==
  ASSUME NEW V
  PROVE  EmptyBag \in BagsOf(V) /\ \A r : Copies(EmptyBag, r) = 0
<1>1. EmptyBag \in [{} -> Nat \ {0}]
  BY DEF EmptyBag, SetToBag
<1>2. QED
  BY <1>1 DEF BagsOf, Copies, EmptyBag, SetToBag

LEMMA CopiesType ==
  ASSUME NEW V, NEW B \in BagsOf(V), NEW r
  PROVE  Copies(B, r) \in Nat
BY DEF BagsOf, Copies

\* Bags are compared by the copies of what they may have.
LEMMA CompareBags ==
  ASSUME NEW V, NEW B \in BagsOf(V), NEW C \in BagsOf(V)
  PROVE  /\ (\A r \in V : Copies(B, r) <= Copies(C, r)) => B \sqsubseteq C
         /\ (\A r \in V : Copies(B, r) = Copies(C, r)) => B = C
<1>1. PICK D \in SUBSET V : B \in [D -> Nat \ {0}]
  BY DEF BagsOf
<1>2. PICK E \in SUBSET V : C \in [E -> Nat \ {0}]
  BY DEF BagsOf
<1>3. ASSUME \A r \in V : Copies(B, r) <= Copies(C, r)
      PROVE  D \subseteq E /\ \A r \in D : B[r] <= C[r]
  <2>1. ASSUME NEW r \in D
        PROVE  r \in E /\ B[r] <= C[r]
    <3>1. Copies(B, r) = B[r] /\ B[r] \in Nat \ {0} /\ Copies(B, r) <= Copies(C, r)
      BY <1>1, <1>3 DEF Copies
    <3>2. QED
      BY <1>2, <3>1 DEF Copies
  <2>2. QED
    BY <2>1
<1>4. ASSUME \A r \in V : Copies(B, r) = Copies(C, r)
      PROVE  B = C
  <2>1. ASSUME NEW r \in V
        PROVE  (r \in D <=> r \in E) /\ (r \in D => B[r] = C[r])
    BY <1>1, <1>2, <1>4 DEF Copies
  <2>2. D = E
    BY <2>1
  <2>3. QED
    BY <1>1, <1>2, <2>1, <2>2
<1>5. QED
  BY <1>1, <1>2, <1>3, <1>4 DEF \sqsubseteq

\* The bag of some places of a sequence has the copies that it should have.
LEMMA CopiesOfPlaces ==
  ASSUME NEW seq, NEW S, IsFiniteSet(S), NEW V, \A p \in S : seq[p] \in V
  PROVE  /\ BagOf(seq, S) \in BagsOf(V)
         /\ \A r : Copies(BagOf(seq, S), r) = Cardinality(Places(seq, S, r))
<1> DEFINE D == {seq[p] : p \in S}
<1>1. \A r : IsFiniteSet(Places(seq, S, r))
  <2>1. \A r : Places(seq, S, r) \in SUBSET S
    BY DEF Places
  <2>2. QED
    BY <2>1, FS_Subset
<1>2. \A r : Cardinality(Places(seq, S, r)) \in Nat
             /\ (Cardinality(Places(seq, S, r)) = 0 <=> Places(seq, S, r) = {})
  BY <1>1, FS_CardinalityType, FS_EmptySet
<1>3. \A r : r \in D <=> Places(seq, S, r) # {}
  BY DEF Places
<1>4. BagOf(seq, S) = [r \in D |-> Cardinality(Places(seq, S, r))]
  BY DEF BagOf, Places
<1>5. BagOf(seq, S) \in [D -> Nat \ {0}]
  BY <1>2, <1>3, <1>4
<1>6. D \in SUBSET V
  OBVIOUS
<1>7. \A r : Copies(BagOf(seq, S), r) = Cardinality(Places(seq, S, r))
  BY <1>2, <1>3, <1>4 DEF Copies
<1>8. QED
  BY <1>5, <1>6, <1>7 DEF BagsOf

-----------------------------------------------------------------------------
(* Counting.                                                               *)

\* One more place.
LEMMA PlacesAdd ==
  ASSUME NEW seq, NEW S, IsFiniteSet(S), NEW p, p \notin S, NEW r
  PROVE  /\ Cardinality(Places(seq, S, r)) \in Nat
         /\ Cardinality(Places(seq, S \union {p}, r)) = Cardinality(Places(seq, S, r)) + One(seq[p] = r)
<1>1. Places(seq, S, r) \in SUBSET S /\ p \notin Places(seq, S, r)
  BY DEF Places
<1>2. IsFiniteSet(Places(seq, S, r)) /\ Cardinality(Places(seq, S, r)) \in Nat
  BY <1>1, FS_Subset, FS_CardinalityType
<1>3. CASE seq[p] = r
  <2>1. Places(seq, S \union {p}, r) = Places(seq, S, r) \union {p}
    BY <1>3 DEF Places
  <2>2. QED
    BY <1>1, <1>2, <1>3, <2>1, FS_AddElement DEF One
<1>4. CASE seq[p] # r
  <2>1. Places(seq, S \union {p}, r) = Places(seq, S, r)
    BY <1>4 DEF Places
  <2>2. QED
    BY <1>2, <1>4, <2>1 DEF One
<1>5. QED
  BY <1>2, <1>3, <1>4

LEMMA PlacesAppend ==
  ASSUME NEW V, NEW seq \in Seq(V), NEW x \in V, NEW r
  PROVE  Cardinality(Places(Append(seq, x), DOMAIN Append(seq, x), r))
           = Cardinality(Places(seq, DOMAIN seq, r)) + One(x = r)
<1> DEFINE n == Len(seq)
           new == Append(seq, x)
<1>1. n \in Nat /\ DOMAIN seq = 1 .. n
  OBVIOUS
<1>2. IsFiniteSet(1 .. n) /\ n + 1 \notin 1 .. n
  BY <1>1, FS_Interval
<1>3. /\ DOMAIN new = (1 .. n) \union {n + 1}
      /\ new[n + 1] = x /\ \A i \in 1 .. n : new[i] = seq[i]
  BY <1>1
<1> HIDE DEF n, new
<1>4. Cardinality(Places(new, (1 .. n) \union {n + 1}, r)) = Cardinality(Places(new, 1 .. n, r)) + One(new[n + 1] = r)
  <2>1. \A seq_, S, p : IsFiniteSet(S) /\ p \notin S =>
          Cardinality(Places(seq_, S \union {p}, r)) = Cardinality(Places(seq_, S, r)) + One(seq_[p] = r)
    BY PlacesAdd
  <2>2. QED
    BY <1>2, <2>1
<1>5. Places(new, 1 .. n, r) = Places(seq, 1 .. n, r)
  BY <1>3 DEF Places
<1>6. QED
  BY <1>1, <1>3, <1>4, <1>5 DEF new

LEMMA DeliveredFacts ==
  ASSUME TypeOK
  PROVE  /\ DOMAIN delivered = 1 .. pass /\ 1 \in 1 .. pass /\ pass \in 1 .. pass
         /\ \A i \in 1 .. pass : delivered[i] \in BagsOf(Values)
         /\ \A i \in 1 .. pass : \A r : Copies(delivered[i], r) \in Nat
         /\ \A r : Copies(delivered[1], r) \in Nat /\ Copies(delivered[pass], r) \in Nat
<1>1. delivered \in Seq(BagsOf(Values)) /\ Len(delivered) = pass /\ pass \in Nat \ {0}
  BY DEF TypeOK
<1>2. DOMAIN delivered = 1 .. pass /\ 1 \in 1 .. pass /\ pass \in 1 .. pass
  BY <1>1
<1>3. \A i \in 1 .. pass : delivered[i] \in BagsOf(Values)
  BY <1>1, <1>2
<1>4. \A i \in 1 .. pass : \A r : Copies(delivered[i], r) \in Nat
  BY <1>3, CopiesType
<1>5. QED
  BY <1>2, <1>3, <1>4

\* At most one thread moves.
OnlyMoves(t) ==
  /\ pc' \in [Threads -> PCs] /\ record' \in [Threads -> Values \union {Blank}]
  /\ \A u \in Threads \ {t} : pc'[u] = pc[u] /\ record'[u] = record[u]

\* A thread with a record changes the account of the threads.
LEMMA HeldMoves ==
  ASSUME NEW t \in Threads, OnlyMoves(t), NEW states, NEW r
  PROVE  /\ Held(states, r) \in Nat /\ Held(states, r)' \in Nat
         /\ Held(states, r)' + One(pc[t] \in states /\ record[t] = r)
              = Held(states, r) + One(pc'[t] \in states /\ record'[t] = r)
<1> DEFINE Others == {u \in Threads \ {t} : pc[u] \in states /\ record[u] = r}
           Mine == pc[t] \in states /\ record[t] = r
           Next_ == pc'[t] \in states /\ record'[t] = r
<1>1. IsFiniteSet(Others) /\ t \notin Others /\ Cardinality(Others) \in Nat
  <2>1. Others \in SUBSET Threads
    OBVIOUS
  <2>2. QED
    BY <2>1, FS_Subset, FS_CardinalityType, ReaderAssumption
<1>2. Cardinality(Others \union {t}) = Cardinality(Others) + 1
  BY <1>1, FS_AddElement
<1>3. Holding(states, r) = IF Mine THEN Others \union {t} ELSE Others
  BY DEF Holding
<1>4. Holding(states, r)' = IF Next_ THEN Others \union {t} ELSE Others
  BY DEF Holding, OnlyMoves
<1>5. Held(states, r) = Cardinality(Others) + One(Mine)
  BY <1>1, <1>2, <1>3 DEF Held, One
<1>6. Held(states, r)' = Cardinality(Others) + One(Next_)
  BY <1>1, <1>2, <1>4 DEF Held, One
<1>7. One(Mine) \in Nat /\ One(Next_) \in Nat
  BY DEF One
<1>8. QED
  BY <1>1, <1>5, <1>6, <1>7

-----------------------------------------------------------------------------
(* Reading the file.                                                       *)

LEMMA SourceFacts ==
  ASSUME TypeOK
  PROVE  /\ Len(Records) \in Nat /\ DOMAIN Records = 1 .. Len(Records)
         /\ IsFiniteSet(DOMAIN Records)
         /\ \A p \in DOMAIN Records : Records[p] \in Values \union {Blank}
         /\ source.kind \in {"lines", "list"}
         /\ input.folds \in Nat
         /\ input.folds > 0 => input.folds > 1 /\ input.fold_id \in 0 .. input.folds - 1
<1>1. source \in Files /\ input \in Inputs
  BY DEF TypeOK
<1>2. Records \in Seq(Range(Records)) /\ source.kind \in {"lines", "list"}
  BY <1>1, ReaderAssumption DEF Records
<1>3. Len(Records) \in Nat /\ DOMAIN Records = 1 .. Len(Records)
  BY <1>2
<1>4. IsFiniteSet(DOMAIN Records)
  BY <1>3, FS_Interval
<1>5. \A p \in DOMAIN Records : Records[p] \in Values \union {Blank}
  BY DEF Values
<1>6. QED
  BY <1>1, <1>2, <1>3, <1>4, <1>5, ReaderAssumption

LEMMA RowFacts ==
  /\ Row(0) = 0
  /\ \A n \in Nat : Row(n) \in Nat
<1>1. {q \in 1 .. 0 : IsRow(q)} = {}
  OBVIOUS
<1>2. Row(0) = 0
  BY <1>1, FS_EmptySet DEF Row
<1>3. ASSUME NEW n \in Nat
      PROVE  Row(n) \in Nat
  <2>1. IsFiniteSet(1 .. n)
    BY FS_Interval
  <2>2. {q \in 1 .. n : IsRow(q)} \in SUBSET (1 .. n)
    OBVIOUS
  <2>3. QED
    BY <2>1, <2>2, FS_Subset, FS_CardinalityType DEF Row
<1>4. QED
  BY <1>2, <1>3

\* The next row is behind lines that are none.
LEMMA NextRow ==
  ASSUME NEW n \in Nat \ {0}, NEW p \in Nat, p >= n, IsRow(p), \A q \in n .. p - 1 : ~IsRow(q)
  PROVE  Row(p) = Row(n - 1) + 1
<1> DEFINE Before == {q \in 1 .. n - 1 : IsRow(q)}
<1>1. {q \in 1 .. p : IsRow(q)} = Before \union {p}
  <2>1. ASSUME NEW q \in 1 .. p, IsRow(q)
        PROVE  q \in Before \union {p}
    <3>1. q \notin n .. p - 1
      BY <2>1
    <3>2. QED
      BY <2>1, <3>1
  <2>2. \A q \in Before \union {p} : q \in 1 .. p /\ IsRow(q)
    OBVIOUS
  <2>3. QED
    BY <2>1, <2>2
<1>2. IsFiniteSet(Before) /\ p \notin Before
  <2>1. IsFiniteSet(1 .. n - 1) /\ Before \in SUBSET (1 .. n - 1)
    BY FS_Interval
  <2>2. QED
    BY <2>1, FS_Subset
<1>3. Cardinality(Before \union {p}) = Cardinality(Before) + 1
  BY <1>2, FS_AddElement
<1>4. QED
  BY <1>1, <1>3 DEF Row

\* Only rows are wanted, and no blank ones.
LEMMA NotWanted ==
  ASSUME NEW p \in DOMAIN Records, Records[p] = Blank
  PROVE  ~IsWanted(p)
BY DEF IsWanted

\* The next line that is not blank, or the end.
LEMMA NextLineIs ==
  ASSUME TypeOK
  PROVE  /\ NextLine \in Nat
         /\ NextLine \in DOMAIN Records \/ NextLine = Len(Records) + 1
         /\ NextLine \in DOMAIN Records => NextLine >= pos /\ Records[NextLine] # Blank
         /\ \A q \in DOMAIN Records : q >= pos /\ q < NextLine => Records[q] = Blank
<1> DEFINE Lines == {i \in DOMAIN Records : i >= pos /\ Records[i] # Blank}
           S == Lines \union {Len(Records) + 1}
<1>1. Len(Records) \in Nat /\ DOMAIN Records = 1 .. Len(Records)
  BY SourceFacts
<1>2. S \subseteq Nat /\ S # {}
  BY <1>1
<1>3. NextLine = Min(S)
  BY DEF NextLine
<1> HIDE DEF S
<1>4. NextLine \in S /\ \A n \in S : NextLine <= n
  BY <1>2, <1>3, MinIsLeast
<1> USE DEF S
<1>5. ASSUME NEW q \in DOMAIN Records, q >= pos, q < NextLine, Records[q] # Blank
      PROVE  FALSE
  <2>1. q \in S /\ q \in Nat /\ NextLine \in Nat
    BY <1>1, <1>2, <1>4, <1>5
  <2>2. NextLine <= q
    BY <1>4, <2>1
  <2>3. QED
    BY <1>5, <2>1, <2>2
<1>6. QED
  BY <1>1, <1>2, <1>4, <1>5

\* The reader gives nothing, and is at its end, or gives the next row.
GivesNothing(t) == record'[t] = Blank /\ ReachedEnd' /\ Passed' = Passed
GivesRow(t, p) ==
  /\ ~ReachedEnd
  /\ p \in DOMAIN Records /\ p \notin Passed
  /\ record'[t] = Records[p]
  /\ pos' = p + 1 /\ Row(p) = Row(pos - 1) + 1
  /\ Passed' = IF IsWanted(p) THEN Passed \union {p} ELSE Passed

LEMMA SameFile ==
  ASSUME source' = source, input' = input, pass' = pass
  PROVE  /\ Records' = Records /\ Replays' = Replays /\ Caches' = Caches
         /\ IsFolded' = IsFolded
         /\ Passed' = {p \in DOMAIN Records : p < pos' /\ IsWanted(p)}
         /\ Values' = Values
         /\ \A n : Row(n)' = Row(n)
<1>1. Records' = Records /\ Replays' = Replays /\ Caches' = Caches /\ Training' = Training
  BY DEF Records, Replays, Caches, Training
<1>2. IsFolded' = IsFolded /\ Values' = Values
  BY <1>1 DEF IsFolded, Values
<1>3. \A p : IsRow(p)' = IsRow(p)
  BY <1>1 DEF IsRow
<1>4. \A n : Row(n)' = Row(n)
  <2>1. ASSUME NEW n
        PROVE  Row(n)' = Row(n)
    <3>1. {q \in 1 .. n : IsRow(q)'} = {q \in 1 .. n : IsRow(q)}
      BY <1>3
    <3>2. QED
      BY <3>1 DEF Row
  <2>2. QED
    BY <2>1
<1>5. \A p : IsWanted(p)' = IsWanted(p)
  BY <1>1, <1>4 DEF IsWanted
<1>6. Passed' = {p \in DOMAIN Records : p < pos' /\ IsWanted(p)}
  BY <1>1, <1>5 DEF Passed
<1>7. QED
  BY <1>1, <1>2, <1>4, <1>6

LEMMA ReadGives ==
  ASSUME TypeOK, EndIsBlank, ~Replays, NEW t \in Threads, ReadUnderlying(t), UNCHANGED <<fixed, pass>>
  PROVE  /\ pos' \in Nat \ {0} /\ eof' \in BOOLEAN /\ EndIsBlank'
         /\ record' \in [Threads -> Values \union {Blank}]
         /\ \A u \in Threads \ {t} : record'[u] = record[u]
         /\ ReachedEnd => ReachedEnd'
         /\ GivesNothing(t) \/ \E p : GivesRow(t, p)
<1> DEFINE n == Len(Records)
<1>1. /\ n \in Nat /\ DOMAIN Records = 1 .. n
      /\ \A p \in DOMAIN Records : Records[p] \in Values \union {Blank}
  BY SourceFacts
<1>2. /\ source' = source /\ input' = input /\ pass' = pass
      /\ Records' = Records /\ ~Replays' /\ Values' = Values
      /\ Passed' = {p \in DOMAIN Records : p < pos' /\ IsWanted(p)}
  BY SameFile DEF fixed
<1>3. pos \in Nat \ {0} /\ eof \in BOOLEAN /\ record \in [Threads -> Values \union {Blank}]
  BY DEF TypeOK
<1>4. ReachedEnd <=> IF source.kind = "lines" THEN eof ELSE pos > n
  BY DEF ReachedEnd
<1>5. ReachedEnd' <=> IF source.kind = "lines" THEN eof' ELSE pos' > n
  BY <1>2 DEF ReachedEnd
<1>6. CASE ReadLine(t)
  <2> DEFINE given == IF ~eof /\ NextLine \in DOMAIN Records THEN Records[NextLine] ELSE Blank
  <2>1. /\ source.kind = "lines" /\ record' = [record EXCEPT ![t] = given]
        /\ pos' = IF eof THEN pos ELSE NextLine + 1
        /\ eof' = (eof \/ NextLine > n \/ (NextLine = n /\ ~source.terminated))
    BY <1>6 DEF ReadLine
  <2>2. /\ NextLine \in Nat
        /\ NextLine \in DOMAIN Records \/ NextLine = n + 1
        /\ NextLine \in DOMAIN Records => NextLine >= pos /\ Records[NextLine] # Blank
        /\ \A q \in DOMAIN Records : q >= pos /\ q < NextLine => Records[q] = Blank
    BY NextLineIs
  <2>3. given \in Values \union {Blank}
    BY <1>1
  <2> HIDE DEF given
  <2>4. /\ record' \in [Threads -> Values \union {Blank}] /\ record'[t] = given
        /\ \A u \in Threads \ {t} : record'[u] = record[u]
    BY <1>3, <2>1, <2>3
  <2>5. pos' \in Nat \ {0} /\ eof' \in BOOLEAN
    BY <1>3, <2>1, <2>2
  <2>6. EndIsBlank'
    <3>1. CASE eof
      <4>1. pos' = pos
        BY <2>1, <3>1
      <4>2. QED
        BY <1>2, <3>1, <4>1 DEF EndIsBlank
    <3>2. CASE ~eof
      <4>1. eof' => NextLine >= n
        <5>1. eof' => NextLine > n \/ NextLine = n
          BY <2>1, <3>2, Zenon
        <5>2. n \in Nat /\ NextLine \in Nat
          BY <1>1, <2>2
        <5>3. NextLine > n \/ NextLine = n => NextLine >= n
          <6> HIDE DEF n
          <6>1. QED
            BY <5>2
        <5>4. QED
          BY <5>1, <5>3, Zenon
      <4>2. pos' = NextLine + 1
        BY <2>1, <3>2
      <4>3. eof' => \A p \in DOMAIN Records : ~(p >= pos')
        BY <1>1, <2>2, <4>1, <4>2
      <4>4. QED
        BY <1>2, <4>3 DEF EndIsBlank
    <3>3. QED
      BY <3>1, <3>2
  <2>7. GivesNothing(t) \/ \E p : GivesRow(t, p)
    <3>1. CASE eof
      <4>1. record'[t] = Blank /\ pos' = pos /\ eof'
        BY <1>3, <2>1, <2>4, <3>1 DEF given
      <4>2. QED
        BY <1>2, <1>5, <2>1, <4>1 DEF GivesNothing, Passed
    <3>2. CASE ~eof /\ NextLine \notin DOMAIN Records
      <4>1. record'[t] = Blank /\ pos' = n + 2 /\ eof'
        <5>1. NextLine = n + 1
          BY <2>2, <3>2
        <5>2. pos' = NextLine + 1 /\ (NextLine > n => eof')
          BY <2>1, <3>2
        <5>3. record'[t] = Blank
          BY <2>4, <3>2 DEF given
        <5>4. QED
          BY <1>1, <5>1, <5>2, <5>3
      <4>2. \A q \in DOMAIN Records : q < n + 2 /\ (IsWanted(q) => q < pos)
        <5>1. \A q \in DOMAIN Records : q >= pos => Records[q] = Blank
          BY <1>1, <2>2, <3>2
        <5>2. \A q \in DOMAIN Records : q >= pos => ~IsWanted(q)
          BY <5>1, NotWanted
        <5>3. QED
          BY <1>1, <1>3, <5>2
      <4>3. Passed' = Passed
        BY <1>2, <4>1, <4>2 DEF Passed
      <4>4. QED
        BY <1>5, <2>1, <4>1, <4>3 DEF GivesNothing
    <3>3. CASE ~eof /\ NextLine \in DOMAIN Records
      <4> DEFINE p == NextLine
      <4>1. record'[t] = Records[p] /\ pos' = p + 1 /\ ~ReachedEnd
        BY <1>4, <2>1, <2>4, <3>3 DEF given
      <4>2. \A q \in DOMAIN Records : q >= pos /\ q < p => Records[q] = Blank /\ ~IsWanted(q)
        BY <2>2, NotWanted
      <4>3. Row(p) = Row(pos - 1) + 1
        <5>1. IsRow(p) /\ p >= pos /\ p \in Nat
          BY <2>2, <3>3 DEF IsRow
        <5>2. \A q \in pos .. p - 1 : ~IsRow(q)
          BY <1>1, <1>3, <2>1, <3>3, <4>2, <5>1 DEF IsRow
        <5>3. QED
          BY <1>3, <5>1, <5>2, NextRow
      <4>4. Passed' = IF IsWanted(p) THEN Passed \union {p} ELSE Passed
        BY <1>1, <1>2, <1>3, <2>2, <3>3, <4>1, <4>2 DEF Passed
      <4>5. p \notin Passed
        BY <1>3, <2>2, <3>3 DEF Passed
      <4>6. GivesRow(t, p)
        BY <3>3, <4>1, <4>3, <4>4, <4>5 DEF GivesRow
      <4>7. QED
        BY <4>6
    <3>4. QED
      BY <1>3, <3>1, <3>2, <3>3
  <2>8. ReachedEnd => ReachedEnd'
    BY <1>4, <1>5, <2>1
  <2>9. QED
    BY <2>4, <2>5, <2>6, <2>7, <2>8
<1>7. CASE ReadNextFile(t)
  <2> DEFINE given == IF pos \in DOMAIN Records THEN Records[pos] ELSE Blank
  <2>1. /\ source.kind # "lines" /\ source.kind = "list" /\ record' = [record EXCEPT ![t] = given]
        /\ pos' = Min({pos + 1, n + 1}) /\ eof' = eof
    BY <1>7 DEF ReadNextFile
  <2>2. pos' = IF pos + 1 <= n + 1 THEN pos + 1 ELSE n + 1
    <3> DEFINE S == {pos + 1, n + 1}
    <3>1. S \subseteq Nat /\ S # {}
      BY <1>1, <1>3
    <3>2. Min(S) \in S /\ \A m \in S : Min(S) <= m
      <4> HIDE DEF S
      <4>1. QED
        BY <3>1, MinIsLeast
    <3>3. QED
      BY <1>1, <1>3, <2>1, <3>2
  <2>3. given \in Values \union {Blank}
    BY <1>1
  <2> HIDE DEF given
  <2>4. /\ record' \in [Threads -> Values \union {Blank}] /\ record'[t] = given
        /\ \A u \in Threads \ {t} : record'[u] = record[u]
    BY <1>3, <2>1, <2>3
  <2>5. pos' \in Nat \ {0} /\ eof' \in BOOLEAN
    BY <1>1, <1>3, <2>1, <2>2
  <2>6. EndIsBlank'
    BY <1>1, <1>2, <1>3, <2>1, <2>2 DEF EndIsBlank
  <2>7. CASE pos \notin DOMAIN Records
    <3>1. record'[t] = Blank /\ pos' = n + 1 /\ pos > n
      BY <1>1, <1>3, <2>2, <2>4, <2>7 DEF given
    <3>2. Passed' = Passed
      BY <1>1, <1>2, <1>3, <3>1 DEF Passed
    <3>3. GivesNothing(t)
      BY <1>1, <1>5, <2>1, <3>1, <3>2 DEF GivesNothing
    <3>4. QED
      BY <2>4, <2>5, <2>6, <3>3 DEF GivesNothing
  <2>8. CASE pos \in DOMAIN Records
    <3>1. record'[t] = Records[pos] /\ pos' = pos + 1 /\ ~ReachedEnd
      BY <1>1, <1>3, <1>4, <2>1, <2>2, <2>4, <2>8 DEF given
    <3>2. Row(pos) = Row(pos - 1) + 1
      <4>1. IsRow(pos) /\ \A q \in pos .. pos - 1 : ~IsRow(q)
        BY <1>3, <2>1 DEF IsRow
      <4>2. QED
        BY <1>3, <4>1, NextRow
    <3>3. Passed' = IF IsWanted(pos) THEN Passed \union {pos} ELSE Passed
      BY <1>1, <1>2, <1>3, <2>8, <3>1 DEF Passed
    <3>4. pos \notin Passed
      BY <1>3 DEF Passed
    <3>5. GivesRow(t, pos)
      BY <2>8, <3>1, <3>2, <3>3, <3>4 DEF GivesRow
    <3>6. QED
      BY <2>4, <2>5, <2>6, <3>1, <3>5
  <2>9. QED
    BY <2>7, <2>8
<1>8. QED
  BY <1>6, <1>7 DEF ReadUnderlying

-----------------------------------------------------------------------------
(* The steps that read the file.                                           *)

\* The cross validation knows whose the next row is.
LEMMA FoldOfRow ==
  ASSUME ReaderInv, ~Replays, NEW t, NEW p, GivesRow(t, p)
  PROVE  /\ IsFolded => Row(p) % input.folds = (row_id + 1) % input.folds
         /\ IsFolded /\ Records[p] # Blank => (IsOfFold(row_id + 1) <=> IsWanted(p))
         /\ ~IsFolded /\ Records[p] # Blank => IsWanted(p)
<1> DEFINE f == input.folds
           n == Row(pos - 1)
<1>1. TypeOK /\ (IsFolded /\ ~ReachedEnd => row_id = n % f)
  BY DEF ReaderInv, RowIsCounted
<1>2. f \in Nat /\ (f > 0 => f > 1 /\ input.fold_id \in 0 .. f - 1)
  BY <1>1, SourceFacts
<1>3. ~ReachedEnd /\ Row(p) = n + 1
  BY DEF GivesRow
<1>4. pos - 1 \in Nat
  BY <1>1 DEF TypeOK
<1>5. n \in Nat
  BY <1>4, RowFacts
<1>6. IsFolded <=> f > 0
  BY DEF IsFolded
<1>7. ASSUME IsFolded
      PROVE  (n + 1) % f = (row_id + 1) % f
  <2>1. row_id = n % f /\ f > 1
    BY <1>1, <1>2, <1>3, <1>6, <1>7
  <2> HIDE DEF f, n
  <2>2. ((n % f) + 1) % f = (n + 1) % f
    BY <1>2, <1>5, <2>1, NextRemainder
  <2>3. QED
    BY <2>1, <2>2
<1>8. IsFolded => Row(p) % f = (row_id + 1) % f
  BY <1>3, <1>7
<1>9. IsOfFold(row_id + 1) <=> (IF Training THEN ~((row_id + 1) % f = input.fold_id)
                                ELSE (row_id + 1) % f = input.fold_id)
  BY DEF IsOfFold
<1>10. Records[p] # Blank => (IsWanted(p) <=> (f > 0 => ((Row(p) % f = input.fold_id) <=> ~Training)))
  BY DEF IsWanted
<1>11. IsFolded /\ Records[p] # Blank => (IsOfFold(row_id + 1) <=> IsWanted(p))
  BY <1>6, <1>8, <1>9, <1>10, Zenon
<1>12. ~IsFolded /\ Records[p] # Blank => IsWanted(p)
  BY <1>6, <1>10, Zenon
<1>13. QED
  BY <1>8, <1>11, <1>12

\* A thread reads the file, under the mutex of the folds if there are any, and
\* keeps what it has read unless the row is of another fold.
ReadsFile(t) ==
  /\ ~Replays /\ ReadUnderlying(t)
  /\ UNCHANGED <<fixed, pass, cache, history>>
  /\ pc[t] \in {"read", "fold"} /\ pc' \in [Threads -> PCs]
  /\ \A u \in Threads \ {t} : pc'[u] = pc[u]
  /\ row_id' = IF IsFolded THEN (row_id + 1) % input.folds ELSE row_id
  /\ IF IsFolded /\ ~IsOfFold(row_id + 1) THEN pc'[t] = pc[t] ELSE pc'[t] = AfterRead

LEMMA ReadsFileType ==
  ASSUME ReaderInv, NEW t \in Threads, ReadsFile(t)
  PROVE  /\ TypeOK' /\ EndIsBlank' /\ RowIsCounted' /\ ThreadInv'
         /\ OnlyMoves(t) /\ Values' = Values
         /\ GivesNothing(t) \/ \E p : GivesRow(t, p)
<1>1. TypeOK /\ EndIsBlank /\ RowIsCounted /\ ThreadInv /\ ~Replays
  BY DEF ReaderInv, ReadsFile
<1>2. /\ source' = source /\ input' = input /\ pass' = pass /\ delivered' = delivered /\ stopped' = stopped
      /\ recorded_cache_' = recorded_cache_ /\ has_recorded_' = has_recorded_ /\ recording_pos' = recording_pos
  BY DEF ReadsFile, fixed, cache, history
<1>3. /\ Records' = Records /\ Replays' = Replays /\ Caches' = Caches
      /\ IsFolded' = IsFolded /\ Values' = Values
      /\ \A n : Row(n)' = Row(n)
  BY <1>2, SameFile
<1>4. /\ pos' \in Nat \ {0} /\ eof' \in BOOLEAN /\ EndIsBlank'
      /\ record' \in [Threads -> Values \union {Blank}]
      /\ \A u \in Threads \ {t} : record'[u] = record[u]
      /\ ReachedEnd => ReachedEnd'
      /\ GivesNothing(t) \/ \E p : GivesRow(t, p)
  BY <1>1, ReadGives DEF ReadsFile
<1>5. OnlyMoves(t)
  BY <1>4 DEF ReadsFile, OnlyMoves
<1>6. /\ input.folds \in Nat /\ (input.folds > 0 => input.folds > 1)
      /\ IsFolded => input.folds > 0
  BY <1>1, SourceFacts DEF IsFolded
<1>7. row_id' \in Nat
  <2>1. CASE IsFolded
    <3>1. row_id + 1 \in Nat /\ input.folds \in Nat \ {0}
      BY <1>1, <1>6, <2>1 DEF TypeOK
    <3>2. (row_id + 1) % input.folds \in Nat
      BY <3>1
    <3>3. QED
      BY <2>1, <3>2 DEF ReadsFile
  <2>2. CASE ~IsFolded
    BY <1>1, <2>2 DEF ReadsFile, TypeOK
  <2>3. QED
    BY <2>1, <2>2
<1>8. TypeOK'
  BY <1>1, <1>2, <1>3, <1>4, <1>7 DEF TypeOK, ReadsFile
<1>9. RowIsCounted'
  <2>1. SUFFICES ASSUME IsFolded, ~ReachedEnd'
                 PROVE  row_id' = Row(pos' - 1) % input.folds
    BY <1>2, <1>3 DEF RowIsCounted
  <2>2. PICK p : GivesRow(t, p)
    BY <1>4, <2>1 DEF GivesNothing
  <2>3. pos' = p + 1 /\ p \in DOMAIN Records
    BY <2>2 DEF GivesRow
  <2>4. pos' - 1 = p
    BY <1>1, <2>3, SourceFacts
  <2>5. Row(p) % input.folds = (row_id + 1) % input.folds
    BY <1>1, <2>1, <2>2, FoldOfRow
  <2>6. QED
    BY <2>1, <2>4, <2>5 DEF ReadsFile
<1>10. ThreadInv'
  <2>1. ASSUME NEW u \in Threads
        PROVE  /\ pc'[u] = "fold" => IsFolded
               /\ pc'[u] = "record" => Caches
               /\ pc'[u] = "done" => stopped \/ ReachedEnd
    BY <1>1 DEF ThreadInv, ReadsFile, AfterRead
  <2>2. QED
    BY <1>2, <1>3, <1>4, <2>1 DEF ThreadInv
<1>11. QED
  BY <1>3, <1>4, <1>5, <1>8, <1>9, <1>10

LEMMA ReadsFileBalance ==
  ASSUME ReaderInv, NEW t \in Threads, ReadsFile(t)
  PROVE  FileBalance' /\ CacheBalance' /\ ReplayBalance'
<1>1. /\ TypeOK /\ FileBalance /\ CacheBalance /\ ThreadInv /\ ~Replays
      /\ \A p \in DOMAIN Records : Records[p] \in Values \union {Blank}
      /\ IsFiniteSet(DOMAIN Records)
  BY SourceFacts DEF ReaderInv, ReadsFile
<1>2. /\ source' = source /\ input' = input /\ pass' = pass /\ delivered' = delivered
      /\ recorded_cache_' = recorded_cache_
  BY DEF ReadsFile, fixed, cache, history
<1>3. /\ Records' = Records /\ ~Replays' /\ Values' = Values /\ Caches' = Caches
  BY <1>1, <1>2, SameFile
<1>4. OnlyMoves(t) /\ (GivesNothing(t) \/ \E p : GivesRow(t, p))
  BY ReadsFileType
<1>5. Blank \notin Values
  BY DEF Values
<1>6. pc[t] \notin InHand /\ pc[t] \notin {"deliver"}
  BY DEF ReadsFile, InHand
<1>7. pc'[t] = IF IsFolded /\ ~IsOfFold(row_id + 1) THEN pc[t] ELSE AfterRead
  BY DEF ReadsFile
<1>8. AfterRead \in InHand /\ (Caches => AfterRead = "record")
  BY DEF AfterRead, InHand
<1>9. IsFiniteSet(Passed)
  <2>1. Passed \in SUBSET DOMAIN Records
    BY DEF Passed
  <2>2. QED
    BY <1>1, <2>1, FS_Subset
<1>10. ASSUME NEW r \in Values
       PROVE  /\ Held(InHand, r) \in Nat /\ Held(InHand, r)' \in Nat
              /\ Held(InHand, r)' = Held(InHand, r) + One(pc'[t] \in InHand /\ record'[t] = r)
  <2>1. One(pc[t] \in InHand /\ record[t] = r) = 0
    BY <1>6 DEF One
  <2>2. /\ Held(InHand, r) \in Nat /\ Held(InHand, r)' \in Nat
        /\ Held(InHand, r)' + One(pc[t] \in InHand /\ record[t] = r)
             = Held(InHand, r) + One(pc'[t] \in InHand /\ record'[t] = r)
    BY <1>4, HeldMoves
  <2>3. QED
    BY <2>1, <2>2
<1>11. ASSUME NEW r \in Values
       PROVE  /\ Cardinality(Places(Records, Passed, r)) \in Nat
              /\ Cardinality(Places(Records, Passed', r))
                   = Cardinality(Places(Records, Passed, r)) + One(pc'[t] \in InHand /\ record'[t] = r)
  <2>1. Cardinality(Places(Records, Passed, r)) \in Nat
    <3>1. Places(Records, Passed, r) \in SUBSET Passed
      BY DEF Places
    <3>2. QED
      BY <1>9, <3>1, FS_Subset, FS_CardinalityType
  <2>2. CASE GivesNothing(t)
    BY <1>5, <2>1, <2>2 DEF GivesNothing, One
  <2>3. ASSUME NEW p, GivesRow(t, p)
        PROVE  Cardinality(Places(Records, Passed', r))
                 = Cardinality(Places(Records, Passed, r)) + One(pc'[t] \in InHand /\ record'[t] = r)
    <3>1. /\ p \in DOMAIN Records /\ p \notin Passed /\ record'[t] = Records[p]
          /\ Passed' = IF IsWanted(p) THEN Passed \union {p} ELSE Passed
      BY <2>3 DEF GivesRow
    <3>2. CASE Records[p] = Blank
      <4>1. Passed' = Passed
        BY <3>1, <3>2, NotWanted
      <4>2. record'[t] # r
        BY <1>5, <3>1, <3>2
      <4>3. QED
        BY <2>1, <4>1, <4>2 DEF One
    <3>3. CASE Records[p] # Blank
      <4>1. IsWanted(p) <=> pc'[t] \in InHand
        BY <1>1, <1>6, <1>7, <1>8, <2>3, <3>3, FoldOfRow
      <4>2. CASE IsWanted(p)
        <5>1. Cardinality(Places(Records, Passed \union {p}, r))
                = Cardinality(Places(Records, Passed, r)) + One(Records[p] = r)
          BY <1>9, <3>1, PlacesAdd
        <5>2. One(Records[p] = r) = One(pc'[t] \in InHand /\ record'[t] = r)
          BY <3>1, <4>1, <4>2 DEF One
        <5>3. QED
          BY <3>1, <4>2, <5>1, <5>2
      <4>3. CASE ~IsWanted(p)
        BY <2>1, <3>1, <4>1, <4>3 DEF One
      <4>4. QED
        BY <4>2, <4>3
    <3>4. QED
      BY <3>2, <3>3
  <2>4. QED
    BY <1>4, <2>1, <2>2, <2>3
<1>12. FileBalance'
  <2>1. ASSUME NEW r \in Values
        PROVE  Copies(delivered[pass], r) + Held(InHand, r)' = Cardinality(Places(Records, Passed', r))
    <3>1. Copies(delivered[pass], r) + Held(InHand, r) = Cardinality(Places(Records, Passed, r))
      BY <1>1 DEF FileBalance
    <3>2. Copies(delivered[pass], r) \in Nat
      <4>1. delivered[pass] \in BagsOf(Values)
        BY <1>1 DEF TypeOK
      <4>2. QED
        BY <4>1, CopiesType
    <3>3. One(pc'[t] \in InHand /\ record'[t] = r) \in Nat
      BY DEF One
    <3>4. QED
      BY <1>10, <1>11, <3>1, <3>2, <3>3
  <2>2. QED
    BY <1>2, <1>3, <2>1 DEF FileBalance, Places
<1>13. CacheBalance'
  <2>1. SUFFICES ASSUME input.caching, NEW r \in Values
                 PROVE  Cardinality(Places(recorded_cache_, DOMAIN recorded_cache_, r)) =
                          Copies(delivered[1], r) + IF pass = 1 THEN Held({"deliver"}, r)' ELSE 0
    BY <1>2, <1>3 DEF CacheBalance, Places
  <2>2. Cardinality(Places(recorded_cache_, DOMAIN recorded_cache_, r)) =
          Copies(delivered[1], r) + IF pass = 1 THEN Held({"deliver"}, r) ELSE 0
    BY <1>1, <2>1 DEF CacheBalance
  <2>3. CASE pass = 1
    <3>1. pc'[t] \notin {"deliver"}
      BY <1>6, <1>7, <1>8, <2>1, <2>3 DEF Caches
    <3>2. One(pc[t] \in {"deliver"} /\ record[t] = r) = 0 /\ One(pc'[t] \in {"deliver"} /\ record'[t] = r) = 0
      BY <1>6, <3>1 DEF One
    <3>3. /\ Held({"deliver"}, r) \in Nat /\ Held({"deliver"}, r)' \in Nat
          /\ Held({"deliver"}, r)' + One(pc[t] \in {"deliver"} /\ record[t] = r)
               = Held({"deliver"}, r) + One(pc'[t] \in {"deliver"} /\ record'[t] = r)
      BY <1>4, HeldMoves
    <3>4. Held({"deliver"}, r)' = Held({"deliver"}, r)
      BY <3>2, <3>3
    <3>5. QED
      BY <2>2, <3>4
  <2>4. CASE pass # 1
    BY <2>2, <2>4
  <2>5. QED
    BY <2>3, <2>4
<1>14. QED
  BY <1>3, <1>12, <1>13 DEF ReplayBalance

-----------------------------------------------------------------------------
(* The steps that read nothing.                                            *)

LEMMA SameEnd ==
  ASSUME UNCHANGED <<fixed, pass, file, recorded_cache_, recording_pos>>
  PROVE  /\ source' = source /\ input' = input /\ pass' = pass /\ pos' = pos /\ eof' = eof
         /\ ReachedEnd' = ReachedEnd /\ Passed' = Passed /\ Replayed' = Replayed
         /\ Records' = Records /\ Replays' = Replays /\ Caches' = Caches
         /\ IsFolded' = IsFolded /\ Values' = Values
         /\ \A n : Row(n)' = Row(n)
<1>1. source' = source /\ input' = input /\ pass' = pass /\ pos' = pos /\ eof' = eof
  BY DEF fixed, file
<1>2. /\ Records' = Records /\ Replays' = Replays /\ Caches' = Caches
      /\ IsFolded' = IsFolded /\ Values' = Values
      /\ Passed' = {p \in DOMAIN Records : p < pos' /\ IsWanted(p)}
      /\ \A n : Row(n)' = Row(n)
  BY <1>1, SameFile
<1>3. Passed' = Passed
  BY <1>1, <1>2 DEF Passed
<1>4. ReachedEnd' = ReachedEnd /\ Replayed' = Replayed
  BY <1>1, <1>2 DEF ReachedEnd, Replayed
<1>5. QED
  BY <1>1, <1>2, <1>3, <1>4

\* A thread goes on with empty hands.
GoesOn(t) ==
  /\ UNCHANGED <<fixed, pass, file, row_id, cache, record, delivered>>
  /\ pc' \in [Threads -> PCs] /\ \A u \in Threads \ {t} : pc'[u] = pc[u]
  /\ pc[t] \notin InHand /\ pc'[t] \notin InHand
  /\ stopped' \in BOOLEAN /\ (stopped => stopped')
  /\ pc'[t] = "fold" => IsFolded
  /\ pc'[t] = "done" => stopped' \/ ReachedEnd

LEMMA GoesOnInv ==
  ASSUME ReaderInv, NEW t \in Threads, GoesOn(t)
  PROVE  ReaderInv'
<1>1. TypeOK /\ EndIsBlank /\ RowIsCounted /\ ThreadInv /\ FileBalance /\ CacheBalance /\ ReplayBalance
  BY DEF ReaderInv
<1>2. /\ recorded_cache_' = recorded_cache_ /\ recording_pos' = recording_pos
      /\ row_id' = row_id /\ record' = record /\ delivered' = delivered
  BY DEF GoesOn, cache
<1>3. /\ source' = source /\ input' = input /\ pass' = pass /\ pos' = pos /\ eof' = eof
      /\ ReachedEnd' = ReachedEnd /\ Passed' = Passed /\ Replayed' = Replayed
      /\ Records' = Records /\ Replays' = Replays /\ Caches' = Caches
      /\ IsFolded' = IsFolded /\ Values' = Values
      /\ \A n : Row(n)' = Row(n)
  BY <1>2, SameEnd DEF GoesOn
<1>4. TypeOK'
  BY <1>1, <1>2, <1>3 DEF TypeOK, GoesOn
<1>5. EndIsBlank' /\ RowIsCounted'
  BY <1>1, <1>2, <1>3 DEF EndIsBlank, RowIsCounted
<1>6. ThreadInv'
  <2>1. ASSUME NEW u \in Threads
        PROVE  /\ pc'[u] = "fold" => IsFolded
               /\ pc'[u] = "record" => Caches
               /\ pc'[u] = "done" => stopped' \/ ReachedEnd
    BY <1>1 DEF ThreadInv, GoesOn, InHand
  <2>2. QED
    BY <1>3, <2>1 DEF ThreadInv
<1>7. OnlyMoves(t)
  BY <1>1, <1>2, <1>3 DEF OnlyMoves, TypeOK, GoesOn
<1>8. ASSUME NEW states \in SUBSET InHand, NEW r
      PROVE  Held(states, r)' = Held(states, r)
  <2>1. One(pc[t] \in states /\ record[t] = r) = 0 /\ One(pc'[t] \in states /\ record'[t] = r) = 0
    BY DEF GoesOn, One
  <2>2. /\ Held(states, r) \in Nat /\ Held(states, r)' \in Nat
        /\ Held(states, r)' + One(pc[t] \in states /\ record[t] = r)
             = Held(states, r) + One(pc'[t] \in states /\ record'[t] = r)
    BY <1>7, HeldMoves
  <2>3. QED
    BY <2>1, <2>2
<1>9. \A r : Held(InHand, r)' = Held(InHand, r) /\ Held({"deliver"}, r)' = Held({"deliver"}, r)
  <2>1. InHand \in SUBSET InHand /\ {"deliver"} \in SUBSET InHand
    BY DEF InHand
  <2>2. QED
    BY <1>8, <2>1
<1>10. FileBalance'
  BY <1>1, <1>2, <1>3, <1>9 DEF FileBalance, Places
<1>11. CacheBalance'
  BY <1>1, <1>2, <1>3, <1>9 DEF CacheBalance, Places
<1>12. ReplayBalance'
  BY <1>1, <1>2, <1>3, <1>9 DEF ReplayBalance, Places
<1>13. QED
  BY <1>4, <1>5, <1>6, <1>10, <1>11, <1>12 DEF ReaderInv

\* A thread puts its record into the cache.
LEMMA RecordInv ==
  ASSUME ReaderInv, NEW t \in Threads, Record(t)
  PROVE  ReaderInv'
<1>1. TypeOK /\ EndIsBlank /\ RowIsCounted /\ ThreadInv /\ FileBalance /\ CacheBalance
  BY DEF ReaderInv
<1>2. /\ recording_pos' = recording_pos /\ row_id' = row_id /\ record' = record
      /\ delivered' = delivered /\ stopped' = stopped
      /\ source' = source /\ input' = input /\ pass' = pass /\ pos' = pos /\ eof' = eof
  BY DEF Record, fixed, file, folding, history
<1>3. pc[t] = "record" /\ pc' = [pc EXCEPT ![t] = "deliver"]
  BY DEF Record
<1>4. Caches /\ input.caching /\ pass = 1 /\ ~Replays
  BY <1>1, <1>3 DEF ThreadInv, Caches, Replays, TypeOK
<1>5. /\ Records' = Records /\ Replays' = Replays /\ Caches' = Caches
      /\ IsFolded' = IsFolded /\ Values' = Values
      /\ Passed' = {p \in DOMAIN Records : p < pos' /\ IsWanted(p)}
      /\ \A n : Row(n)' = Row(n)
  BY <1>2, SameFile
<1>6. Passed' = Passed
  BY <1>2, <1>5 DEF Passed
<1>7. ReachedEnd' = ReachedEnd
  BY <1>2, <1>4, <1>5 DEF ReachedEnd
<1>8. record[t] \in Values \union {Blank} /\ recorded_cache_ \in Seq(Values)
  BY <1>1 DEF TypeOK
<1>9. recorded_cache_' = IF record[t] = Blank THEN recorded_cache_ ELSE Append(recorded_cache_, record[t])
  BY DEF Record
<1>10. recorded_cache_' \in Seq(Values)
  BY <1>8, <1>9
<1>11. pc \in [Threads -> PCs] /\ pc' \in [Threads -> PCs] /\ pc'[t] = "deliver"
  BY <1>1, <1>3 DEF TypeOK, PCs
<1>12. TypeOK'
  BY <1>1, <1>2, <1>5, <1>10, <1>11 DEF TypeOK
<1>13. EndIsBlank' /\ RowIsCounted'
  BY <1>1, <1>2, <1>5, <1>7 DEF EndIsBlank, RowIsCounted
<1>14. ThreadInv'
  BY <1>1, <1>2, <1>3, <1>5, <1>7, <1>11 DEF ThreadInv
<1>15. OnlyMoves(t)
  BY <1>1, <1>2, <1>3, <1>5, <1>11 DEF OnlyMoves, TypeOK
<1>16. ASSUME NEW states, NEW r
       PROVE  /\ Held(states, r) \in Nat /\ Held(states, r)' \in Nat
              /\ Held(states, r)' + One("record" \in states /\ record[t] = r)
                   = Held(states, r) + One("deliver" \in states /\ record[t] = r)
  <2>1. /\ Held(states, r) \in Nat /\ Held(states, r)' \in Nat
        /\ Held(states, r)' + One(pc[t] \in states /\ record[t] = r)
             = Held(states, r) + One(pc'[t] \in states /\ record'[t] = r)
    BY <1>15, HeldMoves
  <2>2. QED
    BY <1>2, <1>3, <1>11, <2>1
<1>17. ASSUME NEW r
       PROVE  Held(InHand, r)' = Held(InHand, r)
  <2>1. One("record" \in InHand /\ record[t] = r) = One("deliver" \in InHand /\ record[t] = r)
    BY DEF InHand
  <2>2. One("record" \in InHand /\ record[t] = r) \in Nat
    BY DEF One
  <2>3. /\ Held(InHand, r) \in Nat /\ Held(InHand, r)' \in Nat
        /\ Held(InHand, r)' + One("record" \in InHand /\ record[t] = r)
             = Held(InHand, r) + One("deliver" \in InHand /\ record[t] = r)
    BY <1>16
  <2>4. QED
    BY <2>1, <2>2, <2>3
<1>18. FileBalance'
  BY <1>1, <1>2, <1>5, <1>6, <1>17 DEF FileBalance, Places
<1>19. CacheBalance'
  <2>1. ASSUME NEW r \in Values
        PROVE  Cardinality(Places(recorded_cache_', DOMAIN recorded_cache_', r)) =
                 Copies(delivered[1], r) + Held({"deliver"}, r)'
    <3> DEFINE n == Len(recorded_cache_)
               Count(seq) == Cardinality(Places(seq, DOMAIN seq, r))
    <3>1. Count(recorded_cache_) = Copies(delivered[1], r) + Held({"deliver"}, r)
      BY <1>1, <1>4 DEF CacheBalance
    <3>2. /\ Held({"deliver"}, r) \in Nat /\ Held({"deliver"}, r)' \in Nat
          /\ Held({"deliver"}, r)' = Held({"deliver"}, r) + One(record[t] = r)
      <4>1. /\ Held({"deliver"}, r) \in Nat /\ Held({"deliver"}, r)' \in Nat
            /\ Held({"deliver"}, r)' + One("record" \in {"deliver"} /\ record[t] = r)
                 = Held({"deliver"}, r) + One("deliver" \in {"deliver"} /\ record[t] = r)
        BY <1>16
      <4>2. One("record" \in {"deliver"} /\ record[t] = r) = 0
        BY DEF One
      <4>3. One("deliver" \in {"deliver"} /\ record[t] = r) = One(record[t] = r)
        BY DEF One
      <4>4. One(record[t] = r) \in Nat
        BY DEF One
      <4>5. QED
        BY <4>1, <4>2, <4>3, <4>4
    <3>3. Count(recorded_cache_') = Count(recorded_cache_) + One(record[t] = r)
      <4>1. n \in Nat /\ DOMAIN recorded_cache_ = 1 .. n
        BY <1>8
      <4>2. IsFiniteSet(1 .. n) /\ n + 1 \notin 1 .. n
        BY <4>1, FS_Interval
      <4>3. CASE record[t] = Blank
        <5>1. r # Blank
          BY DEF Values
        <5>2. Cardinality(Places(recorded_cache_, 1 .. n, r)) \in Nat
          BY <4>2, PlacesAdd
        <5>3. QED
          BY <1>9, <4>1, <4>3, <5>1, <5>2 DEF One
      <4>4. CASE record[t] # Blank
        BY <1>8, <1>9, <4>4, PlacesAppend
      <4>5. QED
        BY <4>3, <4>4
    <3>4. Copies(delivered[1], r) \in Nat /\ One(record[t] = r) \in Nat
      BY <1>1, DeliveredFacts DEF One
    <3>5. QED
      BY <3>1, <3>2, <3>3, <3>4
  <2>2. QED
    BY <1>2, <1>4, <1>5, <2>1 DEF CacheBalance, Places
<1>20. ReplayBalance'
  BY <1>4, <1>5 DEF ReplayBalance
<1>21. QED
  BY <1>12, <1>13, <1>14, <1>18, <1>19, <1>20 DEF ReaderInv

\* A client uses its record.
LEMMA DeliverInv ==
  ASSUME ReaderInv, NEW t \in Threads, Deliver(t)
  PROVE  ReaderInv'
<1>1. TypeOK /\ EndIsBlank /\ RowIsCounted /\ ThreadInv /\ FileBalance /\ CacheBalance /\ ReplayBalance
  BY DEF ReaderInv
<1>2. /\ recorded_cache_' = recorded_cache_ /\ recording_pos' = recording_pos
      /\ row_id' = row_id /\ stopped' = stopped
  BY DEF Deliver, cache, folding
<1>3. /\ source' = source /\ input' = input /\ pass' = pass /\ pos' = pos /\ eof' = eof
      /\ ReachedEnd' = ReachedEnd /\ Passed' = Passed /\ Replayed' = Replayed
      /\ Records' = Records /\ Replays' = Replays /\ Caches' = Caches
      /\ IsFolded' = IsFolded /\ Values' = Values
      /\ \A n : Row(n)' = Row(n)
  BY <1>2, SameEnd DEF Deliver
<1>4. /\ pc \in [Threads -> PCs] /\ record \in [Threads -> Values \union {Blank}]
      /\ pc[t] = "deliver" /\ pc' = [pc EXCEPT ![t] = "test"] /\ record' = [record EXCEPT ![t] = Blank]
  BY <1>1 DEF TypeOK, Deliver
<1>5. OnlyMoves(t) /\ pc'[t] = "test" /\ record'[t] = Blank
  BY <1>3, <1>4 DEF OnlyMoves, PCs
<1>6. /\ DOMAIN delivered = 1 .. pass /\ 1 \in 1 .. pass /\ pass \in 1 .. pass
      /\ \A i \in 1 .. pass : delivered[i] \in BagsOf(Values)
      /\ \A r : Copies(delivered[1], r) \in Nat /\ Copies(delivered[pass], r) \in Nat
  BY <1>1, DeliveredFacts
<1>7. /\ delivered'[pass] \in BagsOf(Values)
      /\ \A r \in Values : Copies(delivered'[pass], r) = Copies(delivered[pass], r) + One(record[t] = r)
      /\ pass # 1 => delivered'[1] = delivered[1]
      /\ delivered' \in Seq(BagsOf(Values)) /\ Len(delivered') = pass
  <2>0. delivered \in Seq(BagsOf(Values)) /\ Len(delivered) = pass
    BY <1>1 DEF TypeOK
  <2>1. CASE record[t] = Blank
    <3>1. delivered' = delivered
      BY <2>1 DEF Deliver
    <3>2. \A r \in Values : record[t] # r
      BY <2>1 DEF Values
    <3>3. QED
      BY <1>6, <2>0, <3>1, <3>2 DEF One
  <2>2. CASE record[t] # Blank
    <3> DEFINE new == delivered[pass] (+) SetToBag({record[t]})
    <3>1. delivered' = [delivered EXCEPT ![pass] = new]
      BY <2>2 DEF Deliver
    <3>2. record[t] \in Values
      BY <1>4, <2>2
    <3>3. new \in BagsOf(Values) /\ \A r : Copies(new, r) = Copies(delivered[pass], r) + One(r = record[t])
      BY <1>6, <3>2, CopiesAdd
    <3> HIDE DEF new
    <3>4. delivered'[pass] = new /\ (pass # 1 => delivered'[1] = delivered[1])
      BY <1>6, <3>1
    <3>5. delivered' \in Seq(BagsOf(Values)) /\ Len(delivered') = pass
      BY <1>6, <2>0, <3>1, <3>3
    <3>6. \A r : One(r = record[t]) = One(record[t] = r)
      BY DEF One
    <3>7. QED
      BY <3>3, <3>4, <3>5, <3>6
  <2>3. QED
    BY <2>1, <2>2
<1>8. TypeOK'
  BY <1>1, <1>2, <1>3, <1>5, <1>7 DEF TypeOK, OnlyMoves
<1>9. EndIsBlank' /\ RowIsCounted'
  BY <1>1, <1>2, <1>3 DEF EndIsBlank, RowIsCounted
<1>10. ThreadInv'
  BY <1>1, <1>2, <1>3, <1>4 DEF ThreadInv
<1>11. ASSUME NEW states, NEW r \in Values, "deliver" \in states, "test" \notin states
       PROVE  /\ Held(states, r) \in Nat /\ Held(states, r)' \in Nat
              /\ Held(states, r)' + One(record[t] = r) = Held(states, r)
  <2>1. /\ Held(states, r) \in Nat /\ Held(states, r)' \in Nat
        /\ Held(states, r)' + One(pc[t] \in states /\ record[t] = r)
             = Held(states, r) + One(pc'[t] \in states /\ record'[t] = r)
    BY <1>5, HeldMoves
  <2>2. One(pc[t] \in states /\ record[t] = r) = One(record[t] = r)
    BY <1>4, <1>11 DEF One
  <2>3. One(pc'[t] \in states /\ record'[t] = r) = 0
    BY <1>5, <1>11 DEF One
  <2>4. QED
    BY <2>1, <2>2, <2>3
<1>12. ASSUME NEW r \in Values
       PROVE  /\ Copies(delivered'[pass], r) + Held(InHand, r)' = Copies(delivered[pass], r) + Held(InHand, r)
              /\ Copies(delivered'[pass], r) + Held({"deliver"}, r)'
                   = Copies(delivered[pass], r) + Held({"deliver"}, r)
  <2>1. One(record[t] = r) \in Nat
    BY DEF One
  <2>2. /\ Held(InHand, r) \in Nat /\ Held(InHand, r)' \in Nat
        /\ Held(InHand, r)' + One(record[t] = r) = Held(InHand, r)
    <3>1. "deliver" \in InHand /\ "test" \notin InHand
      BY DEF InHand
    <3>2. QED
      BY <1>11, <3>1
  <2>3. /\ Held({"deliver"}, r) \in Nat /\ Held({"deliver"}, r)' \in Nat
        /\ Held({"deliver"}, r)' + One(record[t] = r) = Held({"deliver"}, r)
    BY <1>11
  <2>4. Copies(delivered'[pass], r) = Copies(delivered[pass], r) + One(record[t] = r)
    BY <1>7
  <2>5. Copies(delivered[pass], r) \in Nat
    BY <1>6
  <2>6. QED
    BY <2>1, <2>2, <2>3, <2>4, <2>5
<1>13. FileBalance'
  BY <1>1, <1>3, <1>12 DEF FileBalance, Places
<1>14. ReplayBalance'
  BY <1>1, <1>2, <1>3, <1>12 DEF ReplayBalance, Places
<1>15. CacheBalance'
  <2>1. ASSUME input.caching, NEW r \in Values
        PROVE  Cardinality(Places(recorded_cache_, DOMAIN recorded_cache_, r)) =
                 Copies(delivered'[1], r) + IF pass = 1 THEN Held({"deliver"}, r)' ELSE 0
    <3>1. Cardinality(Places(recorded_cache_, DOMAIN recorded_cache_, r)) =
            Copies(delivered[1], r) + IF pass = 1 THEN Held({"deliver"}, r) ELSE 0
      BY <1>1, <2>1 DEF CacheBalance
    <3>2. CASE pass = 1
      BY <1>12, <3>1, <3>2
    <3>3. CASE pass # 1
      BY <1>7, <3>1, <3>3
    <3>4. QED
      BY <3>2, <3>3
  <2>2. QED
    BY <1>2, <1>3, <2>1 DEF CacheBalance, Places
<1>16. QED
  BY <1>8, <1>9, <1>10, <1>13, <1>14, <1>15 DEF ReaderInv

\* A thread gets the next record of the cache.
LEMMA ReadRecordedInv ==
  ASSUME ReaderInv, NEW t \in Threads, ReadRecorded(t)
  PROVE  ReaderInv'
<1>1. TypeOK /\ EndIsBlank /\ RowIsCounted /\ ThreadInv /\ CacheBalance /\ ReplayBalance /\ Replays
  BY DEF ReaderInv, ReadRecorded
<1>2. /\ source' = source /\ input' = input /\ pass' = pass /\ pos' = pos /\ eof' = eof
      /\ recorded_cache_' = recorded_cache_ /\ row_id' = row_id /\ stopped' = stopped
      /\ delivered' = delivered
  BY DEF ReadRecorded, fixed, file, folding, history
<1>3. /\ Records' = Records /\ Replays' = Replays /\ Caches' = Caches
      /\ IsFolded' = IsFolded /\ Values' = Values
      /\ \A n : Row(n)' = Row(n)
  BY <1>2, SameFile
<1>4. ~IsFolded /\ ~Caches /\ pass # 1
  BY <1>1 DEF IsFolded, Caches, Replays, TypeOK
<1> DEFINE n == Len(recorded_cache_)
           i == recording_pos
<1>5. n \in Nat /\ DOMAIN recorded_cache_ = 1 .. n /\ i \in Nat \ {0} /\ \A j \in 1 .. n : recorded_cache_[j] \in Values
  BY <1>1 DEF TypeOK
<1>6. (ReachedEnd <=> i > n) /\ (ReachedEnd' <=> i' > n)
  BY <1>1, <1>2, <1>3 DEF ReachedEnd
<1>7. /\ pc \in [Threads -> PCs] /\ record \in [Threads -> Values \union {Blank}]
      /\ pc[t] = "read" /\ pc' = [pc EXCEPT ![t] = "deliver"]
      /\ record' = [record EXCEPT ![t] = IF ReachedEnd THEN Blank ELSE recorded_cache_[i]]
      /\ i' = IF ReachedEnd THEN i ELSE i + 1
  BY <1>1 DEF TypeOK, ReadRecorded
<1>8. /\ i' \in Nat \ {0} /\ (ReachedEnd => ReachedEnd')
      /\ record'[t] = IF i > n THEN Blank ELSE recorded_cache_[i]
  BY <1>5, <1>6, <1>7
<1>9. record'[t] \in Values \union {Blank}
  BY <1>5, <1>8
<1>10. OnlyMoves(t) /\ pc'[t] = "deliver"
  BY <1>3, <1>7, <1>9 DEF OnlyMoves, PCs
<1>11. TypeOK'
  BY <1>1, <1>2, <1>3, <1>8, <1>10 DEF TypeOK, OnlyMoves
<1>12. EndIsBlank' /\ RowIsCounted'
  BY <1>1, <1>2, <1>3, <1>4 DEF EndIsBlank, RowIsCounted
<1>13. ThreadInv'
  BY <1>1, <1>2, <1>3, <1>7, <1>8 DEF ThreadInv
<1>14. FileBalance'
  BY <1>1, <1>3 DEF FileBalance
<1>15. CacheBalance'
  BY <1>1, <1>2, <1>3, <1>4 DEF CacheBalance, Places
<1>16. ReplayBalance'
  <2>1. ASSUME NEW r \in Values
        PROVE  Copies(delivered[pass], r) + Held(InHand, r)' = Cardinality(Places(recorded_cache_, Replayed', r))
    <3>1. Copies(delivered[pass], r) + Held(InHand, r) = Cardinality(Places(recorded_cache_, Replayed, r))
      BY <1>1 DEF ReplayBalance
    <3>2. /\ Held(InHand, r) \in Nat /\ Held(InHand, r)' \in Nat
          /\ Held(InHand, r)' = Held(InHand, r) + One(record'[t] = r)
      <4>1. /\ Held(InHand, r) \in Nat /\ Held(InHand, r)' \in Nat
            /\ Held(InHand, r)' + One(pc[t] \in InHand /\ record[t] = r)
                 = Held(InHand, r) + One(pc'[t] \in InHand /\ record'[t] = r)
        BY <1>10, HeldMoves
      <4>2. One(pc[t] \in InHand /\ record[t] = r) = 0
        BY <1>7 DEF InHand, One
      <4>3. One(pc'[t] \in InHand /\ record'[t] = r) = One(record'[t] = r)
        BY <1>10 DEF InHand, One
      <4>4. QED
        BY <4>1, <4>2, <4>3
    <3>3. IsFiniteSet(Replayed) /\ i \notin Replayed
      <4>1. IsFiniteSet(1 .. n)
        BY <1>5, FS_Interval
      <4>2. Replayed \in SUBSET (1 .. n) /\ i \notin Replayed
        BY <1>5 DEF Replayed
      <4>3. QED
        BY <4>1, <4>2, FS_Subset
    <3>4. /\ Cardinality(Places(recorded_cache_, Replayed, r)) \in Nat
          /\ Cardinality(Places(recorded_cache_, Replayed \union {i}, r))
               = Cardinality(Places(recorded_cache_, Replayed, r)) + One(recorded_cache_[i] = r)
      BY <3>3, PlacesAdd
    <3>5. Cardinality(Places(recorded_cache_, Replayed', r))
            = Cardinality(Places(recorded_cache_, Replayed, r)) + One(record'[t] = r)
      <4>1. Replayed' = {j \in 1 .. n : j < i'}
        BY <1>2, <1>5 DEF Replayed
      <4>2. CASE i > n
        <5>1. Replayed' = Replayed
          BY <1>5, <1>6, <1>7, <4>1, <4>2 DEF Replayed
        <5>2. record'[t] # r
          BY <1>8, <4>2 DEF Values
        <5>3. QED
          BY <3>4, <5>1, <5>2 DEF One
      <4>3. CASE ~(i > n)
        <5>1. Replayed' = Replayed \union {i}
          BY <1>5, <1>6, <1>7, <4>1, <4>3 DEF Replayed
        <5>2. record'[t] = recorded_cache_[i]
          BY <1>8, <4>3
        <5>3. QED
          BY <3>4, <5>1, <5>2
      <4>4. QED
        BY <4>2, <4>3
    <3>6. Copies(delivered[pass], r) \in Nat /\ One(record'[t] = r) \in Nat
      BY <1>1, DeliveredFacts DEF One
    <3>7. QED
      BY <3>1, <3>2, <3>4, <3>5, <3>6
  <2>2. QED
    BY <1>2, <1>3, <2>1 DEF ReplayBalance, Places
<1>17. QED
  BY <1>11, <1>12, <1>13, <1>14, <1>15, <1>16 DEF ReaderInv

\* A shuffled cache has the records that it had.
LEMMA ShuffleKeeps ==
  ASSUME NEW V, NEW seq \in Seq(V), NEW p \in Bijection(DOMAIN seq, DOMAIN seq),
         NEW new, new = [i \in DOMAIN seq |-> seq[p[i]]]
  PROVE  /\ new \in Seq(V) /\ DOMAIN new = DOMAIN seq
         /\ \A r : Cardinality(Places(new, DOMAIN new, r)) = Cardinality(Places(seq, DOMAIN seq, r))
<1> DEFINE D == DOMAIN seq
<1>1. /\ p \in [D -> D] /\ \A a, b \in D : p[a] = p[b] => a = b
      /\ \A c \in D : \E a \in D : p[a] = c
  BY DEF Bijection, Injection, Surjection, IsInjective
<1>2. Len(seq) \in Nat /\ D = 1 .. Len(seq) /\ \A i \in D : seq[i] \in V
  OBVIOUS
<1>3. new \in [1 .. Len(seq) -> V]
  BY <1>1, <1>2
<1>4. new \in Seq(V) /\ DOMAIN new = D
  BY <1>2, <1>3
<1>5. ASSUME NEW r
      PROVE  Cardinality(Places(new, D, r)) = Cardinality(Places(seq, D, r))
  <2> DEFINE A == Places(new, D, r)
             B == Places(seq, D, r)
             f == [i \in A |-> p[i]]
  <2>1. IsFiniteSet(A)
    <3>1. IsFiniteSet(D)
      BY <1>2, FS_Interval
    <3>2. A \in SUBSET D
      BY DEF Places
    <3>3. QED
      BY <3>1, <3>2, FS_Subset
  <2>2. f \in [A -> B]
    BY <1>1 DEF Places
  <2>3. \A a, b \in A : f[a] = f[b] => a = b
    BY <1>1 DEF Places
  <2>4. \A c \in B : \E a \in A : f[a] = c
    BY <1>1 DEF Places
  <2>5. f \in Bijection(A, B)
    BY <2>2, <2>3, <2>4 DEF Bijection, Injection, Surjection, IsInjective
  <2>6. ExistsBijection(A, B)
    BY <2>5 DEF ExistsBijection
  <2>7. QED
    BY <2>1, <2>6, FS_Bijection
<1>6. QED
  BY <1>4, <1>5

\* Nothing is in hand when no thread is where things are.
LEMMA NothingHeld ==
  ASSUME NEW states, \A t \in Threads : pc[t] \notin states
  PROVE  \A r : Held(states, r) = 0
<1>1. \A r : Holding(states, r) = {}
  BY DEF Holding
<1>2. QED
  BY <1>1, FS_EmptySet DEF Held

\* The next pass starts with nothing in hand.
LEMMA CreateReaderInv ==
  ASSUME ReaderInv, CreateReader
  PROVE  ReaderInv'
<1>1. TypeOK /\ CacheBalance
  BY DEF ReaderInv
<1>2. /\ source' = source /\ input' = input /\ record' = record
      /\ pass' = pass + 1 /\ pos' = 1 /\ eof' = FALSE /\ row_id' = 0 /\ recording_pos' = 1
      /\ pc' = [t \in Threads |-> "test"] /\ delivered' = Append(delivered, EmptyBag) /\ stopped' = FALSE
  BY DEF CreateReader, fixed
<1>3. PICK p \in Bijection(DOMAIN recorded_cache_, DOMAIN recorded_cache_) :
        recorded_cache_' = [i \in DOMAIN recorded_cache_ |-> recorded_cache_[p[i]]]
  BY DEF CreateReader
<1>4. /\ recorded_cache_' \in Seq(Values) /\ DOMAIN recorded_cache_' = DOMAIN recorded_cache_
      /\ \A r : Cardinality(Places(recorded_cache_', DOMAIN recorded_cache_', r))
                  = Cardinality(Places(recorded_cache_, DOMAIN recorded_cache_, r))
  <2>1. recorded_cache_ \in Seq(Values)
    BY <1>1 DEF TypeOK
  <2>2. QED
    BY <1>3, <2>1, ShuffleKeeps
<1>5. Records' = Records /\ Values' = Values
  BY <1>2 DEF Records, Values
<1>6. /\ pass \in Nat \ {0} /\ delivered \in Seq(BagsOf(Values)) /\ Len(delivered) = pass
      /\ EmptyBag \in BagsOf(Values) /\ \A r : Copies(EmptyBag, r) = 0
  BY <1>1, EmptyBagFacts DEF TypeOK
<1>7. /\ delivered' \in Seq(BagsOf(Values)) /\ Len(delivered') = pass'
      /\ delivered'[pass'] = EmptyBag /\ delivered'[1] = delivered[1]
  BY <1>2, <1>6
<1>8. TypeOK'
  <2>1. pass' \in Nat \ {0} /\ pc' \in [Threads -> PCs]
    BY <1>2, <1>6 DEF PCs
  <2>2. source \in Files /\ input \in Inputs /\ record \in [Threads -> Values \union {Blank}]
    BY <1>1 DEF TypeOK
  <2>3. pos' \in Nat \ {0} /\ eof' \in BOOLEAN /\ row_id' \in Nat /\ recording_pos' \in Nat \ {0} /\ stopped' \in BOOLEAN
    <3>1. 1 \in Nat \ {0} /\ 0 \in Nat /\ FALSE \in BOOLEAN
      OBVIOUS
    <3>2. QED
      BY <1>2, <3>1, Zenon
  <2>4. recorded_cache_' \in Seq(Values) /\ delivered' \in Seq(BagsOf(Values)) /\ Len(delivered') = pass'
    BY <1>4, <1>7
  <2>5. QED
    BY <1>2, <1>5, <2>1, <2>2, <2>3, <2>4, Zenon DEF TypeOK
<1>9. EndIsBlank'
  BY <1>2 DEF EndIsBlank
<1>10. RowIsCounted'
  <2>1. SUFFICES ASSUME IsFolded'
                 PROVE  0 = Row(0)' % input.folds
    BY <1>2 DEF RowIsCounted
  <2>2. Row(0)' = 0
    <3>1. {q \in 1 .. 0 : IsRow(q)'} = {}
      OBVIOUS
    <3>2. QED
      BY <3>1, FS_EmptySet DEF Row
  <2>3. input.folds \in Nat \ {0}
    BY <1>1, <1>2, <2>1, SourceFacts DEF IsFolded
  <2>4. QED
    BY <2>2, <2>3
<1>11. ThreadInv'
  BY <1>2 DEF ThreadInv
<1>12. \A r : Held(InHand, r)' = 0 /\ Held({"deliver"}, r)' = 0
  <2>1. \A t \in Threads : pc'[t] \notin InHand /\ pc'[t] \notin {"deliver"}
    BY <1>2 DEF InHand
  <2>2. \A r : Holding(InHand, r)' = {} /\ Holding({"deliver"}, r)' = {}
    BY <2>1 DEF Holding
  <2>3. QED
    BY <2>2, FS_EmptySet DEF Held
<1>13. \A seq, r : Cardinality(Places(seq, {}, r)) = 0
  <2>1. \A seq, r : Places(seq, {}, r) = {}
    BY DEF Places
  <2>2. QED
    BY <2>1, FS_EmptySet
<1>14. FileBalance'
  <2>1. Passed' = {}
    <3>1. DOMAIN Records = 1 .. Len(Records) /\ Len(Records) \in Nat
      BY <1>1, SourceFacts
    <3>2. QED
      BY <1>2, <1>5, <3>1 DEF Passed
  <2>2. \A r \in Values : Copies(delivered'[pass'], r) + Held(InHand, r)' = Cardinality(Places(Records, Passed', r))
    BY <1>6, <1>7, <1>12, <1>13, <2>1
  <2>3. QED
    BY <1>5, <2>2 DEF FileBalance, Places
<1>15. CacheBalance'
  <2>1. ASSUME input.caching, NEW r \in Values
        PROVE  Cardinality(Places(recorded_cache_', DOMAIN recorded_cache_', r)) = Copies(delivered'[1], r) + 0
    <3>1. Cardinality(Places(recorded_cache_, DOMAIN recorded_cache_, r)) =
            Copies(delivered[1], r) + IF pass = 1 THEN Held({"deliver"}, r) ELSE 0
      BY <1>1, <2>1 DEF CacheBalance
    <3>2. Held({"deliver"}, r) = 0
      <4>1. \A t \in Threads : pc[t] \notin {"deliver"}
        BY DEF CreateReader
      <4>2. QED
        BY <4>1, NothingHeld
    <3>3. QED
      BY <1>4, <1>7, <3>1, <3>2
  <2>2. pass' # 1
    BY <1>2, <1>6
  <2>3. QED
    BY <1>2, <1>5, <2>1, <2>2 DEF CacheBalance, Places
<1>16. ReplayBalance'
  <2>1. Replayed' = {}
    <3>1. DOMAIN recorded_cache_ = 1 .. Len(recorded_cache_) /\ Len(recorded_cache_) \in Nat
      BY <1>1 DEF TypeOK
    <3>2. QED
      BY <1>2, <1>4, <3>1 DEF Replayed
  <2>2. \A r \in Values :
          Copies(delivered'[pass'], r) + Held(InHand, r)' = Cardinality(Places(recorded_cache_', Replayed', r))
    BY <1>6, <1>7, <1>12, <1>13, <2>1
  <2>3. QED
    BY <1>5, <2>2 DEF ReplayBalance, Places
<1>17. QED
  BY <1>8, <1>9, <1>10, <1>11, <1>14, <1>15, <1>16 DEF ReaderInv

-----------------------------------------------------------------------------
(* The invariant, and what it is for.                                      *)

LEMMA ReaderInitially ==
  ASSUME Init
  PROVE  ReaderInv
<1>1. /\ source \in Files /\ input \in Inputs
      /\ pass = 1 /\ pos = 1 /\ eof = FALSE /\ row_id = 0
      /\ recorded_cache_ = <<>> /\ recording_pos = 1
      /\ pc = [t \in Threads |-> "test"] /\ record = [t \in Threads |-> Blank]
      /\ delivered = <<EmptyBag>> /\ stopped = FALSE
  BY DEF Init
<1>2. EmptyBag \in BagsOf(Values) /\ \A r : Copies(EmptyBag, r) = 0
  BY EmptyBagFacts
<1>3. TypeOK
  <2>1. delivered \in Seq(BagsOf(Values)) /\ Len(delivered) = pass
    BY <1>1, <1>2
  <2>2. pc \in [Threads -> PCs] /\ record \in [Threads -> Values \union {Blank}]
    BY <1>1 DEF PCs
  <2>3. 1 \in Nat \ {0} /\ 0 \in Nat /\ FALSE \in BOOLEAN /\ <<>> \in Seq(Values)
    OBVIOUS
  <2>4. QED
    BY <1>1, <2>1, <2>2, <2>3, Zenon DEF TypeOK
<1>4. EndIsBlank
  BY <1>1 DEF EndIsBlank
<1>5. RowIsCounted
  <2>1. SUFFICES ASSUME IsFolded
                 PROVE  0 = Row(0) % input.folds
    BY <1>1 DEF RowIsCounted
  <2>2. input.folds \in Nat \ {0}
    BY <1>3, <2>1, SourceFacts DEF IsFolded
  <2>3. QED
    BY <2>2, RowFacts
<1>6. ThreadInv
  BY <1>1 DEF ThreadInv
<1>7. \A r : Held(InHand, r) = 0 /\ Held({"deliver"}, r) = 0
  <2>1. \A t \in Threads : pc[t] \notin InHand /\ pc[t] \notin {"deliver"}
    BY <1>1 DEF InHand
  <2>2. QED
    BY <2>1, NothingHeld
<1>8. \A seq, r : Cardinality(Places(seq, {}, r)) = 0
  <2>1. \A seq, r : Places(seq, {}, r) = {}
    BY DEF Places
  <2>2. QED
    BY <2>1, FS_EmptySet
<1>9. delivered[1] = EmptyBag /\ DOMAIN recorded_cache_ = {} /\ ~Replays
  BY <1>1 DEF Replays
<1>10. FileBalance
  <2>1. Passed = {}
    <3>1. DOMAIN Records = 1 .. Len(Records) /\ Len(Records) \in Nat
      BY <1>3, SourceFacts
    <3>2. QED
      BY <1>1, <3>1 DEF Passed
  <2>2. QED
    BY <1>1, <1>2, <1>7, <1>8, <1>9, <2>1 DEF FileBalance
<1>11. CacheBalance
  <2>1. \A r : Cardinality(Places(recorded_cache_, DOMAIN recorded_cache_, r)) = 0
    BY <1>8, <1>9
  <2>2. QED
    BY <1>1, <1>2, <1>7, <1>9, <2>1 DEF CacheBalance
<1>12. ReplayBalance
  BY <1>9 DEF ReplayBalance
<1>13. QED
  BY <1>3, <1>4, <1>5, <1>6, <1>10, <1>11, <1>12 DEF ReaderInv

LEMMA ThreadStepInv ==
  ASSUME ReaderInv, NEW t \in Threads, ThreadStep(t)
  PROVE  ReaderInv'
<1>1. pc \in [Threads -> PCs] /\ stopped \in BOOLEAN
  BY DEF ReaderInv, TypeOK
<1>2. ASSUME GoesOn(t)
      PROVE  ReaderInv'
  BY <1>2, GoesOnInv
<1>3. ASSUME ReadsFile(t)
      PROVE  ReaderInv'
  BY <1>3, ReadsFileType, ReadsFileBalance DEF ReaderInv
<1>4. CASE TestEnd(t)
  <2>1. GoesOn(t)
    BY <1>1, <1>4 DEF TestEnd, GoesOn, InHand, PCs, folding, history
  <2>2. QED
    BY <1>2, <2>1
<1>5. CASE Stop(t)
  <2>1. GoesOn(t)
    BY <1>1, <1>5 DEF Stop, GoesOn, InHand, PCs, folding
  <2>2. QED
    BY <1>2, <2>1
<1>6. CASE LockFolds(t)
  <2>1. GoesOn(t)
    BY <1>1, <1>6 DEF LockFolds, GoesOn, InHand, PCs, history
  <2>2. QED
    BY <1>2, <2>1
<1>7. CASE Read(t)
  <2>1. AfterRead \in PCs
    BY DEF AfterRead, PCs
  <2>2. ReadsFile(t)
    BY <1>1, <1>7, <2>1 DEF Read, ReadsFile, folding
  <2>3. QED
    BY <1>3, <2>2
<1>8. ASSUME pc[t] = "fold"
      PROVE  IsFolded /\ ~Replays
  BY <1>8 DEF ReaderInv, ThreadInv, IsFolded
<1>9. CASE SkipRow(t)
  <2>1. ReadsFile(t)
    BY <1>1, <1>8, <1>9 DEF SkipRow, ReadsFile
  <2>2. QED
    BY <1>3, <2>1
<1>10. CASE ReadRow(t)
  <2>1. AfterRead \in PCs
    BY DEF AfterRead, PCs
  <2>2. ReadsFile(t)
    BY <1>1, <1>8, <1>10, <2>1 DEF ReadRow, ReadsFile
  <2>3. QED
    BY <1>3, <2>2
<1>11. CASE Record(t)
  BY <1>11, RecordInv
<1>12. CASE ReadRecorded(t)
  BY <1>12, ReadRecordedInv
<1>13. CASE Deliver(t)
  BY <1>13, DeliverInv
<1>14. QED
  BY <1>4, <1>5, <1>6, <1>7, <1>9, <1>10, <1>11, <1>12, <1>13 DEF ThreadStep

LEMMA StutterKeeps ==
  ASSUME ReaderInv, UNCHANGED vars
  PROVE  ReaderInv'
<1>1. /\ source' = source /\ input' = input /\ pass' = pass /\ pos' = pos /\ eof' = eof
      /\ row_id' = row_id /\ cv_mutex' = cv_mutex
      /\ recorded_cache_' = recorded_cache_ /\ has_recorded_' = has_recorded_ /\ recording_pos' = recording_pos
      /\ pc' = pc /\ record' = record /\ delivered' = delivered /\ stopped' = stopped
  BY DEF vars, fixed, file, folding, cache, thread, history
<1>2. /\ ReachedEnd' = ReachedEnd /\ Passed' = Passed /\ Replayed' = Replayed
      /\ Records' = Records /\ Replays' = Replays /\ Caches' = Caches
      /\ IsFolded' = IsFolded /\ Values' = Values
      /\ \A n : Row(n)' = Row(n)
  BY <1>1, SameEnd DEF fixed, file
<1>3. \A states, r : Held(states, r)' = Held(states, r)
  BY <1>1 DEF Held, Holding
<1>4. TypeOK' /\ EndIsBlank' /\ RowIsCounted' /\ ThreadInv'
  BY <1>1, <1>2 DEF ReaderInv, TypeOK, EndIsBlank, RowIsCounted, ThreadInv
<1>5. FileBalance' /\ CacheBalance' /\ ReplayBalance'
  BY <1>1, <1>2, <1>3 DEF ReaderInv, FileBalance, CacheBalance, ReplayBalance, Places
<1>6. QED
  BY <1>4, <1>5 DEF ReaderInv

\* The accounts of the readers balance in every state.
THEOREM ReaderInvariance == Spec => []ReaderInv
<1>1. Init => ReaderInv
  BY ReaderInitially
<1>2. ReaderInv /\ [Next]_vars => ReaderInv'
  <2>1. SUFFICES ASSUME ReaderInv, [Next]_vars
                 PROVE  ReaderInv'
    OBVIOUS
  <2>2. CASE \E t \in Threads : ThreadStep(t)
    BY <2>1, <2>2, ThreadStepInv
  <2>3. CASE CreateReader
    BY <2>1, <2>3, CreateReaderInv
  <2>4. CASE Finished \/ UNCHANGED vars
    BY <2>1, <2>4, StutterKeeps DEF Finished
  <2>5. QED
    BY <2>1, <2>2, <2>3, <2>4 DEF Next
<1>3. QED
  BY <1>1, <1>2, PTL DEF Spec

\* Some of the places of a sequence, or all of them.
LEMMA FewerPlaces ==
  ASSUME NEW seq, NEW S, IsFiniteSet(S), NEW T \in SUBSET S, NEW r
  PROVE  /\ Cardinality(Places(seq, S, r)) \in Nat /\ Cardinality(Places(seq, T, r)) \in Nat
         /\ Cardinality(Places(seq, T, r)) <= Cardinality(Places(seq, S, r))
<1>1. Places(seq, S, r) \in SUBSET S /\ Places(seq, T, r) \in SUBSET Places(seq, S, r)
  BY DEF Places
<1>2. IsFiniteSet(Places(seq, S, r))
  BY <1>1, FS_Subset
<1>3. IsFiniteSet(Places(seq, T, r)) /\ Cardinality(Places(seq, T, r)) <= Cardinality(Places(seq, S, r))
  BY <1>1, <1>2, FS_Subset
<1>4. QED
  BY <1>2, <1>3, FS_CardinalityType

\* Numbers of which something is in hand.
LEMMA HeldType ==
  ASSUME NEW states, NEW r
  PROVE  Held(states, r) \in Nat
<1>1. Holding(states, r) \in SUBSET Threads
  BY DEF Holding
<1>2. QED
  BY <1>1, FS_Subset, FS_CardinalityType, ReaderAssumption DEF Held

\* Nobody waits when a pass is over, and the end was reached unless somebody
\* has stopped.
LEMMA WhenOver ==
  ASSUME ReaderInv, PassIsOver
  PROVE  /\ \A r : Held(InHand, r) = 0
         /\ stopped \/ ReachedEnd
<1>1. \A t \in Threads : pc[t] \notin InHand
  BY DEF PassIsOver, InHand
<1>2. \A r : Held(InHand, r) = 0
  BY <1>1, NothingHeld
<1>3. PICK t \in Threads : TRUE
  BY ReaderAssumption
<1>4. QED
  BY <1>2, <1>3 DEF ReaderInv, ThreadInv, PassIsOver

LEMMA AccountsGiveRecords == ReaderInv => EachRecordOnce
<1>1. SUFFICES ASSUME ReaderInv, ~Replays
               PROVE  /\ delivered[pass] \sqsubseteq Wanted
                      /\ PassIsOver /\ ~stopped => delivered[pass] = Wanted
  BY DEF EachRecordOnce
<1>2. TypeOK /\ EndIsBlank /\ FileBalance
  BY <1>1 DEF ReaderInv
<1> DEFINE All == {p \in DOMAIN Records : IsWanted(p)}
<1>3. /\ Len(Records) \in Nat /\ DOMAIN Records = 1 .. Len(Records)
      /\ IsFiniteSet(DOMAIN Records)
      /\ \A p \in DOMAIN Records : Records[p] \in Values \union {Blank}
      /\ source.kind \in {"lines", "list"}
  BY <1>2, SourceFacts
<1>4. IsFiniteSet(All) /\ \A p \in All : Records[p] \in Values
  <2>1. All \in SUBSET DOMAIN Records
    OBVIOUS
  <2>2. \A p \in All : Records[p] # Blank
    BY NotWanted
  <2>3. QED
    BY <1>3, <2>1, <2>2, FS_Subset
<1>5. Wanted \in BagsOf(Values) /\ \A r : Copies(Wanted, r) = Cardinality(Places(Records, All, r))
  BY <1>4, CopiesOfPlaces DEF Wanted
<1>6. delivered[pass] \in BagsOf(Values) /\ \A r : Copies(delivered[pass], r) \in Nat
  BY <1>2, DeliveredFacts
<1>7. Passed \in SUBSET All
  BY DEF Passed
<1>8. \A r \in Values : Copies(delivered[pass], r) + Held(InHand, r) = Cardinality(Places(Records, Passed, r))
  BY <1>1, <1>2 DEF FileBalance
<1>9. \A r \in Values : Copies(delivered[pass], r) <= Copies(Wanted, r)
  <2>1. ASSUME NEW r \in Values
        PROVE  Copies(delivered[pass], r) <= Copies(Wanted, r)
    <3>1. /\ Cardinality(Places(Records, All, r)) \in Nat /\ Cardinality(Places(Records, Passed, r)) \in Nat
          /\ Cardinality(Places(Records, Passed, r)) <= Cardinality(Places(Records, All, r))
      BY <1>4, <1>7, FewerPlaces
    <3>2. Held(InHand, r) \in Nat
      BY HeldType
    <3>3. Copies(delivered[pass], r) <= Cardinality(Places(Records, Passed, r))
      BY <1>6, <1>8, <3>1, <3>2
    <3>4. QED
      BY <1>5, <1>6, <3>1, <3>3
  <2>2. QED
    BY <2>1
<1>10. ASSUME PassIsOver, ~stopped
       PROVE  \A r \in Values : Copies(delivered[pass], r) = Copies(Wanted, r)
  <2>1. ReachedEnd /\ \A r : Held(InHand, r) = 0
    BY <1>1, <1>10, WhenOver
  <2>2. \A p \in All : p < pos
    <3>1. CASE source.kind = "lines"
      <4>1. eof
        BY <1>1, <2>1, <3>1 DEF ReachedEnd
      <4>2. \A p \in DOMAIN Records : p >= pos => Records[p] = Blank
        BY <1>2, <4>1 DEF EndIsBlank
      <4>3. \A p \in DOMAIN Records : p >= pos => ~IsWanted(p)
        BY <4>2, NotWanted
      <4>4. QED
        BY <1>2, <1>3, <4>3 DEF TypeOK
    <3>2. CASE source.kind # "lines"
      <4>1. pos > Len(Records)
        BY <1>1, <2>1, <3>2 DEF ReachedEnd
      <4>2. QED
        BY <1>2, <1>3, <4>1 DEF TypeOK
    <3>3. QED
      BY <3>1, <3>2
  <2>3. Passed = All
    BY <2>2 DEF Passed
  <2>4. QED
    BY <1>5, <1>6, <1>8, <2>1, <2>3
<1>11. QED
  BY <1>5, <1>6, <1>9, <1>10, CompareBags

\* Every thread gets other records than the others, and in a pass that runs to
\* its end all the records of the folds are given out.
THEOREM GivesEachRecordOnce == Spec => []EachRecordOnce
BY ReaderInvariance, AccountsGiveRecords, PTL

LEMMA AccountsRepeat == ReaderInv => LaterPassesRepeat
<1>1. SUFFICES ASSUME ReaderInv, Replays
               PROVE  /\ delivered[pass] \sqsubseteq delivered[1]
                      /\ PassIsOver /\ ~stopped => delivered[pass] = delivered[1]
  BY DEF LaterPassesRepeat
<1>2. TypeOK /\ CacheBalance /\ ReplayBalance /\ input.caching /\ pass # 1
  BY <1>1 DEF ReaderInv, Replays, TypeOK
<1> DEFINE D == DOMAIN recorded_cache_
<1>3. D = 1 .. Len(recorded_cache_) /\ Len(recorded_cache_) \in Nat /\ recording_pos \in Nat
  BY <1>2 DEF TypeOK
<1>4. IsFiniteSet(D) /\ Replayed \in SUBSET D
  <2>1. IsFiniteSet(D)
    BY <1>3, FS_Interval
  <2>2. QED
    BY <2>1 DEF Replayed
<1>5. /\ delivered[pass] \in BagsOf(Values) /\ delivered[1] \in BagsOf(Values)
      /\ \A r : Copies(delivered[1], r) \in Nat /\ Copies(delivered[pass], r) \in Nat
  BY <1>2, DeliveredFacts
<1>6. \A r \in Values : Copies(delivered[pass], r) + Held(InHand, r) = Cardinality(Places(recorded_cache_, Replayed, r))
  BY <1>1, <1>2 DEF ReplayBalance
<1>7. \A r \in Values : Copies(delivered[1], r) = Cardinality(Places(recorded_cache_, D, r))
  BY <1>2, <1>5 DEF CacheBalance
<1>8. ASSUME NEW r \in Values
      PROVE  Copies(delivered[pass], r) <= Copies(delivered[1], r)
  <2>1. /\ Cardinality(Places(recorded_cache_, D, r)) \in Nat
        /\ Cardinality(Places(recorded_cache_, Replayed, r)) \in Nat
        /\ Cardinality(Places(recorded_cache_, Replayed, r)) <= Cardinality(Places(recorded_cache_, D, r))
    BY <1>4, FewerPlaces
  <2>2. Held(InHand, r) \in Nat
    BY HeldType
  <2>3. QED
    BY <1>5, <1>6, <1>7, <2>1, <2>2
<1>9. ASSUME PassIsOver, ~stopped
      PROVE  \A r \in Values : Copies(delivered[pass], r) = Copies(delivered[1], r)
  <2>1. ReachedEnd /\ \A r : Held(InHand, r) = 0
    BY <1>1, <1>9, WhenOver
  <2>2. recording_pos > Len(recorded_cache_)
    BY <1>1, <2>1 DEF ReachedEnd
  <2>3. Replayed = D
    BY <1>3, <2>2 DEF Replayed
  <2>4. QED
    BY <1>5, <1>6, <1>7, <2>1, <2>3
<1>10. QED
  BY <1>5, <1>8, <1>9, CompareBags

\* The passes over a cache give out what the first pass gave out, whatever the
\* shuffles and whoever reads.
THEOREM RepeatsFirstPass == Spec => []LaterPassesRepeat
BY ReaderInvariance, AccountsRepeat, PTL
=============================================================================
