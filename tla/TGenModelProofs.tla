-------------------------- MODULE TGenModelProofs --------------------------
(***************************************************************************)
(* The branch loop of TGenModel and the labels it counts, for any set of   *)
(* programs, samples and flags.                                            *)
(***************************************************************************)
EXTENDS TGenModel, FiniteSetTheorems, SequenceTheorems, WellFoundedInduction, TLAPS

\* Every round goes to a smaller id, so that the two add up to no more than
\* the id of the entry that the loop began with.
LoopInv ==
  /\ program \in Programs
  /\ sample \in Samples
  /\ Len(program) # 0 /\ BackwardGotos(program) =>
       /\ pc # "aborted"
       /\ pc = "branch" =>
            /\ program_id \in Ids(program)
            /\ call_length \in Nat
            /\ program_id + call_length < Len(program)

\* A branched program goes to one of the programs that it references.
LEMMA BranchTargetIsReferenced ==
  ASSUME NEW entry, NEW branch_context
  PROVE  BranchTarget(entry, branch_context) \in GetReferencedPrograms(entry)
  BY DEF BranchTarget, GetReferencedPrograms, Range

LEMMA LengthIsNat ==
  ASSUME LoopInv
  PROVE  Len(program) \in Nat
  BY ModelAssumption DEF LoopInv

-----------------------------------------------------------------------------
LEMMA LoopInvStep ==
  ASSUME LoopInv, [Next]_vars
  PROVE  LoopInv'
<1> USE LengthIsNat
<1>1. CASE NextSample
  BY <1>1 DEF LoopInv, NextSample, inputs, Ids
<1>2. CASE NoSuchProgram
  BY <1>2 DEF LoopInv, NoSuchProgram, inputs, Ids
<1>3. CASE TakeBranch
  <2>1. program_id \in Ids(program) /\ IsBranched(program, program_id)
    BY <1>3 DEF TakeBranch, InBranched
  <2>2. ASSUME Len(program) # 0, BackwardGotos(program)
        PROVE  program_id' \in 0 .. program_id - 1
    <3>1. program_id' \in GetReferencedPrograms(Entry(program, program_id))
      BY <1>3, BranchTargetIsReferenced DEF TakeBranch, GetSubmodelBranch
    <3> QED
      BY <2>1, <2>2, <3>1 DEF BackwardGotos
  <2>3. /\ program' = program /\ sample' = sample /\ pc = "branch"
        /\ call_length' = call_length + 1
        /\ pc' = IF call_length' <= Len(program) THEN "branch" ELSE "aborted"
    BY <1>3 DEF TakeBranch, InBranched, inputs
  <2>4. ASSUME Len(program) # 0, BackwardGotos(program)
        PROVE  /\ pc' # "aborted"
               /\ program_id' \in Ids(program)
               /\ call_length' \in Nat
               /\ program_id' + call_length' < Len(program)
    <3>1. /\ program_id \in Ids(program) /\ call_length \in Nat
          /\ program_id + call_length < Len(program)
      BY <2>3, <2>4 DEF LoopInv
    <3> QED
      BY <2>2, <2>3, <2>4, <3>1 DEF Ids
  <2> QED
    BY <2>3, <2>4 DEF LoopInv, BackwardGotos
<1>4. CASE TrainOneSample
  BY <1>4 DEF LoopInv, TrainOneSample, inputs
<1>5. CASE GenerativeEndTraining
  BY <1>5 DEF LoopInv, GenerativeEndTraining, inputs
<1>6. CASE AddSample
  BY <1>6 DEF LoopInv, AddSample, inputs
<1>7. CASE GetComputedValue
  BY <1>7 DEF LoopInv, GetComputedValue, inputs
<1>8. CASE NoDelta
  BY <1>8 DEF LoopInv, NoDelta, inputs
<1>9. CASE UNCHANGED vars
  BY <1>9 DEF LoopInv, vars, inputs
<1> QED
  BY <1>1, <1>2, <1>3, <1>4, <1>5, <1>6, <1>7, <1>8, <1>9 DEF Next, Step, Terminated

(***************************************************************************)
(* The branch loop takes smaller and smaller ids, in every program with    *)
(* gotos that go back.                                                     *)
(***************************************************************************)
THEOREM LoopInvariance == Spec => []LoopInv
<1>1. Init => LoopInv
  BY ModelAssumption DEF Init, LoopInv
<1>2. LoopInv /\ [Next]_vars => LoopInv'
  BY LoopInvStep
<1> QED
  BY <1>1, <1>2, PTL DEF Spec

(***************************************************************************)
(* The limit on call_length and the CHECKs on ids stop no such program,    *)
(* however many programs there are and however they branch.                *)
(***************************************************************************)
THEOREM LimitIsNotReached == Spec => []ChecksHold
<1>1. LoopInv => ChecksHold
  BY DEF LoopInv, ChecksHold
<1> QED
  BY <1>1, LoopInvariance, PTL

-----------------------------------------------------------------------------
\* A type, negative ones included, takes the lower bits of the int.
LEMMA TypeInField ==
  ASSUME NEW type \in TypeIds
  PROVE  /\ type >= 0 => type % TypeField = type
         /\ type < 0 => type % TypeField = type + TypeField
  BY TypeBitAssumption, SMTT(30) DEF TypeIds, TypeField

\* The int tells the type and the two links apart.
LEMMA EncodeTypeLabelIsInjective ==
  ASSUME NEW type \in TypeIds, NEW fc \in BOOLEAN, NEW rs \in BOOLEAN,
         NEW type2 \in TypeIds, NEW fc2 \in BOOLEAN, NEW rs2 \in BOOLEAN,
         EncodeTypeLabel(type, fc, rs) = EncodeTypeLabel(type2, fc2, rs2)
  PROVE  type = type2 /\ fc = fc2 /\ rs = rs2
<1> DEFINE low == type % TypeField
           low2 == type2 % TypeField
<1>1. low \in 0 .. TypeField - 1 /\ low2 \in 0 .. TypeField - 1
  BY TypeInField, TypeBitAssumption DEF TypeField, TypeIds
<1>2. low = low2 => type = type2
  BY TypeInField, TypeBitAssumption DEF TypeField, TypeIds
<1>3. TypeField \in Nat \ {0}
  BY TypeBitAssumption DEF TypeField
<1>4. low = low2 /\ fc = fc2 /\ rs = rs2
  <2> HIDE DEF low, low2
  <2>1. AsInt(low + (IF fc THEN TypeField ELSE 0) + (IF rs THEN 2 * TypeField ELSE 0))
        = AsInt(low2 + (IF fc2 THEN TypeField ELSE 0) + (IF rs2 THEN 2 * TypeField ELSE 0))
    BY DEF EncodeTypeLabel, low, low2
  <2> QED
    BY <1>1, <1>3, <2>1, SMTT(30) DEF AsInt, UintRange
<1> QED
  BY <1>2, <1>4

-----------------------------------------------------------------------------
Less == {ss \in Nat \X Nat : ss[1] < ss[2]}

\* A set of naturals has a minimum, and Min is that.
LEMMA MinIsInSet ==
  ASSUME NEW S \in SUBSET Nat, S # {}
  PROVE  Min(S) \in S /\ \A y \in S : Min(S) <= y
<1>1. IsWellFoundedOn(Less, Nat)
  <2>1. OpToRel(<, Nat) = Less
    BY DEF OpToRel, Less
  <2> QED
    BY <2>1, NatLessThanWellFounded
<1>2. PICK x \in S : \A y \in S : ~(<<y, x>> \in Less)
  BY <1>1, WFMin
<1>3. \A y \in S : x =< y
  <2> TAKE y \in S
  <2>1. x \in Nat /\ y \in Nat
    OBVIOUS
  <2>2. ~(y < x)
    BY <1>2, <2>1 DEF Less
  <2> QED
    BY <2>1, <2>2
<1> QED
  BY <1>3 DEF Min

\* An Eq label names one label, and none that a node has itself.
LEMMA EqLabelIsInjective ==
  ASSUME NEW ops, NEW l1 \in Int, NEW l2 \in Int,
         l1 > TEQ_LABEL_INDEX_START, l2 > TEQ_LABEL_INDEX_START,
         EqLabel(l1, ops) = EqLabel(l2, ops)
  PROVE  l1 = l2
<1> DEFINE Met(l) == {i \in 1 .. TEQ_MAX_LABEL_INDEX : i <= Len(ops) /\ ops[i] = l}
<1>1. ASSUME NEW l, Met(l) # {}
      PROVE  Min(Met(l)) \in 1 .. TEQ_MAX_LABEL_INDEX /\ ops[Min(Met(l))] = l
  <2>1. Met(l) \in SUBSET Nat
    BY ModelAssumption
  <2>2. Min(Met(l)) \in Met(l)
    <3> HIDE DEF Met
    <3> QED
      BY <1>1, <2>1, MinIsInSet
  <2> QED
    BY <2>2
<1>2. ASSUME NEW l
      PROVE  EqLabel(l, ops) = IF l \in Nat /\ Met(l) # {}
                               THEN TEQ_LABEL_INDEX_START - (Min(Met(l)) - 1) ELSE l
  BY DEF EqLabel
<1> HIDE DEF Met
<1> QED
  BY <1>1, <1>2, ModelAssumption

\* What the label of a node may be, before and after the Eq program.
NodeLabels == {l \in TypeIds : l > TEQ_LABEL_INDEX_START}
CountedLabel(l, ops) == IF flags.enable_teq THEN EqLabel(l, ops) ELSE l

LEMMA CountedLabelFits ==
  ASSUME NEW l \in NodeLabels, NEW ops
  PROVE  CountedLabel(l, ops) \in TypeIds
<1> DEFINE met == {i \in 1 .. TEQ_MAX_LABEL_INDEX : i <= Len(ops) /\ ops[i] = l}
<1>1. met # {} => Min(met) \in 1 .. TEQ_MAX_LABEL_INDEX
  <2>1. met \in SUBSET Nat
    BY ModelAssumption
  <2>2. met \in SUBSET (1 .. TEQ_MAX_LABEL_INDEX)
    OBVIOUS
  <2> HIDE DEF met
  <2> QED
    BY <2>1, <2>2, MinIsInSet
<1>2. EqLabel(l, ops) = IF l \in Nat /\ met # {} THEN TEQ_LABEL_INDEX_START - (Min(met) - 1) ELSE l
  BY DEF EqLabel
<1> HIDE DEF met
<1> QED
  BY <1>1, <1>2, ModelAssumption, TypeBitAssumption DEF CountedLabel, NodeLabels, TypeIds

LEMMA CountedLabelIsInjective ==
  ASSUME NEW ops, NEW l1 \in NodeLabels, NEW l2 \in NodeLabels,
         CountedLabel(l1, ops) = CountedLabel(l2, ops)
  PROVE  l1 = l2
<1>1. /\ l1 \in Int /\ l2 \in Int
      /\ l1 > TEQ_LABEL_INDEX_START /\ l2 > TEQ_LABEL_INDEX_START
  BY TypeBitAssumption DEF NodeLabels, TypeIds
<1> QED
  BY <1>1, EqLabelIsInjective DEF CountedLabel

(***************************************************************************)
(* Two labels that a node could have are counted as different ones, as     *)
(* long as node labels are above Eq labels and all fit the type field.     *)
(***************************************************************************)
THEOREM CountedLabelsAreDistinct == Spec => []EncodedLabelsAreDistinct
<1>1. ASSUME LoopInv, AtSubmodel,
             NEW label \in {s.label : s \in Samples}, NEW fc \in BOOLEAN, NEW rs \in BOOLEAN,
             GetLabelAtPosition(program_id,
               [label |-> label, has_first_child |-> fc, has_right_sib |-> rs,
                features |-> sample.features])
             = GetLabelAtPosition(program_id, sample)
      PROVE  /\ label = sample.label
             /\ flags.is_for_node_type => fc = sample.has_first_child /\ rs = sample.has_right_sib
  <2> DEFINE other == [label |-> label, has_first_child |-> fc, has_right_sib |-> rs,
                       features |-> sample.features]
             ops == ExecuteEqProgramByIdInAll(program_id, sample)
             l1 == CountedLabel(label, ops)
             l2 == CountedLabel(sample.label, ops)
  <2>1. /\ sample.label \in NodeLabels /\ label \in NodeLabels
        /\ sample.has_first_child \in BOOLEAN /\ sample.has_right_sib \in BOOLEAN
    BY <1>1, ModelAssumption DEF LoopInv, NodeLabels
  <2>1a. ExecuteEqProgramByIdInAll(program_id, other) = ops
    <3>0. \A i : GetSubmodelBranch(i, other) = GetSubmodelBranch(i, sample)
      BY DEF GetSubmodelBranch, Execute
    <3>1. Reached(program_id, other) = Reached(program_id, sample)
      <4>1. \A S : Closed(S, other) <=> Closed(S, sample)
        <5> HIDE DEF other
        <5> QED
          BY <3>0 DEF Closed
      <4> HIDE DEF other
      <4> QED
        BY <4>1 DEF Reached
    <3>2. SubmodelFrom(program_id, other) = SubmodelFrom(program_id, sample)
      <4> HIDE DEF other
      <4> QED
        BY <3>1 DEF SubmodelFrom
    <3> QED
      BY <3>2 DEF ExecuteEqProgramByIdInAll, Execute
  <2>2. GetLabelAtPosition(program_id, other)
        = IF flags.is_for_node_type THEN EncodeTypeLabel(l1, fc, rs) ELSE l1
    BY <2>1a DEF GetLabelAtPosition, CountedLabel
  <2>3. GetLabelAtPosition(program_id, sample)
        = IF flags.is_for_node_type
          THEN EncodeTypeLabel(l2, sample.has_first_child, sample.has_right_sib) ELSE l2
    BY DEF GetLabelAtPosition, CountedLabel
  <2>4. l1 \in TypeIds /\ l2 \in TypeIds
    BY <2>1, CountedLabelFits
  <2>5. l1 = l2 => label = sample.label
    BY <2>1, CountedLabelIsInjective
  <2> HIDE DEF other, l1, l2, ops
  <2>6. CASE flags.is_for_node_type
    <3>1. EncodeTypeLabel(l1, fc, rs)
          = EncodeTypeLabel(l2, sample.has_first_child, sample.has_right_sib)
      BY <1>1, <2>2, <2>3, <2>6 DEF other
    <3>2. l1 = l2 /\ fc = sample.has_first_child /\ rs = sample.has_right_sib
      BY <2>1, <2>4, <3>1, EncodeTypeLabelIsInjective
    <3> QED
      BY <2>5, <3>2
  <2>7. CASE ~flags.is_for_node_type
    BY <1>1, <2>2, <2>3, <2>5, <2>7 DEF other
  <2> QED
    BY <2>6, <2>7
<1>2. LoopInv => EncodedLabelsAreDistinct
  BY <1>1 DEF EncodedLabelsAreDistinct
<1> QED
  BY <1>2, LoopInvariance, PTL

-----------------------------------------------------------------------------
\* Division with remainder has one result, also below zero.
LEMMA DivisionIs ==
  ASSUME NEW n \in Int, NEW f \in Nat \ {0}, NEW q \in Int, NEW r \in 0 .. f - 1, n = f * q + r
  PROVE  n % f = r /\ n \div f = q
<1> DEFINE d == n \div f
           m == n % f
<1>1. m \in 0 .. f - 1 /\ d \in Int /\ n = f * d + m
  OBVIOUS
<1> HIDE DEF d, m
<1>2. f * (d - q) = r - m
  BY <1>1
<1>3. ASSUME NEW e \in Int, f * e = r - m
      PROVE  e = 0
  <2>1. CASE e >= 1
    <3>1. f * e >= f
      BY <2>1
    <3> QED
      BY <1>1, <1>3, <3>1
  <2>2. CASE e =< -1
    <3>1. f * e =< -f
      BY <2>2
    <3> QED
      BY <1>1, <1>3, <3>1
  <2> QED
    BY <2>1, <2>2
<1>4. d - q \in Int
  BY <1>1
<1>5. d - q = 0
  BY <1>2, <1>3, <1>4
<1>6. d = q /\ m = r
  BY <1>1, <1>5
<1> QED
  BY <1>6 DEF d, m

\* A field of f values and four choices of the two links above it.
LEMMA LinksAboveField ==
  ASSUME NEW f \in Nat \ {0}, NEW low \in 0 .. f - 1, NEW links \in 0 .. 3,
         NEW y \in Int, y = f * links + low
  PROVE  /\ y \in 0 .. 4 * f - 1
         /\ y % f = low /\ y \div f = links
         /\ y >= 2 * f <=> links >= 2
<1>1. y % f = low /\ y \div f = links
  BY DivisionIs
<1>2. f * links \in {0, f, 2 * f, 3 * f} /\ (links >= 2 <=> f * links \in {2 * f, 3 * f})
  <2>1. links = 0 \/ links = 1 \/ links = 2 \/ links = 3
    OBVIOUS
  <2> QED
    BY <2>1
<1> DEFINE high == f * links
<1>3. y = high + low /\ high \in {0, f, 2 * f, 3 * f} /\ (links >= 2 <=> high \in {2 * f, 3 * f})
  BY <1>2
<1> HIDE DEF high
<1>4. y \in 0 .. 4 * f - 1 /\ (y >= 2 * f <=> links >= 2)
  BY <1>3
<1> QED
  BY <1>1, <1>4

\* An int whose upper half is below zero, read as unsigned again.
LEMMA UnsignedAgain ==
  ASSUME NEW half \in Nat \ {0}, NEW y \in 0 .. 2 * half - 1
  PROVE  (IF y >= half THEN y - 2 * half ELSE y) % (2 * half) = y
<1>1. 2 * half \in Nat \ {0} /\ y \in 0 .. (2 * half) - 1
  OBVIOUS
<1>2. y - 2 * half = (2 * half) * (-1) + y /\ y - 2 * half \in Int
  OBVIOUS
<1>3. y = (2 * half) * 0 + y /\ y \in Int
  OBVIOUS
<1>4. (y - 2 * half) % (2 * half) = y
  BY <1>1, <1>2, DivisionIs
<1>5. y % (2 * half) = y
  BY <1>1, <1>3, DivisionIs
<1> QED
  BY <1>4, <1>5

\* The two links are the upper bits of the int, the right sibling its sign.
LEMMA DecodeIsInverse ==
  ASSUME NEW type \in TypeIds, NEW fc \in BOOLEAN, NEW rs \in BOOLEAN
  PROVE  DecodeTypeLabel(EncodeTypeLabel(type, fc, rs))
         = [type |-> type, has_first_child |-> fc, has_right_sib |-> rs]
<1> DEFINE low == type % TypeField
           links == (IF fc THEN 1 ELSE 0) + (IF rs THEN 2 ELSE 0)
           y == low + (IF fc THEN TypeField ELSE 0) + (IF rs THEN 2 * TypeField ELSE 0)
           x == EncodeTypeLabel(type, fc, rs) % UintRange
<1>1. TypeField \in Nat \ {0}
  BY TypeBitAssumption DEF TypeField
<1>2. /\ low \in 0 .. TypeField - 1
      /\ type = IF low >= TypeBit THEN low - TypeField ELSE low
  BY TypeInField, TypeBitAssumption DEF TypeField, TypeIds
<1>3. x = AsInt(y) % UintRange
  BY DEF EncodeTypeLabel
<1>4. links \in 0 .. 3 /\ y = TypeField * links + low /\ y \in Int
  <2> HIDE DEF low
  <2> QED
    BY <1>1, <1>2
<1>5. (links % 2 = 1) = fc /\ (links >= 2) = rs
  OBVIOUS
<1> HIDE DEF low, y, links
<1>6. /\ y \in 0 .. 4 * TypeField - 1
      /\ y % TypeField = low /\ y \div TypeField = links
      /\ y >= 2 * TypeField <=> links >= 2
  BY <1>1, <1>2, <1>4, LinksAboveField
<1>7. x = y
  <2> DEFINE half == 2 * TypeField
  <2>1. half \in Nat \ {0} /\ UintRange = 2 * half /\ y \in 0 .. 2 * half - 1
    BY <1>1, <1>6 DEF UintRange
  <2>2. AsInt(y) = IF y >= half THEN y - 2 * half ELSE y
    BY <2>1 DEF AsInt
  <2> HIDE DEF half, x
  <2> QED
    BY <1>3, <2>1, <2>2, UnsignedAgain
<1>8. DecodeTypeLabel(EncodeTypeLabel(type, fc, rs))
      = [type            |-> IF x % TypeField >= TypeBit THEN (x % TypeField) - TypeField
                             ELSE x % TypeField,
         has_first_child |-> (x \div TypeField) % 2 = 1,
         has_right_sib   |-> x >= 2 * TypeField]
  BY DEF DecodeTypeLabel
<1> HIDE DEF x
<1>9. (x >= 2 * TypeField) = rs
  BY <1>5, <1>6, <1>7
<1> QED
  BY <1>2, <1>5, <1>6, <1>7, <1>8, <1>9

(***************************************************************************)
(* What is counted for a node type decodes to the type, or the Eq label    *)
(* that stands for it, and the two links of the node: the field of the     *)
(* type is wide enough, and the sign of the int is not lost.               *)
(***************************************************************************)
THEOREM TypeLabelsDecode == Spec => []LabelsDecode
<1>1. ASSUME LoopInv, AtSubmodel, flags.is_for_node_type
      PROVE  LET ops == IF flags.enable_teq THEN ExecuteEqProgramByIdInAll(program_id, sample)
                        ELSE <<>>
             IN DecodeTypeLabel(GetLabelAtPosition(program_id, sample))
                = [type            |-> EqLabel(sample.label, ops),
                   has_first_child |-> sample.has_first_child,
                   has_right_sib   |-> sample.has_right_sib]
  <2> DEFINE eqOps == ExecuteEqProgramByIdInAll(program_id, sample)
             ops == IF flags.enable_teq THEN eqOps ELSE <<>>
             label == CountedLabel(sample.label, eqOps)
  <2>1. /\ sample.label \in NodeLabels
        /\ sample.has_first_child \in BOOLEAN /\ sample.has_right_sib \in BOOLEAN
    BY <1>1, ModelAssumption DEF LoopInv, NodeLabels
  <2>2. label \in TypeIds
    BY <2>1, CountedLabelFits
  <2>3. label = EqLabel(sample.label, ops)
    <3>1. EqLabel(sample.label, <<>>) = sample.label
      <4>1. {n \in 1 .. TEQ_MAX_LABEL_INDEX : n <= Len(<<>>) /\ <<>>[n] = sample.label} = {}
        OBVIOUS
      <4> QED
        BY <4>1, Zenon DEF EqLabel
    <3> QED
      BY <3>1, Zenon DEF CountedLabel
  <2>4. GetLabelAtPosition(program_id, sample)
        = EncodeTypeLabel(label, sample.has_first_child, sample.has_right_sib)
    BY <1>1 DEF GetLabelAtPosition, CountedLabel
  <2> HIDE DEF label
  <2>5. DecodeTypeLabel(GetLabelAtPosition(program_id, sample))
        = [type |-> label, has_first_child |-> sample.has_first_child,
           has_right_sib |-> sample.has_right_sib]
    BY <2>1, <2>2, <2>4, DecodeIsInverse
  <2> QED
    BY <2>3, <2>5
<1>2. LoopInv => LabelsDecode
  BY <1>1 DEF LabelsDecode
<1> QED
  BY <1>2, LoopInvariance, PTL
-----------------------------------------------------------------------------
(***************************************************************************)
(* The counters. What is added for a sample is added where the gotos lead  *)
(* it from the last entry; the invariant of the loop says which entries it *)
(* has passed.                                                             *)
(***************************************************************************)
Last_ == Len(program) - 1
Target(id, s) == GetSubmodelBranch(id, s)

\* P has the entries from the last one to that of the program id.
LeadsTo(P, id, s) ==
  /\ Last_ \in P /\ id \in P
  /\ \A q \in P \ {id} : IsBranched(program, q) /\ Target(q, s) \in P

PathInv ==
  pc = "branch" /\ program_id \in Ids(program) =>
    /\ program_id \in Reached(Last_, sample)
    /\ \E P \in SUBSET Ids(program) : LeadsTo(P, program_id, sample)

\* What the trained samples have added to the counter of id.
Mine(id) == {s \in DOMAIN trained : Submodel(s) = id}
FeaturePlaces(id, s, f) == {n \in DOMAIN FeaturesOf(id, s) : FeaturesOf(id, s)[n] = f}
Added(id) == UNION {Range(FeaturesOf(id, s)) \X {GetLabelAtPosition(id, s)} : s \in Mine(id)}
TimesOf(id, s, e) == ({s} \X (1 .. trained[s])) \X FeaturePlaces(id, s, e[1])
Times_(id, e) ==
  UNION {TimesOf(id, s, e) : s \in {t \in Mine(id) : GetLabelAtPosition(id, t) = e[2]}}

CountInv ==
  /\ DOMAIN trained \subseteq Samples
  /\ \A s \in DOMAIN trained : trained[s] \in Nat
  /\ \A id \in Ids(program) : \A e : IsFiniteSet(Times_(id, e))
  /\ counts = [id \in Ids(program) |-> [e \in Added(id) |-> Cardinality(Times_(id, e))]]

ModelInv == LoopInv /\ PathInv /\ CountInv

-----------------------------------------------------------------------------
\* The gotos lead to one submodel at most.
LEMMA PathEndsAtSubmodel ==
  ASSUME PathInv, AtSubmodel, program \in Programs
  PROVE  Submodel(sample) = program_id
<1>1. program_id \in Ids(program) /\ program_id \in Reached(Last_, sample)
  BY DEF PathInv, AtSubmodel
<1>2. PICK P \in SUBSET Ids(program) : LeadsTo(P, program_id, sample)
  BY DEF PathInv, AtSubmodel
<1>3. ~IsBranched(program, program_id)
  BY DEF AtSubmodel
<1>4. Closed(P, sample)
  BY <1>2, <1>3 DEF LeadsTo, Closed, Target
<1>5. ASSUME NEW leaf \in Reached(Last_, sample), ~IsBranched(program, leaf)
      PROVE  leaf = program_id
  <2>1. leaf \in P
    BY <1>2, <1>4, <1>5 DEF Reached, LeadsTo
  <2> QED
    BY <1>2, <1>5, <2>1 DEF LeadsTo
<1>6. CASE IsBranched(program, Last_)
  <2>1. Submodel(sample) = CHOOSE leaf \in Reached(Last_, sample) : ~IsBranched(program, leaf)
    BY <1>6 DEF Submodel, SubmodelFrom, Last_
  <2> QED
    BY <1>1, <1>3, <1>5, <2>1
<1>7. CASE ~IsBranched(program, Last_)
  <2>1. Submodel(sample) = Last_
    BY <1>7 DEF Submodel, SubmodelFrom, Last_
  <2>2. Last_ = program_id
    BY <1>2, <1>7 DEF LeadsTo
  <2> QED
    BY <2>1, <2>2
<1> QED
  BY <1>6, <1>7

\* What is said of a sample depends on the inputs only.
LEMMA SamplesStay ==
  ASSUME UNCHANGED inputs, NEW id, NEW s
  PROVE  /\ Ids(program)' = Ids(program) /\ Last_' = Last_
         /\ IsBranched(program, id)' = IsBranched(program, id)
         /\ GetSubmodelBranch(id, s)' = GetSubmodelBranch(id, s)
         /\ FeaturesOf(id, s)' = FeaturesOf(id, s)
         /\ GetLabelAtPosition(id, s)' = GetLabelAtPosition(id, s)
         /\ Submodel(s)' = Submodel(s)
         /\ Reached(id, s)' = Reached(id, s)
<1>1. program' = program /\ flags' = flags /\ fingerprint' = fingerprint
  BY DEF inputs
<1>2. /\ Ids(program)' = Ids(program) /\ Last_' = Last_
      /\ IsBranched(program, id)' = IsBranched(program, id)
  BY <1>1 DEF Ids, Last_, IsBranched
<1>3. GetSubmodelBranch(id, s)' = GetSubmodelBranch(id, s)
  BY <1>1 DEF GetSubmodelBranch
<1>4. \A i : Reached(i, s)' = Reached(i, s)
  BY <1>1 DEF Reached, Closed, GetSubmodelBranch
<1>5. ASSUME NEW i
      PROVE  SubmodelFrom(i, s)' = SubmodelFrom(i, s)
  <2>1. Reached(i, s)' = Reached(i, s)
    BY <1>4
  <2> QED
    BY <1>1, <2>1 DEF SubmodelFrom
<1>6. FeaturesOf(id, s)' = FeaturesOf(id, s)
  BY <1>1, <1>5 DEF FeaturesOf, ExecuteContextProgramByIdInAll
<1>7. GetLabelAtPosition(id, s)' = GetLabelAtPosition(id, s)
  BY <1>1, <1>5 DEF GetLabelAtPosition, ExecuteEqProgramByIdInAll
<1>8. Submodel(s)' = Submodel(s)
  BY <1>1, <1>5 DEF Submodel
<1> QED
  BY <1>2, <1>3, <1>4, <1>6, <1>7, <1>8
LEMMA FeaturesAre ==
  ASSUME program \in Programs, NEW id \in Ids(program), ~IsBranched(program, id), NEW s \in Samples
  PROVE  /\ \E n \in Nat : DOMAIN FeaturesOf(id, s) = 1 .. n + 1
         /\ FeaturesOf(id, s)[1] = 0
         /\ \A f : IsFiniteSet(FeaturePlaces(id, s, f))
<1> DEFINE n == Len(s.features[Entry(program, id).context_program])
<1>1. n \in Nat
  BY ModelAssumption
<1>2. ExecuteContextProgramByIdInAll(id, s) = s.features[Entry(program, id).context_program]
  BY DEF ExecuteContextProgramByIdInAll, SubmodelFrom, Execute
<1>3. DOMAIN FeaturesOf(id, s) = 1 .. n + 1
  BY <1>2 DEF FeaturesOf
<1>4. FeaturesOf(id, s)[1] = 0
  BY <1>1, <1>2 DEF FeaturesOf
<1> HIDE DEF n
<1>5. IsFiniteSet(1 .. n + 1)
  BY <1>1, FS_Interval
<1>6. ASSUME NEW f
      PROVE  IsFiniteSet(FeaturePlaces(id, s, f))
  BY <1>3, <1>5, FS_Subset DEF FeaturePlaces
<1> QED
  BY <1>1, <1>3, <1>4, <1>6

LEMMA PathInvStep ==
  ASSUME ModelInv, [Next]_vars
  PROVE  PathInv'
<1>1. CASE NextSample
  <2>1. /\ pc' = "branch" /\ program_id' = Last_ /\ UNCHANGED inputs
    BY <1>1 DEF NextSample, Last_
  <2>2. ASSUME Last_ \in Ids(program)
        PROVE  /\ Last_ \in Reached(Last_, sample')
               /\ LeadsTo({Last_}, Last_, sample')
    BY <2>2 DEF Reached, LeadsTo
  <2>3. /\ Ids(program)' = Ids(program) /\ Last_' = Last_ /\ program' = program
        /\ Reached(Last_, sample)' = Reached(Last_, sample')
    BY <2>1 DEF inputs, Ids, Last_, Reached, Closed, GetSubmodelBranch
  <2>4. ASSUME Last_ \in Ids(program)
        PROVE  LeadsTo({Last_}, program_id, sample)'
    BY <2>1, <2>3 DEF LeadsTo
  <2> QED
    BY <2>1, <2>2, <2>3, <2>4, Zenon DEF PathInv
<1>2. CASE TakeBranch
  <2>1. /\ pc = "branch" /\ program_id \in Ids(program) /\ IsBranched(program, program_id)
        /\ program_id' = Target(program_id, sample) /\ UNCHANGED <<inputs, sample>>
    BY <1>2 DEF TakeBranch, InBranched, Target
  <2>2. /\ program_id \in Reached(Last_, sample)
        /\ \E P \in SUBSET Ids(program) : LeadsTo(P, program_id, sample)
    BY <2>1 DEF ModelInv, PathInv
  <2>3. PICK P \in SUBSET Ids(program) : LeadsTo(P, program_id, sample)
    BY <2>2
  <2>4. ASSUME program_id' \in Ids(program)
        PROVE  /\ program_id' \in Reached(Last_, sample)
               /\ LeadsTo(P \union {program_id'}, program_id', sample)
    <3>1. program_id' \in Reached(Last_, sample)
      BY <2>1, <2>2, <2>4 DEF Reached, Closed, Target
    <3>2. LeadsTo(P \union {program_id'}, program_id', sample)
      BY <2>1, <2>3 DEF LeadsTo
    <3> QED
      BY <3>1, <3>2
  <2>5. /\ Ids(program)' = Ids(program) /\ Last_' = Last_
        /\ Reached(Last_, sample)' = Reached(Last_, sample)
        /\ \A Q : LeadsTo(Q, program_id, sample)' <=> LeadsTo(Q, program_id', sample)
    <3>1. program' = program /\ sample' = sample
      BY <2>1 DEF inputs
    <3> QED
      BY <3>1 DEF Ids, Last_, Reached, Closed, GetSubmodelBranch, LeadsTo, Target
  <2>6. ASSUME program_id' \in Ids(program)
        PROVE  P \union {program_id'} \in SUBSET Ids(program)
    BY <2>6
  <2> QED
    BY <2>4, <2>5, <2>6 DEF PathInv
<1>3. CASE pc' # "branch"
  BY <1>3 DEF PathInv
<1>4. CASE UNCHANGED <<inputs, pc, program_id, sample>>
  <2>1. PathInv
    BY DEF ModelInv
  <2> QED
    BY <1>4, <2>1 DEF inputs, PathInv, Ids, Last_, Reached, Closed, GetSubmodelBranch, LeadsTo, Target
<1>5. CASE NoSuchProgram
  BY <1>3, <1>5 DEF NoSuchProgram
<1>6. CASE TrainOneSample \/ AddSample
  BY <1>3, <1>6 DEF TrainOneSample, AddSample
<1>7. CASE NoDelta
  BY <1>3, <1>7 DEF NoDelta
<1>8. CASE GenerativeEndTraining \/ GetComputedValue
  BY <1>4, <1>8 DEF GenerativeEndTraining, GetComputedValue
<1>9. CASE UNCHANGED vars
  BY <1>4, <1>9 DEF vars
<1> QED
  BY <1>1, <1>2, <1>5, <1>6, <1>7, <1>8, <1>9 DEF Next, Step, Terminated

\* The counters are kept by all that trains no sample.
LEMMA CountInvStays ==
  ASSUME CountInv, UNCHANGED <<inputs, counts, trained>>
  PROVE  CountInv'
<1>1. \A id, s : /\ FeaturesOf(id, s)' = FeaturesOf(id, s)
                 /\ GetLabelAtPosition(id, s)' = GetLabelAtPosition(id, s)
                 /\ Submodel(s)' = Submodel(s)
  BY SamplesStay
<1>2. Ids(program)' = Ids(program)
  BY DEF inputs, Ids
<1>3. \A id : Mine(id)' = Mine(id)
  BY <1>1 DEF Mine
<1>4. \A id : Added(id)' = Added(id)
  BY <1>1, <1>3 DEF Added
<1>5. \A id, e : Times_(id, e)' = Times_(id, e)
  <2>1. \A id, s, e : TimesOf(id, s, e)' = TimesOf(id, s, e)
    BY <1>1 DEF TimesOf, FeaturePlaces
  <2> QED
    BY <1>1, <1>3, <2>1 DEF Times_
<1> QED
  BY <1>2, <1>4, <1>5 DEF CountInv
\* What AddValues does to one number.
LEMMA AddValuesIs ==
  ASSUME NEW bag, NEW features, NEW label
  PROVE  LET sum == AddValues(bag, features, label)
             New == Range(features) \X {label}
         IN /\ sum = [e \in DOMAIN bag \union New |-> sum[e]]
            /\ \A e \in DOMAIN bag \union New :
                 sum[e] = (IF e \in DOMAIN bag THEN bag[e] ELSE 0)
                          + (IF e \in New THEN Cardinality({n \in DOMAIN features : features[n] = e[1]})
                             ELSE 0)
  BY DEF AddValues, (+)

LEMMA CountInvStep ==
  ASSUME ModelInv, [Next]_vars
  PROVE  CountInv'
<1>1. CASE TrainOneSample
  <2> DEFINE l == GetLabelAtPosition(program_id, sample)
             fs == FeaturesOf(program_id, sample)
             k == trained'[sample]
             more(e) == ({sample} \X {k}) \X FeaturePlaces(program_id, sample, e[1])
  <2>1. /\ AtSubmodel /\ UNCHANGED <<inputs, sample, program_id>>
        /\ program \in Programs /\ sample \in Samples
        /\ program_id \in Ids(program) /\ ~IsBranched(program, program_id)
        /\ Submodel(sample) = program_id
    BY <1>1, PathEndsAtSubmodel DEF TrainOneSample, ModelInv, LoopInv, AtSubmodel
  <2>2. /\ counts' = [counts EXCEPT ![program_id] = AddValues(@, fs, l)]
        /\ trained' = trained (+) SetToBag({sample})
    BY <1>1 DEF TrainOneSample
  <2>3. /\ DOMAIN trained \subseteq Samples
        /\ \A s \in DOMAIN trained : trained[s] \in Nat
        /\ \A id \in Ids(program) : \A e : IsFiniteSet(Times_(id, e))
        /\ counts = [id \in Ids(program) |-> [e \in Added(id) |-> Cardinality(Times_(id, e))]]
    BY DEF ModelInv, CountInv
  <2>4. /\ DOMAIN trained' = DOMAIN trained \union {sample}
        /\ \A s \in DOMAIN trained \ {sample} : trained'[s] = trained[s]
        /\ k \in Nat /\ sample \in DOMAIN trained' /\ k >= 1
        /\ sample \in DOMAIN trained => k = trained[sample] + 1
        /\ sample \notin DOMAIN trained => k = 1
    BY <2>2, <2>3 DEF (+), SetToBag
  <2>5. \A id, s : /\ FeaturesOf(id, s)' = FeaturesOf(id, s)
                   /\ GetLabelAtPosition(id, s)' = GetLabelAtPosition(id, s)
                   /\ Submodel(s)' = Submodel(s)
    BY <2>1, SamplesStay
  <2>6. Ids(program)' = Ids(program)
    BY <2>1 DEF inputs, Ids
  <2>8. ASSUME NEW id \in Ids(program) \ {program_id}
        PROVE  /\ Mine(id)' = Mine(id) /\ Added(id)' = Added(id)
               /\ \A e : Times_(id, e)' = Times_(id, e)
    <3>1. Mine(id)' = Mine(id) /\ sample \notin Mine(id)
      BY <2>1, <2>4, <2>5 DEF Mine
    <3>2. \A e : \A s \in Mine(id) : TimesOf(id, s, e)' = TimesOf(id, s, e)
      BY <2>4, <2>5, <3>1 DEF TimesOf, FeaturePlaces, Mine
    <3>3. Added(id)' = Added(id)
      BY <2>5, <3>1 DEF Added
    <3> QED
      BY <2>5, <3>1, <3>2, <3>3 DEF Times_
  <2>9. Mine(program_id)' = Mine(program_id) \union {sample}
    BY <2>1, <2>4, <2>5 DEF Mine
  <2>10. Added(program_id)' = Added(program_id) \union (Range(fs) \X {l})
    <3>1. Added(program_id)' = UNION {Range(FeaturesOf(program_id, s)) \X {GetLabelAtPosition(program_id, s)} :
                                        s \in Mine(program_id) \union {sample}}
      BY <2>1, <2>5, <2>9 DEF Added
    <3> QED
      BY <3>1, Zenon DEF Added
  <2>11. ASSUME NEW e
         PROVE  Times_(program_id, e)'
                = IF e[2] = l THEN Times_(program_id, e) \union more(e) ELSE Times_(program_id, e)
    <3> DEFINE labelled == {t \in Mine(program_id) : GetLabelAtPosition(program_id, t) = e[2]}
               later(s) == ({s} \X (1 .. trained'[s])) \X FeaturePlaces(program_id, s, e[1])
    <3>1. Times_(program_id, e)'
          = UNION {later(s) : s \in {t \in Mine(program_id) \union {sample} :
                                       GetLabelAtPosition(program_id, t) = e[2]}}
      BY <2>1, <2>5, <2>9 DEF Times_, TimesOf, FeaturePlaces
    <3>2. \A s \in Mine(program_id) \ {sample} : later(s) = TimesOf(program_id, s, e)
      BY <2>4 DEF TimesOf, Mine
    <3>3. later(sample) = (IF sample \in Mine(program_id) THEN TimesOf(program_id, sample, e) ELSE {})
                          \union more(e)
      <4>1. CASE sample \in Mine(program_id)
        <5>1. 1 .. k = (1 .. trained[sample]) \union {k}
          BY <2>3, <2>4, <4>1 DEF Mine
        <5> QED
          BY <4>1, <5>1 DEF TimesOf
      <4>2. CASE sample \notin Mine(program_id)
        <5>1. sample \notin DOMAIN trained
          BY <2>1, <4>2 DEF Mine
        <5>2. k = 1
          BY <2>4, <5>1
        <5>3. 1 .. k = {k}
          BY <5>2
        <5> QED
          BY <4>2, <5>3
      <4> QED
        BY <4>1, <4>2
    <3>4. Times_(program_id, e) = UNION {TimesOf(program_id, s, e) : s \in labelled}
      BY DEF Times_
    <3> HIDE DEF later, more
    <3>5. CASE e[2] = l
      <4>1. {t \in Mine(program_id) \union {sample} : GetLabelAtPosition(program_id, t) = e[2]}
            = labelled \union {sample}
        BY <3>5
      <4>2. UNION {later(s) : s \in labelled \union {sample}}
            = (UNION {later(s) : s \in labelled \ {sample}}) \union later(sample)
        OBVIOUS
      <4>3. UNION {later(s) : s \in labelled \ {sample}}
            = UNION {TimesOf(program_id, s, e) : s \in labelled \ {sample}}
        BY <3>2
      <4>4. sample \in Mine(program_id) <=> sample \in labelled
        BY <3>5
      <4>5. UNION {TimesOf(program_id, s, e) : s \in labelled}
            = (UNION {TimesOf(program_id, s, e) : s \in labelled \ {sample}})
              \union (IF sample \in Mine(program_id) THEN TimesOf(program_id, sample, e) ELSE {})
        BY <4>4
      <4> HIDE DEF labelled
      <4> QED
        BY <3>1, <3>3, <3>4, <3>5, <4>1, <4>2, <4>3, <4>5
    <3>6. CASE e[2] # l
      <4>1. {t \in Mine(program_id) \union {sample} : GetLabelAtPosition(program_id, t) = e[2]}
            = labelled /\ sample \notin labelled
        BY <3>6
      <4>2. UNION {later(s) : s \in labelled} = UNION {TimesOf(program_id, s, e) : s \in labelled}
        BY <3>2, <4>1
      <4> QED
        BY <3>1, <3>4, <3>6, <4>1, <4>2, Zenon
    <3> QED
      BY <3>5, <3>6
  <2>12. ASSUME NEW e
         PROVE  /\ IsFiniteSet(more(e))
                /\ Cardinality(more(e)) = Cardinality(FeaturePlaces(program_id, sample, e[1]))
                /\ Cardinality(more(e)) \in Nat
                /\ Times_(program_id, e) \cap more(e) = {}
    <3> DEFINE places == FeaturePlaces(program_id, sample, e[1])
               one == {sample} \X {k}
    <3>1. IsFiniteSet(places)
      BY <2>1, FeaturesAre
    <3>2. IsFiniteSet(one) /\ Cardinality(one) = 1
      <4>1. one = {<<sample, k>>}
        OBVIOUS
      <4> QED
        BY <4>1, FS_Singleton
    <3>3. Cardinality(places) \in Nat
      BY <3>1, FS_CardinalityType
    <3>4. more(e) = one \X places
      OBVIOUS
    <3>5. IsFiniteSet(one \X places) /\ Cardinality(one \X places) = 1 * Cardinality(places)
      <4> HIDE DEF one, places
      <4> QED
        BY <3>1, <3>2, FS_Product
    <3>6. Times_(program_id, e) \cap more(e) = {}
      <4> SUFFICES ASSUME NEW x \in Times_(program_id, e), x \in more(e) PROVE FALSE
        OBVIOUS
      <4>1. PICK s \in Mine(program_id) : x \in ({s} \X (1 .. trained[s])) \X FeaturePlaces(program_id, s, e[1])
        BY DEF Times_, TimesOf
      <4>2. x[1][1] = s /\ x[1][2] \in 1 .. trained[s] /\ x[1][1] = sample /\ x[1][2] = k
        BY <4>1
      <4>3. k \in 1 .. trained[sample] /\ sample \in DOMAIN trained
        BY <4>1, <4>2 DEF Mine
      <4> QED
        BY <2>3, <2>4, <4>3
    <3> QED
      BY <3>3, <3>4, <3>5, <3>6
  <2> DEFINE fresh(e) == IF e[2] = l THEN Cardinality(FeaturePlaces(program_id, sample, e[1])) ELSE 0
  <2>13. ASSUME NEW e
         PROVE  /\ IsFiniteSet(Times_(program_id, e)')
                /\ Cardinality(Times_(program_id, e)') = Cardinality(Times_(program_id, e)) + fresh(e)
                /\ Cardinality(Times_(program_id, e)) \in Nat
    <3>1. IsFiniteSet(Times_(program_id, e)) /\ Cardinality(Times_(program_id, e)) \in Nat
      BY <2>1, <2>3, FS_CardinalityType
    <3>2. CASE e[2] = l
      <4> HIDE DEF more
      <4>1. Cardinality({}) = 0
        BY FS_EmptySet
      <4>2. Times_(program_id, e)' = Times_(program_id, e) \union more(e)
        BY <2>11, <3>2
      <4>3. /\ IsFiniteSet(more(e)) /\ Times_(program_id, e) \cap more(e) = {}
            /\ Cardinality(more(e)) = fresh(e) /\ Cardinality(more(e)) \in Nat
        BY <2>12, <3>2
      <4>4. /\ IsFiniteSet(Times_(program_id, e) \union more(e))
            /\ Cardinality(Times_(program_id, e) \union more(e))
               = Cardinality(Times_(program_id, e)) + Cardinality(more(e)) - Cardinality({})
        BY <3>1, <4>3, FS_Union
      <4> HIDE DEF fresh
      <4> QED
        BY <3>1, <4>1, <4>2, <4>3, <4>4
    <3>3. CASE e[2] # l
      BY <2>11, <3>1, <3>3
    <3> QED
      BY <3>2, <3>3
  <2>14. ASSUME NEW e \in Added(program_id) \union (Range(fs) \X {l})
         PROVE  AddValues(counts[program_id], fs, l)[e] = Cardinality(Times_(program_id, e)')
    <3> DEFINE New == Range(fs) \X {l}
               places == FeaturePlaces(program_id, sample, e[1])
    <3>1. DOMAIN counts[program_id] = Added(program_id)
      BY <2>1, <2>3
    <3>2. AddValues(counts[program_id], fs, l)[e]
          = (IF e \in Added(program_id) THEN Cardinality(Times_(program_id, e)) ELSE 0)
            + (IF e \in New THEN Cardinality(places) ELSE 0)
      <4>1. AddValues(counts[program_id], fs, l)[e]
            = (IF e \in DOMAIN counts[program_id] THEN counts[program_id][e] ELSE 0)
              + (IF e \in New THEN Cardinality({n \in DOMAIN fs : fs[n] = e[1]}) ELSE 0)
        <5> DEFINE bag == counts[program_id]
        <5>1. \A x \in DOMAIN bag \union New :
                AddValues(bag, fs, l)[x]
                = (IF x \in DOMAIN bag THEN bag[x] ELSE 0)
                  + (IF x \in New THEN Cardinality({n \in DOMAIN fs : fs[n] = x[1]}) ELSE 0)
          BY AddValuesIs
        <5>2. e \in DOMAIN bag \union New
          BY <3>1
        <5> HIDE DEF bag, fs, l, New
        <5>3. AddValues(bag, fs, l)[e]
              = (IF e \in DOMAIN bag THEN bag[e] ELSE 0)
                + (IF e \in New THEN Cardinality({n \in DOMAIN fs : fs[n] = e[1]}) ELSE 0)
          BY <5>1, <5>2, Zenon
        <5> QED
          BY <5>3 DEF bag
      <4>2. places = {n \in DOMAIN fs : fs[n] = e[1]}
        BY DEF FeaturePlaces
      <4> QED
        BY <2>1, <2>3, <3>1, <4>1, <4>2
    <3>3. e \notin Added(program_id) => Cardinality(Times_(program_id, e)) = 0
      <4>1. ASSUME e \notin Added(program_id), NEW x \in Times_(program_id, e)
            PROVE  FALSE
        <5>1. PICK s \in Mine(program_id) :
                /\ GetLabelAtPosition(program_id, s) = e[2]
                /\ x \in ({s} \X (1 .. trained[s])) \X FeaturePlaces(program_id, s, e[1])
          BY <4>1 DEF Times_, TimesOf
        <5>2. e[1] \in Range(FeaturesOf(program_id, s))
          BY <5>1 DEF FeaturePlaces, Range
        <5>3. e = <<e[1], e[2]>>
          BY <4>1
        <5>4. e \in Range(FeaturesOf(program_id, s)) \X {GetLabelAtPosition(program_id, s)}
          BY <5>1, <5>2, <5>3
        <5> QED
          BY <4>1, <5>4 DEF Added
      <4> QED
        BY <4>1, FS_EmptySet
    <3>4. e[2] = l /\ e \notin New => Cardinality(places) = 0
      <4>1. ASSUME e[2] = l, e \notin New
            PROVE  places = {}
        <5>1. e \in Added(program_id)
          BY <4>1
        <5>2. e = <<e[1], e[2]>>
          BY <5>1 DEF Added
        <5>3. e[1] \notin Range(fs)
          BY <4>1, <5>2
        <5> QED
          BY <5>3 DEF FeaturePlaces, Range
      <4> QED
        BY <4>1, FS_EmptySet
    <3>5. e \in New => e[2] = l
      OBVIOUS
    <3>6. IsFiniteSet(places)
      BY <2>1, FeaturesAre
    <3>7. Cardinality(places) \in Nat
      BY <3>6, FS_CardinalityType
    <3> HIDE DEF New, places, fs, l
    <3>8. Cardinality(Times_(program_id, e)')
          = Cardinality(Times_(program_id, e)) + (IF e[2] = l THEN Cardinality(places) ELSE 0)
      BY <2>13 DEF places, l
    <3>9. Cardinality(Times_(program_id, e)) \in Nat
      BY <2>13
    <3> QED
      BY <3>2, <3>3, <3>4, <3>5, <3>7, <3>8, <3>9
  <2>15. AddValues(counts[program_id], fs, l)
         = [e \in Added(program_id)' |-> Cardinality(Times_(program_id, e)')]
    <3> DEFINE sum == AddValues(counts[program_id], fs, l)
    <3>1. DOMAIN counts[program_id] = Added(program_id)
      BY <2>1, <2>3
    <3>2. sum = [e \in Added(program_id)' |-> sum[e]]
      <4>1. sum = [e \in DOMAIN counts[program_id] \union (Range(fs) \X {l}) |-> sum[e]]
        BY AddValuesIs
      <4>2. DOMAIN counts[program_id] \union (Range(fs) \X {l}) = Added(program_id)'
        BY <2>10, <3>1
      <4> HIDE DEF sum
      <4> QED
        BY <4>1, <4>2
    <3> HIDE DEF sum
    <3>3. \A e \in Added(program_id)' : sum[e] = Cardinality(Times_(program_id, e)')
      BY <2>10, <2>14 DEF sum
    <3>4. sum = [e \in Added(program_id)' |-> Cardinality(Times_(program_id, e)')]
      BY <3>2, <3>3
    <3> QED
      BY <3>4 DEF sum
  <2>16. counts' = [id \in Ids(program) |-> [e \in Added(id)' |-> Cardinality(Times_(id, e)')]]
    <3> DEFINE Counted(id) == [e \in Added(id)' |-> Cardinality(Times_(id, e)')]
    <3>1. counts' = [id \in Ids(program) |-> IF id = program_id THEN AddValues(counts[program_id], fs, l)
                                             ELSE counts[id]]
      BY <2>1, <2>2, <2>3
    <3>2. \A id \in Ids(program) \ {program_id} : counts[id] = Counted(id)
      BY <2>3, <2>8
    <3>3. AddValues(counts[program_id], fs, l) = Counted(program_id)
      BY <2>15
    <3> HIDE DEF Counted
    <3>4. counts' = [id \in Ids(program) |-> Counted(id)]
      BY <3>1, <3>2, <3>3
    <3> QED
      BY <3>4 DEF Counted
  <2>17. \A id \in Ids(program) : \A e : IsFiniteSet(Times_(id, e)')
    <3>1. \A id \in Ids(program) \ {program_id} : \A e : IsFiniteSet(Times_(id, e)')
      BY <2>3, <2>8
    <3>2. \A e : IsFiniteSet(Times_(program_id, e)')
      BY <2>13
    <3> TAKE id \in Ids(program)
    <3>3. CASE id = program_id
      BY <2>1, <3>2, <3>3
    <3>4. CASE id # program_id
      BY <3>1, <3>4
    <3> QED
      BY <3>3, <3>4
  <2>18. /\ DOMAIN trained' \subseteq Samples
         /\ \A s \in DOMAIN trained' : trained'[s] \in Nat
    BY <2>1, <2>3, <2>4
  <2> QED
    BY <2>1, <2>6, <2>16, <2>17, <2>18 DEF CountInv
<1>2. CASE NextSample \/ TakeBranch \/ NoSuchProgram
  BY <1>2, CountInvStays DEF NextSample, TakeBranch, NoSuchProgram, ModelInv, model, history
<1>3. CASE GenerativeEndTraining \/ GetComputedValue
  BY <1>3, CountInvStays DEF GenerativeEndTraining, GetComputedValue, ModelInv, model, history
<1>4. CASE AddSample \/ NoDelta
  BY <1>4, CountInvStays DEF AddSample, NoDelta, ModelInv, model, history
<1>5. CASE UNCHANGED vars
  BY <1>5, CountInvStays DEF vars, ModelInv, model, history
<1> QED
  BY <1>1, <1>2, <1>3, <1>4, <1>5 DEF Next, Step, Terminated
LEMMA ModelInvInit ==
  ASSUME Init
  PROVE  ModelInv
<1>1. LoopInv
  BY ModelAssumption DEF Init, LoopInv
<1>2. PathInv
  BY DEF Init, PathInv
<1>3. DOMAIN trained = {} /\ \A id \in Ids(program) : counts[id] = EmptyBag
  BY DEF Init, EmptyBag, SetToBag
<1>4. \A id : Mine(id) = {}
  BY <1>3 DEF Mine
<1>5. \A id : Added(id) = {} /\ \A e : Times_(id, e) = {}
  BY <1>4 DEF Added, Times_
<1>6. counts = [id \in Ids(program) |-> [e \in Added(id) |-> Cardinality(Times_(id, e))]]
  <2>1. counts = [id \in Ids(program) |-> EmptyBag]
    BY DEF Init
  <2>2. \A id : EmptyBag = [e \in Added(id) |-> Cardinality(Times_(id, e))]
    BY <1>5 DEF EmptyBag, SetToBag
  <2> QED
    BY <2>1, <2>2
<1>7. \A id \in Ids(program) : \A e : IsFiniteSet(Times_(id, e))
  BY <1>5, FS_EmptySet
<1> QED
  BY <1>1, <1>2, <1>3, <1>6, <1>7 DEF ModelInv, CountInv

(***************************************************************************)
(* What a counter holds is what the samples of its submodel have added,    *)
(* and the gotos lead a sample to one submodel only.                       *)
(***************************************************************************)
THEOREM ModelInvariance == Spec => []ModelInv
<1>1. Init => ModelInv
  BY ModelInvInit
<1>2. ModelInv /\ [Next]_vars => ModelInv'
  <2> SUFFICES ASSUME ModelInv, [Next]_vars
               PROVE  ModelInv'
    OBVIOUS
  <2>1. LoopInv'
    BY LoopInvStep DEF ModelInv
  <2> QED
    BY <2>1, PathInvStep, CountInvStep DEF ModelInv
<1> QED
  BY <1>1, <1>2, PTL DEF Spec

(***************************************************************************)
(* The counts that a submodel has for a feature and a label are those of   *)
(* the training samples that the gotos lead to it, however often a sample  *)
(* comes and however the hashes of features collide.                       *)
(***************************************************************************)
THEOREM CountsExact == Spec => []CountsAreExact
<1>1. ASSUME ModelInv, EncodedLabelsAreDistinct, LabelsDecode
      PROVE  CountsAreExact
  <2> DEFINE led == {<<s, Submodel(s)>> : s \in DOMAIN trained}
             mine(id) == {s \in DOMAIN trained : <<s, id>> \in led}
             placesOf(id, s) == {<<s, n, FeaturesOf(id, s)[n], GetLabelAtPosition(id, s)>> :
                                   n \in DOMAIN FeaturesOf(id, s)}
             places(id) == UNION {placesOf(id, s) : s \in mine(id)}
             seenAt(p) == ({p[1]} \X (1 .. trained[p[1]])) \X {p[2]}
             Seen(id, e) == UNION {seenAt(p) : p \in {q \in places(id) : <<q[3], q[4]>> = e}}
  <2>1. ASSUME NEW id \in Ids(program)
        PROVE  counts[id] = [e \in Added(id) |-> Cardinality(Times_(id, e))]
    BY <1>1 DEF ModelInv, CountInv
  <2>2. ASSUME NEW id
        PROVE  Mine(id) = mine(id)
    BY DEF Mine
  <2>3. ASSUME NEW id
        PROVE  /\ Added(id) = {<<p[3], p[4]>> : p \in places(id)}
               /\ \A e \in Added(id) : Times_(id, e) = Seen(id, e)
    <3> DEFINE M == mine(id)
               fs(s) == FeaturesOf(id, s)
               l(s) == GetLabelAtPosition(id, s)
    <3>1. Added(id) = UNION {Range(fs(s)) \X {l(s)} : s \in M}
      BY <2>2 DEF Added
    <3>2. \A e : Times_(id, e) = UNION {({s} \X (1 .. trained[s])) \X {n \in DOMAIN fs(s) : fs(s)[n] = e[1]} :
                                          s \in {t \in M : l(t) = e[2]}}
      BY <2>2 DEF Times_, TimesOf, FeaturePlaces
    <3>3. places(id) = UNION {{<<s, n, fs(s)[n], l(s)>> : n \in DOMAIN fs(s)} : s \in M}
      OBVIOUS
    <3> HIDE DEF M, fs, l, places
    <3>4. ASSUME NEW e
          PROVE  e \in Added(id) <=> e \in {<<p[3], p[4]>> : p \in places(id)}
      <4>1. ASSUME e \in Added(id)
            PROVE  e \in {<<p[3], p[4]>> : p \in places(id)}
        <5>1. PICK s \in M : e \in Range(fs(s)) \X {l(s)}
          BY <3>1, <4>1
        <5>2. PICK n \in DOMAIN fs(s) : e = <<fs(s)[n], l(s)>>
          BY <5>1 DEF Range
        <5>3. <<s, n, fs(s)[n], l(s)>> \in places(id)
          BY <3>3, <5>2
        <5> QED
          BY <5>2, <5>3
      <4>2. ASSUME NEW p \in places(id)
            PROVE  <<p[3], p[4]>> \in Added(id)
        <5>1. PICK s \in M : \E n \in DOMAIN fs(s) : p = <<s, n, fs(s)[n], l(s)>>
          BY <3>3
        <5>2. PICK n \in DOMAIN fs(s) : p = <<s, n, fs(s)[n], l(s)>>
          BY <5>1
        <5>3. <<p[3], p[4]>> \in Range(fs(s)) \X {l(s)}
          BY <5>2 DEF Range
        <5> QED
          BY <3>1, <5>3
      <4> QED
        BY <4>1, <4>2
    <3>5. ASSUME NEW e \in Added(id), NEW x
          PROVE  x \in Times_(id, e) <=> x \in Seen(id, e)
      <4>0. PICK f, k : e = <<f, k>>
        BY <3>4
      <4>1. ASSUME x \in Times_(id, e)
            PROVE  x \in Seen(id, e)
        <5>1. PICK s \in M : /\ l(s) = e[2]
                             /\ x \in ({s} \X (1 .. trained[s])) \X {n \in DOMAIN fs(s) : fs(s)[n] = e[1]}
          BY <3>2, <4>1
        <5>2. PICK n \in DOMAIN fs(s) : fs(s)[n] = e[1] /\ x \in ({s} \X (1 .. trained[s])) \X {n}
          BY <5>1
        <5> DEFINE p == <<s, n, fs(s)[n], l(s)>>
        <5>3. p \in places(id) /\ <<p[3], p[4]>> = e
          BY <3>3, <4>0, <5>1, <5>2
        <5>4. x \in ({p[1]} \X (1 .. trained[p[1]])) \X {p[2]}
          BY <5>2
        <5> HIDE DEF p
        <5> QED
          BY <5>3, <5>4
      <4>2. ASSUME x \in Seen(id, e)
            PROVE  x \in Times_(id, e)
        <5>1. PICK p \in places(id) : <<p[3], p[4]>> = e /\ x \in ({p[1]} \X (1 .. trained[p[1]])) \X {p[2]}
          BY <4>2
        <5>2. PICK s \in M : \E n \in DOMAIN fs(s) : p = <<s, n, fs(s)[n], l(s)>>
          BY <3>3
        <5>3. PICK n \in DOMAIN fs(s) : p = <<s, n, fs(s)[n], l(s)>>
          BY <5>2
        <5>4. e[1] = fs(s)[n] /\ e[2] = l(s)
          BY <5>1, <5>3
        <5>5. x \in ({s} \X (1 .. trained[s])) \X {m \in DOMAIN fs(s) : fs(s)[m] = e[1]}
          BY <5>1, <5>3, <5>4
        <5> QED
          BY <3>2, <5>4, <5>5
      <4> QED
        BY <4>1, <4>2
    <3> HIDE DEF Seen
    <3>6. \A e \in Added(id) : Times_(id, e) = Seen(id, e)
      BY <3>5
    <3> QED
      BY <3>4, <3>6
  <2> HIDE DEF places, Seen
  <2>4. ASSUME NEW id \in Ids(program)
        PROVE  /\ DOMAIN counts[id] = {<<p[3], p[4]>> : p \in places(id)}
               /\ \A e \in DOMAIN counts[id] : counts[id][e] = Cardinality(Seen(id, e))
    <3>1. DOMAIN counts[id] = Added(id) /\ \A e \in Added(id) : counts[id][e] = Cardinality(Times_(id, e))
      BY <2>1
    <3> QED
      BY <2>3, <3>1
  <2>5. \A id \in Ids(program) :
          /\ DOMAIN counts[id] = {<<p[3], p[4]>> : p \in places(id)}
          /\ \A e \in DOMAIN counts[id] : counts[id][e] = Cardinality(Seen(id, e))
    BY <2>4
  <2> QED
    BY <1>1, <2>5, Zenon DEF CountsAreExact, places, Seen
<1> QED
  BY <1>1, ModelInvariance, CountedLabelsAreDistinct, TypeLabelsDecode, PTL
-----------------------------------------------------------------------------
(***************************************************************************)
(* The metric. Induction over the places of a sequence is that of a set of *)
(* places; a function that is defined from place to place exists, and      *)
(* takes its values where its steps lead.                                  *)
(***************************************************************************)
LEMMA PlacesByInduction ==
  ASSUME NEW N \in Nat, NEW S \in SUBSET (1 .. N), N >= 1 => 1 \in S,
         \A n \in 2 .. N : n - 1 \in S => n \in S
  PROVE  S = 1 .. N
<1> DEFINE bad == (1 .. N) \ S
           m == Min(bad)
<1> SUFFICES ASSUME bad # {} PROVE FALSE
  OBVIOUS
<1>1. m \in bad /\ \A y \in bad : m <= y
  <2>1. bad \in SUBSET Nat
    OBVIOUS
  <2> HIDE DEF bad
  <2> QED
    BY <2>1, MinIsInSet
<1> HIDE DEF m
<1>2. m \in 1 .. N /\ m \notin S
  BY <1>1
<1>3. m # 1
  BY <1>2
<1>4. m \in 2 .. N /\ m - 1 \in 1 .. N
  BY <1>2, <1>3
<1>5. m - 1 \notin bad
  BY <1>1, <1>2
<1> QED
  BY <1>2, <1>4, <1>5

GoesByPlaces(f, N, V, first, step) ==
  /\ f \in [1 .. N -> V]
  /\ \A n \in 1 .. N : f[n] = IF n = 1 THEN first ELSE step[<<f[n - 1], n>>]

LEMMA FunctionByPlaces ==
  ASSUME NEW N \in Nat \ {0}, NEW V, NEW first \in V, NEW step \in [V \X (1 .. N) -> V]
  PROVE  \E f : GoesByPlaces(f, N, V, first, step)
<1> DEFINE Upto(k, f) == \A n \in 1 .. k : f[n] = IF n = 1 THEN first ELSE step[<<f[n - 1], n>>]
           S == {k \in 1 .. N : \E f \in [1 .. k -> V] : Upto(k, f)}
<1>1. 1 \in S
  <2>1. [n \in 1 .. 1 |-> first] \in [1 .. 1 -> V]
    OBVIOUS
  <2>2. Upto(1, [n \in 1 .. 1 |-> first])
    OBVIOUS
  <2> HIDE DEF Upto
  <2> QED
    BY <2>1, <2>2
<1>2. ASSUME NEW k \in 2 .. N, k - 1 \in S
      PROVE  k \in S
  <2>1. PICK f \in [1 .. k - 1 -> V] : Upto(k - 1, f)
    BY <1>2
  <2> DEFINE g == [n \in 1 .. k |-> IF n = k THEN step[<<f[k - 1], k>>] ELSE f[n]]
  <2>2. g \in [1 .. k -> V]
    <3>1. step[<<f[k - 1], k>>] \in V
      OBVIOUS
    <3> QED
      BY <3>1
  <2>3. Upto(k, g)
    <3> TAKE n \in 1 .. k
    <3>1. CASE n = k
      <4>1. k \in 1 .. k /\ k - 1 \in 1 .. k /\ k - 1 # k /\ k # 1
        OBVIOUS
      <4>2. g[k] = step[<<f[k - 1], k>>] /\ g[k - 1] = f[k - 1]
        BY <4>1
      <4> HIDE DEF g
      <4> QED
        BY <3>1, <4>1, <4>2
    <3>2. CASE n # k
      <4>1. n \in 1 .. k - 1 /\ (n # 1 => n - 1 \in 1 .. k - 1)
        BY <3>2
      <4>2. g[n] = f[n] /\ (n # 1 => g[n - 1] = f[n - 1])
        BY <4>1
      <4>3. f[n] = IF n = 1 THEN first ELSE step[<<f[n - 1], n>>]
        BY <2>1, <4>1
      <4> HIDE DEF g
      <4> QED
        BY <4>2, <4>3
    <3> QED
      BY <3>1, <3>2
  <2> HIDE DEF Upto, g
  <2> QED
    BY <2>2, <2>3
<1> HIDE DEF Upto
<1>3. S = 1 .. N
  <2>1. S \in SUBSET (1 .. N)
    OBVIOUS
  <2>2. \A n \in 2 .. N : n - 1 \in S => n \in S
    BY <1>2
  <2> HIDE DEF S
  <2> QED
    BY <1>1, <2>1, <2>2, PlacesByInduction
<1>4. N \in S
  BY <1>3
<1> QED
  BY <1>4 DEF Upto, GoesByPlaces

-----------------------------------------------------------------------------
\* What is read off a finite function is finite.
LEMMA RangeIsFinite ==
  ASSUME NEW f, IsFiniteSet(DOMAIN f)
  PROVE  IsFiniteSet({f[x] : x \in DOMAIN f})
<1> DEFINE T == {f[x] : x \in DOMAIN f}
           g == [x \in DOMAIN f |-> f[x]]
<1>1. g \in Surjection(DOMAIN f, T)
  BY DEF Surjection
<1> HIDE DEF g, T
<1>2. IsFiniteSet(T)
  BY <1>1, FS_Surjection
<1> QED
  BY <1>2 DEF T

\* A bag of counts, as the counters hold them.
IsCounter(bag) ==
  /\ IsFiniteSet(DOMAIN bag)
  /\ \A e \in DOMAIN bag : bag[e] \in Nat \ {0} /\ e = <<e[1], e[2]>>

LEMMA CountsUnderFeature ==
  ASSUME NEW bag, IsCounter(bag), NEW f
  PROVE  /\ IsFiniteSet(LabelsUnder(bag, f))
         /\ \A label : /\ GetCount(bag, f, label) \in Nat
                       /\ GetCount(bag, f, label) # 0 <=> label \in LabelsUnder(bag, f)
         /\ TotalCount(bag, f) \in Nat
         /\ \A label : GetCount(bag, f, label) <= TotalCount(bag, f)
         /\ \A label : LabelsUnder(bag, f) = {label} => TotalCount(bag, f) = GetCount(bag, f, label)
<1> DEFINE Labels == LabelsUnder(bag, f)
           Count(label) == GetCount(bag, f, label)
           Pairs(label) == {label} \X (1 .. Count(label))
           All == UNION {Pairs(label) : label \in Labels}
<1>1. IsFiniteSet(Labels)
  <2> DEFINE D == {d \in DOMAIN bag : d[1] = f}
             second == [d \in D |-> d[2]]
  <2>1. IsFiniteSet(D)
    BY FS_Subset DEF IsCounter
  <2>2. DOMAIN second = D /\ Labels = {second[x] : x \in DOMAIN second}
    BY DEF LabelsUnder
  <2> HIDE DEF second
  <2> QED
    BY <2>1, <2>2, RangeIsFinite
<1>2. ASSUME NEW label
      PROVE  Count(label) \in Nat /\ (Count(label) # 0 <=> label \in Labels)
  <2>1. <<f, label>> \in DOMAIN bag <=> label \in Labels
    <3>1. ASSUME label \in Labels
          PROVE  <<f, label>> \in DOMAIN bag
      <4>1. PICK e \in DOMAIN bag : e[1] = f /\ e[2] = label
        BY <3>1 DEF LabelsUnder
      <4> QED
        BY <4>1 DEF IsCounter
    <3>2. ASSUME <<f, label>> \in DOMAIN bag
          PROVE  label \in Labels
      <4>1. <<f, label>>[1] = f /\ <<f, label>>[2] = label
        OBVIOUS
      <4> QED
        BY <3>2, <4>1 DEF LabelsUnder
    <3> QED
      BY <3>1, <3>2
  <2> QED
    BY <2>1 DEF GetCount, IsCounter
<1>3. ASSUME NEW label
      PROVE  IsFiniteSet(Pairs(label)) /\ Cardinality(Pairs(label)) = Count(label)
  <2>1. Count(label) \in Nat
    BY <1>2
  <2> HIDE DEF Count
  <2>2. IsFiniteSet(1 .. Count(label)) /\ Cardinality(1 .. Count(label)) = Count(label)
    BY <2>1, FS_Interval
  <2>3. IsFiniteSet({label}) /\ Cardinality({label}) = 1
    BY FS_Singleton
  <2>4. Cardinality(Pairs(label)) = 1 * Cardinality(1 .. Count(label)) /\ IsFiniteSet(Pairs(label))
    BY <2>2, <2>3, FS_Product
  <2> QED
    BY <2>1, <2>2, <2>4
<1>4. IsFiniteSet(All)
  <2> DEFINE pairs == [label \in Labels |-> Pairs(label)]
  <2>1. {Pairs(label) : label \in Labels} = {pairs[x] : x \in DOMAIN pairs}
    OBVIOUS
  <2>2. DOMAIN pairs = Labels
    OBVIOUS
  <2> HIDE DEF pairs, Pairs, Labels
  <2>3. IsFiniteSet({Pairs(label) : label \in Labels})
    BY <1>1, <2>1, <2>2, RangeIsFinite
  <2> QED
    BY <1>3, <2>3, FS_UNION
<1>5. TotalCount(bag, f) = Cardinality(All)
  BY DEF TotalCount
<1>6. Cardinality(All) \in Nat
  BY <1>4, FS_CardinalityType
<1>7. ASSUME NEW label
      PROVE  Count(label) <= Cardinality(All)
  <2>1. CASE label \in Labels
    <3>1. Pairs(label) \in SUBSET All
      BY <2>1
    <3> HIDE DEF All, Pairs
    <3> QED
      BY <1>3, <1>4, <3>1, FS_Subset
  <2>2. CASE label \notin Labels
    <3>1. Count(label) = 0
      BY <1>2, <2>2
    <3> QED
      BY <1>6, <3>1
  <2> QED
    BY <2>1, <2>2
<1>8. ASSUME NEW label, Labels = {label}
      PROVE  Cardinality(All) = Count(label)
  <2>1. All = Pairs(label)
    BY <1>8
  <2> QED
    BY <1>3, <2>1
<1> QED
  BY <1>1, <1>2, <1>5, <1>6, <1>7, <1>8
-----------------------------------------------------------------------------
\* The probabilities above zero and no more than one.
Probs == {p \in (Nat \ {0}) \X (Nat \ {0}) : p[1] <= p[2]}

\* What smoothing takes one from another, with no regard to prob_tmp.
MayBeSmoothed(q) == [prob : Probs, prob_tmp : {q}]

\* The probability of label tells l, the only label seen, from the others.
Tells(p, label, l) ==
  /\ label = l => 2 * p[1] > p[2]
  /\ label # l => 2 * p[1] <= p[2]

\* Products are monotonic.
LEMMA ProductsGrow ==
  ASSUME NEW a \in Nat, NEW b \in Nat, NEW c \in Nat, a <= b
  PROVE  /\ a * c \in Nat /\ b * c \in Nat /\ a * c <= b * c
         /\ c * a \in Nat /\ c * b \in Nat /\ c * a <= c * b
  OBVIOUS

LEMMA WittenBellIs ==
  ASSUME NEW p \in Probs, NEW c \in Nat, NEW stat, stat.total_count \in Nat,
         stat.unique_count \in Nat \ {0}, c <= stat.total_count
  PROVE  WittenBell(p, c, stat) \in Probs
<1> DEFINE a == p[1]
           b == p[2]
           t == stat.total_count
           u == stat.unique_count
<1>1. a \in Nat \ {0} /\ b \in Nat \ {0} /\ a <= b /\ t \in Nat /\ u \in Nat \ {0} /\ c <= t
  BY DEF Probs
<1>2. WittenBell(p, c, stat) = <<c * b + u * a, (u + t) * b>>
  BY DEF WittenBell
<1> HIDE DEF a, b, t, u
<1>3. c * b \in Nat /\ c * b <= t * b /\ t * b \in Nat
  BY <1>1, ProductsGrow
<1>4. u * a \in Nat /\ u * a <= u * b /\ u * b \in Nat
  BY <1>1, ProductsGrow
<1>5. u * a >= 1
  <2>1. 1 * a <= u * a
    BY <1>1, ProductsGrow
  <2> QED
    BY <1>1, <1>4, <2>1
<1>6. (u + t) * b = u * b + t * b
  BY <1>1
<1>7. /\ c * b + u * a \in Nat \ {0} /\ (u + t) * b \in Nat \ {0}
      /\ c * b + u * a <= (u + t) * b
  BY <1>3, <1>4, <1>5, <1>6
<1> QED
  BY <1>2, <1>7 DEF Probs

LEMMA WittenBellTells ==
  ASSUME NEW p \in Probs, NEW c \in Nat, NEW stat, stat.total_count \in Nat \ {0},
         stat.unique_count = 1, NEW label, NEW l,
         c = IF label = l THEN stat.total_count ELSE 0
  PROVE  Tells(WittenBell(p, c, stat), label, l)
<1> DEFINE a == p[1]
           b == p[2]
           t == stat.total_count
<1>1. a \in Nat \ {0} /\ b \in Nat \ {0} /\ a <= b /\ t \in Nat \ {0}
  BY DEF Probs
<1>2. WittenBell(p, c, stat) = <<c * b + 1 * a, (1 + t) * b>>
  BY DEF WittenBell
<1> HIDE DEF a, b, t
<1>3. 1 * b <= t * b /\ t * b \in Nat
  BY <1>1, ProductsGrow
<1>4. (1 + t) * b = b + t * b
  BY <1>1
<1>5. CASE label = l
  BY <1>1, <1>2, <1>3, <1>4, <1>5 DEF Tells, t
<1>6. CASE label # l
  <2>1. c * b = 0
    BY <1>1, <1>6
  <2> QED
    BY <1>1, <1>2, <1>3, <1>4, <1>6, <2>1 DEF Tells
<1> QED
  BY <1>5, <1>6

LEMMA SetUnconditionedProbIs ==
  ASSUME NEW c \in Nat, NEW stat, stat.total_count \in Nat,
         stat.unique_count \in Nat \ {0}, c <= stat.total_count
  PROVE  SetUnconditionedProb(c, stat) \in Probs
  BY DEF SetUnconditionedProb, Probs

LEMMA SetUnconditionedProbTells ==
  ASSUME NEW c \in Nat, NEW stat, stat.total_count \in Nat \ {0},
         stat.unique_count = 1, NEW label, NEW l,
         c = IF label = l THEN stat.total_count ELSE 0
  PROVE  Tells(SetUnconditionedProb(c, stat), label, l)
  BY DEF SetUnconditionedProb, Tells

\* What CalculateProb knows of a feature that has been seen.
LEMMA StatsAre ==
  ASSUME NEW bag, IsCounter(bag), NEW f \in FeaturesIn(bag)
  PROVE  LET stat == EndAdding(bag)[f]
             Count(label) == GetCount(bag, f, label)
         IN /\ stat.total_count \in Nat /\ stat.unique_count \in Nat \ {0}
            /\ \A label : Count(label) \in Nat /\ Count(label) <= stat.total_count
            /\ \A l : LabelsUnder(bag, f) = {l} =>
                 /\ stat.total_count # 0 /\ stat.unique_count = 1
                 /\ \A label : Count(label) = IF label = l THEN stat.total_count ELSE 0
<1> DEFINE stat == EndAdding(bag)[f]
           labels == LabelsUnder(bag, f)
<1>1. stat.total_count = TotalCount(bag, f) /\ stat.unique_count = Cardinality(labels)
  BY DEF EndAdding, FeatureStats
<1>2. IsFiniteSet(labels) /\ labels # {}
  <2>1. PICK e \in DOMAIN bag : e[1] = f
    BY DEF FeaturesIn
  <2>2. e[2] \in labels
    BY <2>1 DEF LabelsUnder
  <2> QED
    BY <2>2, CountsUnderFeature
<1>3. Cardinality(labels) \in Nat \ {0}
  BY <1>2, FS_CardinalityType, FS_EmptySet
<1>4. \A l : labels = {l} => Cardinality(labels) = 1
  BY FS_Singleton
<1> HIDE DEF stat
<1>5. /\ TotalCount(bag, f) \in Nat
      /\ \A label : GetCount(bag, f, label) \in Nat /\ GetCount(bag, f, label) <= TotalCount(bag, f)
      /\ \A label : GetCount(bag, f, label) # 0 <=> label \in labels
      /\ \A l : labels = {l} => TotalCount(bag, f) = GetCount(bag, f, l)
  BY CountsUnderFeature
<1>6. ASSUME NEW l, labels = {l}
      PROVE  /\ TotalCount(bag, f) # 0
             /\ \A label : GetCount(bag, f, label) = IF label = l THEN TotalCount(bag, f) ELSE 0
  <2> HIDE DEF labels
  <2> QED
    BY <1>5, <1>6
<1> HIDE DEF labels
<1>7. /\ stat.total_count \in Nat /\ stat.unique_count \in Nat \ {0}
      /\ \A label : GetCount(bag, f, label) \in Nat /\ GetCount(bag, f, label) <= stat.total_count
  BY <1>1, <1>3, <1>5
<1>8. \A l : labels = {l} =>
        /\ stat.total_count # 0 /\ stat.unique_count = 1
        /\ \A label : GetCount(bag, f, label) = IF label = l THEN stat.total_count ELSE 0
  BY <1>1, <1>4, <1>6
<1> QED
  BY <1>7, <1>8 DEF stat, labels

LEMMA StatsOfLabel ==
  ASSUME NEW bag, IsCounter(bag), NEW f \in FeaturesIn(bag), NEW label
  PROVE  LET stat == EndAdding(bag)[f]
             c == GetCount(bag, f, label)
         IN /\ stat.total_count \in Nat /\ stat.unique_count \in Nat \ {0}
            /\ c \in Nat /\ c <= stat.total_count
            /\ \A l : LabelsUnder(bag, f) = {l} =>
                 /\ stat.total_count # 0 /\ stat.unique_count = 1
                 /\ c = IF label = l THEN stat.total_count ELSE 0
  BY StatsAre

\* The empty feature.
LEMMA FirstIs ==
  ASSUME NEW bag, IsCounter(bag), NEW f \in FeaturesIn(bag), NEW label, NEW q
  PROVE  LET first == [prob |-> SetUnconditionedProb(GetCount(bag, f, label), EndAdding(bag)[f]),
                       prob_tmp |-> q]
         IN /\ first \in MayBeSmoothed(q)
            /\ \A l : LabelsUnder(bag, f) = {l} => Tells(first.prob, label, l)
<1> DEFINE stat == EndAdding(bag)[f]
           c == GetCount(bag, f, label)
<1>1. /\ stat.total_count \in Nat /\ stat.unique_count \in Nat \ {0}
      /\ c \in Nat /\ c <= stat.total_count
      /\ \A l : LabelsUnder(bag, f) = {l} =>
           /\ stat.total_count # 0 /\ stat.unique_count = 1
           /\ c = IF label = l THEN stat.total_count ELSE 0
  BY StatsOfLabel
<1> HIDE DEF stat, c
<1>2. SetUnconditionedProb(c, stat) \in Probs
  BY <1>1, SetUnconditionedProbIs
<1>3. ASSUME NEW l, LabelsUnder(bag, f) = {l}
      PROVE  Tells(SetUnconditionedProb(c, stat), label, l)
  <2>1. /\ stat.total_count \in Nat \ {0} /\ stat.unique_count = 1
        /\ c = IF label = l THEN stat.total_count ELSE 0
    BY <1>1, <1>3
  <2> QED
    BY <1>1, <2>1, SetUnconditionedProbTells
<1> QED
  BY <1>2, <1>3 DEF MayBeSmoothed, stat, c

\* One feature of a context, smoothing_type being one of the two others.
LEMMA BackoffIs ==
  ASSUME NEW bag, IsCounter(bag), NEW f \in FeaturesIn(bag), NEW flags_, NEW model_, NEW size,
         NEW label, NEW q, NEW p \in MayBeSmoothed(q),
         flags_.smoothing_type \in {"WittenBell", "Laplace"}
  PROVE  LET next == AddForwardBackoff(flags_, model_, p, GetCount(bag, f, label),
                                       EndAdding(bag)[f], size, label)
         IN /\ next \in MayBeSmoothed(q)
            /\ \A l : LabelsUnder(bag, f) = {l} => Tells(next.prob, label, l)
<1> DEFINE stat == EndAdding(bag)[f]
           c == GetCount(bag, f, label)
           next == AddForwardBackoff(flags_, model_, p, c, stat, size, label)
<1>1. /\ stat.total_count \in Nat /\ stat.unique_count \in Nat \ {0}
      /\ c \in Nat /\ c <= stat.total_count
      /\ \A l : LabelsUnder(bag, f) = {l} =>
           /\ stat.total_count # 0 /\ stat.unique_count = 1
           /\ c = IF label = l THEN stat.total_count ELSE 0
  BY StatsOfLabel
<1>2. next = [prob     |-> IF flags_.smoothing_type = "WittenBell" THEN WittenBell(p.prob, c, stat)
                           ELSE SetUnconditionedProb(c, stat),
              prob_tmp |-> q]
  <2>1. p = [prob |-> p.prob, prob_tmp |-> q]
    BY DEF MayBeSmoothed
  <2>2. next = IF flags_.smoothing_type = "WittenBell" THEN [p EXCEPT !.prob = WittenBell(@, c, stat)]
               ELSE [p EXCEPT !.prob = SetUnconditionedProb(c, stat)]
    BY DEF AddForwardBackoff
  <2> HIDE DEF next, c, stat
  <2> QED
    BY <2>1, <2>2
<1>3. p.prob \in Probs
  BY DEF MayBeSmoothed
<1> HIDE DEF stat, c, next
<1>4. WittenBell(p.prob, c, stat) \in Probs /\ SetUnconditionedProb(c, stat) \in Probs
  BY <1>1, <1>3, WittenBellIs, SetUnconditionedProbIs
<1>5. ASSUME NEW l, LabelsUnder(bag, f) = {l}
      PROVE  Tells(WittenBell(p.prob, c, stat), label, l) /\ Tells(SetUnconditionedProb(c, stat), label, l)
  <2>1. /\ stat.total_count \in Nat \ {0} /\ stat.unique_count = 1
        /\ c = IF label = l THEN stat.total_count ELSE 0
    BY <1>1, <1>5
  <2> QED
    BY <1>1, <1>3, <2>1, WittenBellTells, SetUnconditionedProbTells
<1>6. next \in MayBeSmoothed(q)
  BY <1>2, <1>4 DEF MayBeSmoothed
<1>7. \A l : LabelsUnder(bag, f) = {l} => Tells(next.prob, label, l)
  BY <1>2, <1>5
<1> QED
  BY <1>6, <1>7 DEF next, c, stat
\* Every label gets a probability, and where the longest feature has been seen
\* with one label, it is above one half for that one only.
LEMMA LabelProbIs ==
  ASSUME NEW bag, IsCounter(bag),
         NEW flags_, flags_.smoothing_type \in {"WittenBell", "Laplace"},
         NEW model_, model_.counts = bag, model_.stats = EndAdding(bag),
         NEW N \in Nat \ {0}, NEW fs, DOMAIN fs = 1 .. N, Len(fs) = N, fs[1] \in FeaturesIn(bag),
         NEW label
  PROVE  LET prob == LabelProb(flags_, model_, fs, label)
         IN /\ prob \in Probs
            /\ \A l : LabelsUnder(bag, fs[N]) = {l} => Tells(prob, label, l)
<1> DEFINE prefix == GetValuePrefixCount(model_.sizes, 0, label)
           q == <<prefix + 1, prefix + GetTotalPrefixCount(model_.sizes, 0) + 1>>
           Count(f) == GetCount(model_.counts, f, label)
           First(f) == IF f \in DOMAIN model_.stats
                       THEN [prob |-> SetUnconditionedProb(Count(f), model_.stats[f]), prob_tmp |-> q]
                       ELSE [prob |-> <<0, 1>>, prob_tmp |-> <<0, 1>>]
           After(x, f, n) == IF f \in DOMAIN model_.stats
                             THEN AddForwardBackoff(flags_, model_, x, Count(f), model_.stats[f], n - 1, label)
                             ELSE x
           IsP(p) == p = [n \in DOMAIN fs |-> IF n = 1 THEN First(fs[n])
                                              ELSE After(p[n - 1], fs[n], n)]
           p == CHOOSE p_ : IsP(p_)
           V == MayBeSmoothed(q)
           first == First(fs[1])
           Told(f, x) == \A l : LabelsUnder(bag, f) = {l} => Tells(x.prob, label, l)
<1>1. LabelProb(flags_, model_, fs, label) = p[N].prob
  BY DEF LabelProb
<1>2. DOMAIN model_.stats = FeaturesIn(bag)
  BY DEF EndAdding
<1>3. first \in V /\ Told(fs[1], first)
  <2>1. first = [prob |-> SetUnconditionedProb(GetCount(bag, fs[1], label), EndAdding(bag)[fs[1]]),
                 prob_tmp |-> q]
    BY <1>2
  <2> HIDE DEF first, q
  <2> QED
    BY <2>1, FirstIs
<1>3a. first \in V
  BY <1>3
<1>4. ASSUME NEW x \in V, NEW n
      PROVE  /\ After(x, fs[n], n) \in V
             /\ fs[n] \in FeaturesIn(bag) => Told(fs[n], After(x, fs[n], n))
  <2>1. CASE fs[n] \in FeaturesIn(bag)
    <3> DEFINE next == AddForwardBackoff(flags_, model_, x, GetCount(bag, fs[n], label),
                                         EndAdding(bag)[fs[n]], n - 1, label)
    <3>1. After(x, fs[n], n) = next
      BY <1>2, <2>1
    <3> HIDE DEF q
    <3>2. next \in V /\ Told(fs[n], next)
      BY <2>1, BackoffIs
    <3> HIDE DEF next, After, V, Told
    <3> QED
      BY <3>1, <3>2
  <2>2. CASE fs[n] \notin FeaturesIn(bag)
    BY <1>2, <2>2
  <2> QED
    BY <2>1, <2>2
<1> HIDE DEF V, first, Told
<1>5. \E g : IsP(g)
  <2> DEFINE step == [z \in V \X (1 .. N) |-> After(z[1], fs[z[2]], z[2])]
  <2> HIDE DEF After
  <2>1. step \in [V \X (1 .. N) -> V]
    BY <1>4
  <2>2. \A x \in V, n \in 1 .. N : step[<<x, n>>] = After(x, fs[n], n)
    OBVIOUS
  <2> HIDE DEF step
  <2>3a. PICK g : GoesByPlaces(g, N, V, first, step)
    BY <1>3a, <2>1, FunctionByPlaces
  <2>3. /\ g \in [1 .. N -> V]
        /\ \A n \in 1 .. N : g[n] = IF n = 1 THEN first ELSE step[<<g[n - 1], n>>]
    BY <2>3a DEF GoesByPlaces
  <2>4. ASSUME NEW n \in 1 .. N
        PROVE  g[n] = IF n = 1 THEN First(fs[n]) ELSE After(g[n - 1], fs[n], n)
    <3>1. CASE n = 1
      BY <2>3, <3>1 DEF first
    <3>2. CASE n # 1
      <4>1. n - 1 \in 1 .. N
        BY <3>2
      <4>2. g[n - 1] \in V
        BY <2>3, <4>1
      <4>3. g[n] = step[<<g[n - 1], n>>]
        BY <2>3, <3>2
      <4>4. step[<<g[n - 1], n>>] = After(g[n - 1], fs[n], n)
        BY <2>2, <4>2
      <4> HIDE DEF First, After
      <4> QED
        BY <3>2, <4>3, <4>4
    <3> QED
      BY <3>1, <3>2
  <2> HIDE DEF First
  <2>5. g = [n \in 1 .. N |-> IF n = 1 THEN First(fs[n]) ELSE After(g[n - 1], fs[n], n)]
    BY <2>3, <2>4
  <2> QED
    BY <2>5
<1>6. IsP(p)
  <2> HIDE DEF IsP
  <2> QED
    BY <1>5
<1> HIDE DEF p, After, First
<1>7. /\ \A n \in 1 .. N : p[n] = IF n = 1 THEN First(fs[n]) ELSE After(p[n - 1], fs[n], n)
      /\ p[1] = first
  BY <1>6 DEF first
<1>8. \A n \in 1 .. N : p[n] \in V
  <2> DEFINE S == {n \in 1 .. N : p[n] \in V}
  <2>1. S \in SUBSET (1 .. N) /\ 1 \in S
    BY <1>3, <1>7
  <2>2. ASSUME NEW n \in 2 .. N, n - 1 \in S
        PROVE  n \in S
    <3>1. p[n] = After(p[n - 1], fs[n], n) /\ p[n - 1] \in V
      BY <1>7, <2>2
    <3> QED
      BY <1>4, <3>1
  <2> HIDE DEF S
  <2>3. S = 1 .. N
    BY <2>1, <2>2, PlacesByInduction
  <2> QED
    BY <2>3 DEF S
<1>9. p[N].prob \in Probs
  <2>1. p[N] \in V
    BY <1>8
  <2> QED
    BY <2>1 DEF V, MayBeSmoothed
<1>10. ASSUME NEW l, LabelsUnder(bag, fs[N]) = {l}
       PROVE  Tells(p[N].prob, label, l)
  <2>1. fs[N] \in FeaturesIn(bag)
    BY <1>10 DEF LabelsUnder, FeaturesIn
  <2>2. Told(fs[N], p[N])
    <3>1. CASE N = 1
      BY <1>3, <1>7, <3>1
    <3>2. CASE N # 1
      <4>1. p[N - 1] \in V /\ p[N] = After(p[N - 1], fs[N], N)
        BY <1>7, <1>8, <3>2
      <4> QED
        BY <1>4, <2>1, <4>1
    <3> QED
      BY <3>1, <3>2
  <2> QED
    BY <1>10, <2>2 DEF Told
<1> QED
  BY <1>1, <1>9, <1>10
\* Above one half is more than one half or less.
LEMMA HalvesDiffer ==
  ASSUME NEW p \in Probs, NEW q \in Probs, 2 * p[1] > p[2], 2 * q[1] <= q[2]
  PROVE  LessProb(q, p) /\ ~LessProb(p, q)
<1> DEFINE a == p[1]
           b == p[2]
           c == q[1]
           d == q[2]
<1>1. a \in Nat /\ b \in Nat /\ c \in Nat /\ d \in Nat \ {0} /\ b + 1 <= 2 * a /\ 2 * c <= d
  BY DEF Probs
<1>2. LessProb(q, p) = (c * b < a * d) /\ LessProb(p, q) = (a * d < c * b)
  BY DEF LessProb
<1> HIDE DEF a, b, c, d
<1>3. (2 * c) * b <= d * b /\ (2 * c) * b = 2 * (c * b) /\ c * b \in Nat /\ d * b \in Nat
  BY <1>1, ProductsGrow
<1>4. d * (b + 1) <= d * (2 * a) /\ d * (b + 1) = d * b + d /\ d * (2 * a) = 2 * (a * d) /\ a * d \in Nat
  <2>1. d * (b + 1) <= d * (2 * a)
    BY <1>1, ProductsGrow
  <2> QED
    BY <1>1, <2>1
<1>5. c * b < a * d
  BY <1>1, <1>3, <1>4
<1>6. ~(a * d < c * b)
  BY <1>3, <1>4, <1>5
<1> QED
  BY <1>2, <1>5, <1>6

\* Which labels of a feature are tried.
OnlyLabel(bag, f, l) == LabelsUnder(bag, f) = {l}
HasPlaces(fs, N) == N \in Nat \ {0} /\ DOMAIN fs = 1 .. N /\ Len(fs) = N

LEMMA BeamIs ==
  ASSUME NEW bag, IsCounter(bag), NEW f, NEW size \in Nat \ {0},
         NEW b \in LabelsSortedByProbability(bag, f, size), NEW l
  PROVE  /\ b \in Seq(LabelsIn(bag))
         /\ OnlyLabel(bag, f, l) => Len(b) = 1 /\ b[1] = l
<1> DEFINE labels == LabelsUnder(bag, f)
           both == {size, Cardinality(labels)}
           n == Min(both)
<1>1. IsFiniteSet(labels) /\ Cardinality(labels) \in Nat
  BY CountsUnderFeature, FS_CardinalityType
<1>2. n \in both /\ \A m \in both : n <= m
  <2>1. both \in SUBSET Nat /\ both # {}
    BY <1>1
  <2> HIDE DEF both
  <2> QED
    BY <2>1, MinIsInSet
<1>3. b \in [1 .. n -> labels]
  BY DEF LabelsSortedByProbability
<1>4. labels \subseteq LabelsIn(bag)
  BY DEF LabelsUnder, LabelsIn
<1>5. n \in Nat
  BY <1>1, <1>2
<1>6. labels # {} => n # 0
  BY <1>1, <1>2, FS_EmptySet
<1>7. labels = {l} => Cardinality(labels) = 1
  BY FS_Singleton
<1> HIDE DEF n
<1>8. b \in Seq(LabelsIn(bag)) /\ Len(b) = n
  BY <1>3, <1>4, <1>5
<1>9. ASSUME labels = {l}
      PROVE  Len(b) = 1 /\ b[1] = l
  <2>1. n = 1
    BY <1>2, <1>5, <1>6, <1>7, <1>9
  <2> QED
    BY <1>3, <1>8, <1>9, <2>1
<1> QED
  BY <1>8, <1>9 DEF OnlyLabel

LEMMA OneMore ==
  ASSUME NEW T, NEW y \in Seq(T), NEW b \in Seq(T), Len(b) = 1
  PROVE  Len(y \o b) = Len(y) + 1 /\ (y \o b)[Len(y) + 1] = b[1]
<1>1. Len(y) \in Nat /\ Len(y) + 1 \in 1 .. Len(y) + Len(b)
  OBVIOUS
<1>2. /\ Len(y \o b) = Len(y) + Len(b)
      /\ \A i \in 1 .. Len(y) + Len(b) : (y \o b)[i] = IF i <= Len(y) THEN y[i] ELSE b[i - Len(y)]
  BY ConcatProperties
<1>3. (y \o b)[Len(y) + 1] = b[Len(y) + 1 - Len(y)]
  BY <1>1, <1>2
<1> QED
  BY <1>1, <1>2, <1>3

Concats(A, B) == {y \o b : y \in A, b \in B}

LEMMA ConcatsAre ==
  ASSUME NEW A, NEW B, NEW e \in Concats(A, B)
  PROVE  \E y \in A : \E b \in B : e = y \o b
  BY DEF Concats

\* The last of the labels that are tried is one of the longest feature.
LEMMA TriedLabelsAre ==
  ASSUME NEW id, NEW s, IsCounter(counts[id]), flags.beam_size \in Nat \ {0},
         NEW N, HasPlaces(FeaturesOf(id, s), N), NEW l, OnlyLabel(counts[id], FeaturesOf(id, s)[N], l),
         NEW t \in TriedLabels(id, s)
  PROVE  t \in Seq(LabelsIn(counts[id])) /\ Len(t) # 0 /\ t[Len(t)] = l
<1> DEFINE fs == FeaturesOf(id, s)
           Beam(f, size) == LabelsSortedByProbability(counts[id], f, size)
           most == Max({1, flags.beam_size})
           Longer(x, f) == Concats(x, Beam(f, flags.beam_size))
           IsTried(g) == g = [n \in DOMAIN fs |-> IF n = 1 THEN Beam(fs[1], most) ELSE Longer(g[n - 1], fs[n])]
           tried == CHOOSE g : IsTried(g)
           first == Beam(fs[1], most)
           V == SUBSET Seq(LabelsIn(counts[id]))
<1>a. N \in Nat \ {0} /\ DOMAIN fs = 1 .. N /\ Len(fs) = N
  BY DEF HasPlaces
<1> USE <1>a
<1>0. ASSUME NEW f, NEW size \in Nat \ {0}, NEW b \in Beam(f, size)
      PROVE  /\ b \in Seq(LabelsIn(counts[id]))
             /\ OnlyLabel(counts[id], f, l) => Len(b) = 1 /\ b[1] = l
  BY BeamIs
<1>1. TriedLabels(id, s) = tried[N]
  BY DEF TriedLabels, Concats
<1> HIDE DEF Beam
<1>2. most \in Nat \ {0}
  <2>1. most = IF flags.beam_size >= 1 THEN flags.beam_size ELSE 1
    BY DEF Max
  <2> QED
    BY <2>1
<1>3. first \in V
  BY <1>0, <1>2
<1>4. ASSUME NEW x \in V, NEW f
      PROVE  Longer(x, f) \in V
  <2> SUFFICES ASSUME NEW e \in Longer(x, f)
               PROVE  e \in Seq(LabelsIn(counts[id]))
    OBVIOUS
  <2>0. PICK y \in x : \E b \in Beam(f, flags.beam_size) : e = y \o b
    BY ConcatsAre
  <2>0a. PICK b \in Beam(f, flags.beam_size) : e = y \o b
    BY <2>0
  <2>1. y \in Seq(LabelsIn(counts[id]))
    OBVIOUS
  <2>2. b \in Seq(LabelsIn(counts[id]))
    BY <1>0
  <2> QED
    BY <2>0a, <2>1, <2>2
<1>4a. ASSUME NEW x, NEW f, NEW e \in Longer(x, f)
       PROVE  \E y \in x : \E b \in Beam(f, flags.beam_size) : e = y \o b
  BY ConcatsAre
<1> HIDE DEF V, first, Longer
<1>5. \E g : IsTried(g)
  <2> DEFINE step == [z \in V \X (1 .. N) |-> Longer(z[1], fs[z[2]])]
  <2>1. step \in [V \X (1 .. N) -> V]
    BY <1>4
  <2>2. \A x \in V, n \in 1 .. N : step[<<x, n>>] = Longer(x, fs[n])
    OBVIOUS
  <2> HIDE DEF step
  <2>3. PICK g : GoesByPlaces(g, N, V, first, step)
    BY <1>3, <2>1, FunctionByPlaces
  <2>4. /\ g \in [1 .. N -> V]
        /\ \A n \in 1 .. N : g[n] = IF n = 1 THEN first ELSE step[<<g[n - 1], n>>]
    BY <2>3 DEF GoesByPlaces
  <2>5. ASSUME NEW n \in 1 .. N
        PROVE  g[n] = IF n = 1 THEN first ELSE Longer(g[n - 1], fs[n])
    <3>1. CASE n = 1
      BY <2>4, <3>1
    <3>2. CASE n # 1
      <4>1. n - 1 \in 1 .. N
        BY <3>2
      <4>2. g[n - 1] \in V
        BY <2>4, <4>1
      <4>3. g[n] = step[<<g[n - 1], n>>]
        BY <2>4, <3>2
      <4>4. step[<<g[n - 1], n>>] = Longer(g[n - 1], fs[n])
        BY <2>2, <4>2
      <4> QED
        BY <3>2, <4>3, <4>4
    <3> QED
      BY <3>1, <3>2
  <2>6. g = [n \in 1 .. N |-> IF n = 1 THEN first ELSE Longer(g[n - 1], fs[n])]
    BY <2>4, <2>5
  <2>7. IsTried(g)
    BY <2>6, Zenon DEF first
  <2> HIDE DEF IsTried
  <2> QED
    BY <2>7
<1>6. IsTried(tried)
  <2> HIDE DEF IsTried
  <2> QED
    BY <1>5
<1> HIDE DEF tried
<1>7. \A n \in 1 .. N : tried[n] = IF n = 1 THEN first ELSE Longer(tried[n - 1], fs[n])
  BY <1>6 DEF first
<1>8. \A n \in 1 .. N : tried[n] \in V
  <2> DEFINE S == {n \in 1 .. N : tried[n] \in V}
  <2>1. S \in SUBSET (1 .. N) /\ 1 \in S
    BY <1>3, <1>7
  <2>2. ASSUME NEW n \in 2 .. N, n - 1 \in S
        PROVE  n \in S
    <3>1. tried[n] = Longer(tried[n - 1], fs[n]) /\ tried[n - 1] \in V
      BY <1>7, <2>2
    <3> QED
      BY <1>4, <3>1
  <2> HIDE DEF S
  <2>3. S = 1 .. N
    BY <2>1, <2>2, PlacesByInduction
  <2> QED
    BY <2>3 DEF S
<1>9. t \in tried[N] /\ t \in Seq(LabelsIn(counts[id]))
  <2>1. tried[N] \in V
    BY <1>8
  <2> QED
    BY <1>1, <2>1 DEF V
<1>10. CASE N = 1
  <2>1. t \in Beam(fs[N], most)
    BY <1>7, <1>9, <1>10 DEF first
  <2>2. Len(t) = 1 /\ t[1] = l
    BY <1>0, <1>2, <2>1
  <2> QED
    BY <1>9, <2>2
<1>11. CASE N # 1
  <2>1. tried[N - 1] \in V /\ t \in Longer(tried[N - 1], fs[N])
    BY <1>7, <1>8, <1>9, <1>11
  <2>1a. PICK f, x : f = fs[N] /\ x = tried[N - 1]
    OBVIOUS
  <2>1b. t \in Longer(x, f)
    BY <2>1, <2>1a
  <2>2. PICK y \in x : \E b \in Beam(f, flags.beam_size) : t = y \o b
    BY <1>4a, <2>1b
  <2>2a. PICK b \in Beam(f, flags.beam_size) : t = y \o b
    BY <2>2
  <2>3. b \in Seq(LabelsIn(counts[id])) /\ Len(b) = 1 /\ b[1] = l
    BY <1>0, <2>1a, <2>2a
  <2>4. y \in Seq(LabelsIn(counts[id]))
    BY <2>1, <2>1a DEF V
  <2>5. Len(t) = Len(y) + 1 /\ t[Len(y) + 1] = l
    BY <2>2a, <2>3, <2>4, OneMore
  <2> QED
    BY <1>9, <2>4, <2>5
<1> QED
  BY <1>9, <1>10, <1>11
\* Any smoothing but that of Kneser-Ney, and a beam that lets labels through.
Plain == flags.smoothing_type # "KneserNey" /\ flags.beam_size > 0

MetricInv ==
  /\ flags \in Flags
  /\ IsFiniteSet(DOMAIN trained) /\ \A s \in DOMAIN trained : trained[s] # 0
  /\ phase # "training" => stats = [id \in Ids(program) |-> EndAdding(counts[id])]
  /\ value \in Nat /\ uncertain \in Nat
  /\ Plain => value <= uncertain

\* The counter of a submodel; where something is counted, the empty feature is.
LEMMA CounterIs ==
  ASSUME ModelInv, MetricInv, NEW id \in Ids(program), ~IsBranched(program, id)
  PROVE  /\ IsCounter(counts[id])
         /\ DOMAIN counts[id] # {} => 0 \in FeaturesIn(counts[id])
<1>1. /\ program \in Programs /\ DOMAIN trained \subseteq Samples
      /\ \A s \in DOMAIN trained : trained[s] \in Nat \ {0}
      /\ \A e : IsFiniteSet(Times_(id, e))
      /\ counts[id] = [e \in Added(id) |-> Cardinality(Times_(id, e))]
      /\ IsFiniteSet(DOMAIN trained)
  BY DEF ModelInv, LoopInv, CountInv, MetricInv
<1> DEFINE New(s) == Range(FeaturesOf(id, s)) \X {GetLabelAtPosition(id, s)}
<1>2. ASSUME NEW s \in Mine(id)
      PROVE  IsFiniteSet(New(s)) /\ <<0, GetLabelAtPosition(id, s)>> \in New(s)
  <2> DEFINE fs == FeaturesOf(id, s)
             l == GetLabelAtPosition(id, s)
  <2>1. s \in Samples
    BY <1>1 DEF Mine
  <2>2. PICK n \in Nat : DOMAIN fs = 1 .. n + 1
    BY <1>1, <2>1, FeaturesAre
  <2>3. fs[1] = 0
    BY <1>1, <2>1, FeaturesAre
  <2> HIDE DEF fs, l
  <2>4. IsFiniteSet(DOMAIN fs)
    BY <2>2, FS_Interval
  <2>5. IsFiniteSet(Range(fs))
    <3>1. Range(fs) = {fs[x] : x \in DOMAIN fs}
      BY DEF Range
    <3> QED
      BY <2>4, <3>1, RangeIsFinite
  <2>6. IsFiniteSet(Range(fs) \X {l})
    BY <2>5, FS_Singleton, FS_Product
  <2>7. <<0, l>> \in Range(fs) \X {l}
    <3>1. 1 \in DOMAIN fs
      BY <2>2
    <3> QED
      BY <2>3, <3>1 DEF Range
  <2> QED
    BY <2>6, <2>7 DEF fs, l
<1>3. Added(id) = UNION {New(s) : s \in Mine(id)}
  BY DEF Added
<1>4. IsFiniteSet(Added(id))
  <2> DEFINE new == [s \in Mine(id) |-> New(s)]
  <2>1. IsFiniteSet(Mine(id))
    BY <1>1, FS_Subset DEF Mine
  <2>2. {New(s) : s \in Mine(id)} = {new[x] : x \in DOMAIN new} /\ DOMAIN new = Mine(id)
    OBVIOUS
  <2> HIDE DEF new, New
  <2>3. IsFiniteSet({New(s) : s \in Mine(id)})
    BY <2>1, <2>2, RangeIsFinite
  <2> QED
    BY <1>2, <1>3, <2>3, FS_UNION
<1>5. ASSUME NEW e \in Added(id)
      PROVE  Cardinality(Times_(id, e)) \in Nat \ {0} /\ e = <<e[1], e[2]>>
  <2>1. PICK s \in Mine(id) : e \in New(s)
    BY <1>3
  <2>2. e = <<e[1], e[2]>> /\ e[1] \in Range(FeaturesOf(id, s)) /\ GetLabelAtPosition(id, s) = e[2]
    BY <2>1
  <2>3. PICK n \in FeaturePlaces(id, s, e[1]) : TRUE
    BY <2>2 DEF FeaturePlaces, Range
  <2>4. 1 \in 1 .. trained[s]
    BY <1>1 DEF Mine
  <2>5. <<<<s, 1>>, n>> \in TimesOf(id, s, e)
    BY <2>3, <2>4 DEF TimesOf
  <2>6. Times_(id, e) # {}
    BY <2>2, <2>5 DEF Times_
  <2> QED
    BY <1>1, <2>2, <2>6, FS_CardinalityType, FS_EmptySet
<1>6. IsCounter(counts[id])
  BY <1>1, <1>4, <1>5 DEF IsCounter
<1>7. ASSUME NEW e \in DOMAIN counts[id]
      PROVE  0 \in FeaturesIn(counts[id])
  <2>1. PICK s \in Mine(id) : e \in New(s)
    BY <1>1, <1>3
  <2>2. <<0, GetLabelAtPosition(id, s)>> \in DOMAIN counts[id]
    <3>1. <<0, GetLabelAtPosition(id, s)>> \in New(s)
      BY <1>2, <2>1
    <3>2. DOMAIN counts[id] = Added(id)
      BY <1>1
    <3> HIDE DEF New
    <3> QED
      BY <1>3, <2>1, <3>1, <3>2
  <2>3. <<0, GetLabelAtPosition(id, s)>>[1] = 0
    OBVIOUS
  <2> QED
    BY <2>2, <2>3 DEF FeaturesIn
<1> QED
  BY <1>6, <1>7

\* A certain sample is predicted, and with more than one half.
LEMMA CertainIsRight ==
  ASSUME ModelInv, MetricInv, Plain, AtSubmodel, phase # "training", Certain(program_id, sample),
         NEW best \in BestLabels(program_id, sample)
  PROVE  ~IsError(best)
<1> DEFINE id == program_id
           s == sample
           fs == FeaturesOf(id, s)
           l == GetLabelAtPosition(id, s)
           bag == counts[id]
           Score_(label) == Score(id, s, label)
<1>1. /\ id \in Ids(program) /\ ~IsBranched(program, id) /\ program \in Programs /\ s \in Samples
      /\ flags.smoothing_type \in {"WittenBell", "Laplace"} /\ flags.beam_size \in Nat \ {0}
      /\ stats[id] = EndAdding(bag)
  BY ModelAssumption DEF ModelInv, LoopInv, MetricInv, Plain, AtSubmodel
<1>2. IsCounter(bag) /\ (DOMAIN bag # {} => 0 \in FeaturesIn(bag))
  BY <1>1, CounterIs
<1>3. PICK N \in Nat \ {0} : DOMAIN fs = 1 .. N /\ Len(fs) = N /\ fs[1] = 0
  <2>1. PICK n \in Nat : DOMAIN fs = 1 .. n + 1
    BY <1>1, FeaturesAre
  <2>2. fs[1] = 0
    BY <1>1, FeaturesAre
  <2>3. fs = [i \in 1 .. n + 1 |-> fs[i]]
    BY <2>1 DEF FeaturesOf
  <2> HIDE DEF fs
  <2>4. Len(fs) = n + 1
    BY <2>3
  <2>5. n + 1 \in Nat \ {0} /\ DOMAIN fs = 1 .. (n + 1)
    BY <2>1
  <2> QED
    BY <2>2, <2>4, <2>5
<1>4. LabelsUnder(bag, fs[N]) = {l}
  BY <1>3 DEF Certain, Last
<1>5. fs[1] \in FeaturesIn(bag) /\ l \in LabelsIn(bag)
  <2>1. PICK e \in DOMAIN bag : e[2] = l
    BY <1>4 DEF LabelsUnder
  <2> QED
    BY <1>2, <1>3, <2>1 DEF LabelsIn
<1>6. ASSUME NEW label
      PROVE  Score_(label) \in Probs /\ Tells(Score_(label), label, l)
  <2> DEFINE model_ == Counter(id)
  <2>1. model_.counts = bag /\ model_.stats = EndAdding(bag)
    BY <1>1 DEF Counter
  <2>2. Score_(label) = LabelProb(flags, model_, fs, label)
    BY DEF Score
  <2> HIDE DEF model_, fs, bag, Score_
  <2>3. LET prob == LabelProb(flags, model_, fs, label)
        IN /\ prob \in Probs
           /\ \A l_ : LabelsUnder(bag, fs[N]) = {l_} => Tells(prob, label, l_)
    BY <1>1, <1>2, <1>3, <1>5, <2>1, LabelProbIs
  <2> QED
    BY <1>4, <2>2, <2>3
<1> HIDE DEF Score_
<1>7. LessProb(<<1, 2>>, Score_(l))
  <2>1. Score_(l) \in Probs /\ 2 * Score_(l)[1] > Score_(l)[2]
    BY <1>6 DEF Tells
  <2> QED
    BY <2>1 DEF LessProb, Probs
<1>8. ~LessProb(Score_(l), Score_(l))
  <2>1. Score_(l) \in Probs
    BY <1>6
  <2>2. \A p \in Probs : ~LessProb(p, p)
    BY DEF LessProb, Probs
  <2> QED
    BY <2>1, <2>2
<1>9. ASSUME NEW label, label # l
      PROVE  LessProb(Score_(label), Score_(l)) /\ ~LessProb(Score_(l), Score_(label))
  <2>1. /\ Score_(l) \in Probs /\ 2 * Score_(l)[1] > Score_(l)[2]
        /\ Score_(label) \in Probs /\ 2 * Score_(label)[1] <= Score_(label)[2]
    BY <1>6, <1>9 DEF Tells
  <2> QED
    BY <2>1, HalvesDiffer
<1>10. best = l
  <2> DEFINE scored == {<<label, Score_(label)>> : label \in LabelsIn(bag)}
             Best(labels) ==
               {p[1] : p \in {q \in scored : /\ q[1] \in labels
                                            /\ \A r \in scored : r[1] \in labels => ~LessProb(q[2], r[2])}}
             First(tried) == tried[Min({i \in DOMAIN tried : tried[i] \in Best(Range(tried))})]
  <2>1. PICK tried \in TriedLabels(id, s) : best = IF tried = <<>> THEN -1 ELSE First(tried)
    BY DEF BestLabels, Score_
  <2>2. tried \in Seq(LabelsIn(bag)) /\ Len(tried) # 0 /\ tried[Len(tried)] = l
    <3>1. OnlyLabel(counts[id], FeaturesOf(id, s)[N], l) /\ HasPlaces(FeaturesOf(id, s), N)
      BY <1>3, <1>4 DEF OnlyLabel, HasPlaces
    <3> HIDE DEF l
    <3> QED
      BY <1>1, <1>2, <3>1, TriedLabelsAre
  <2>3. Len(tried) \in DOMAIN tried /\ DOMAIN tried \in SUBSET Nat
    BY <2>2
  <2>4. Best(Range(tried)) = {l}
    <3> DEFINE q == <<l, Score_(l)>>
    <3> HIDE DEF l, bag
    <3>1. l \in Range(tried)
      BY <2>2, <2>3 DEF Range
    <3>2. q \in scored /\ q[1] = l /\ q[2] = Score_(l)
      BY <1>5
    <3>3. \A r \in scored : r = <<r[1], Score_(r[1])>>
      OBVIOUS
    <3>4. \A r \in scored : ~LessProb(q[2], r[2])
      BY <1>8, <1>9, <3>2, <3>3
    <3>5. ASSUME NEW r \in scored, r[1] # l
          PROVE  LessProb(r[2], q[2])
      BY <1>9, <3>2, <3>3, <3>5
    <3> HIDE DEF q, scored
    <3>6. l \in Best(Range(tried))
      BY <3>1, <3>2, <3>4
    <3>7. ASSUME NEW label \in Best(Range(tried))
          PROVE  label = l
      BY <3>1, <3>2, <3>5
    <3> HIDE DEF Best
    <3> QED
      BY <3>6, <3>7
  <2> DEFINE places == {i \in DOMAIN tried : tried[i] \in Best(Range(tried))}
  <2>5. Min(places) \in places
    <3>1. places \in SUBSET Nat /\ places # {}
      BY <2>2, <2>3, <2>4
    <3> HIDE DEF places
    <3> QED
      BY <3>1, MinIsInSet
  <2>6. First(tried) = l
    BY <2>4, <2>5
  <2>7. tried # <<>>
    BY <2>2
  <2> QED
    BY <2>1, <2>6, <2>7
<1> QED
  BY <1>7, <1>10 DEF IsError, IsLabelBestPrediction, Score_
LEMMA MetricInvStep ==
  ASSUME ModelInv, MetricInv, [Next]_vars
  PROVE  MetricInv'
<1>1. CASE AddSample
  <2>1. /\ AtSubmodel /\ phase = "evaluating" /\ phase' = phase
        /\ UNCHANGED <<inputs, counts, stats, trained>>
        /\ \E best \in BestLabels(program_id, sample) :
             value' = IF IsError(best) THEN value + 1 ELSE value
        /\ uncertain' = IF Certain(program_id, sample) THEN uncertain ELSE uncertain + 1
    BY <1>1 DEF AddSample, model
  <2>2. PICK best \in BestLabels(program_id, sample) :
          value' = IF IsError(best) THEN value + 1 ELSE value
    BY <2>1
  <2>3. Plain /\ Certain(program_id, sample) => ~IsError(best)
    BY <2>1, CertainIsRight
  <2>4. value \in Nat /\ uncertain \in Nat /\ (Plain => value <= uncertain)
    BY DEF MetricInv
  <2>5. value' \in Nat /\ uncertain' \in Nat
    BY <2>1, <2>2, <2>4
  <2>6. Plain => value' <= uncertain'
    BY <2>1, <2>2, <2>3, <2>4
  <2>7. flags' = flags /\ program' = program
    BY <2>1 DEF inputs
  <2>8. Plain' = Plain
    BY <2>7 DEF Plain
  <2> QED
    BY <2>1, <2>5, <2>6, <2>7, <2>8 DEF MetricInv, Ids
<1>2. CASE GenerativeEndTraining
  <2>1. /\ stats' = [id \in Ids(program) |-> EndAdding(counts[id])]
        /\ UNCHANGED <<inputs, counts, trained, value, uncertain>>
    BY <1>2 DEF GenerativeEndTraining, metric, history
  <2>2. flags' = flags /\ program' = program
    BY <2>1 DEF inputs
  <2> QED
    BY <2>1, <2>2 DEF MetricInv, Plain, Ids
<1>3. CASE TrainOneSample
  <2>1. /\ phase = "training" /\ phase' = "training" /\ trained' = trained (+) SetToBag({sample})
        /\ UNCHANGED <<inputs, value, uncertain>>
    BY <1>3 DEF TrainOneSample, metric
  <2>2. flags' = flags /\ program' = program
    BY <2>1 DEF inputs
  <2>3. \A s \in DOMAIN trained : trained[s] \in Nat \ {0}
    BY DEF ModelInv, CountInv, MetricInv
  <2>4. DOMAIN trained' = DOMAIN trained \union {sample} /\ \A s \in DOMAIN trained' : trained'[s] # 0
    BY <2>1, <2>3 DEF (+), SetToBag
  <2>5. IsFiniteSet(DOMAIN trained')
    <3>1. IsFiniteSet(DOMAIN trained)
      BY DEF MetricInv
    <3> QED
      BY <2>4, <3>1, FS_AddElement
  <2> QED
    BY <2>1, <2>2, <2>4, <2>5 DEF MetricInv, Plain
<1>4. CASE UNCHANGED <<inputs, counts, stats, trained, value, uncertain>> 
             /\ (phase = "training" => phase' = "training")
  <2>1. flags' = flags /\ program' = program
    BY <1>4 DEF inputs
  <2> QED
    BY <1>4, <2>1 DEF MetricInv, Plain, Ids
<1> QED
  BY <1>1, <1>2, <1>3, <1>4 DEF Next, Step, Terminated, NextSample, NoSuchProgram, TakeBranch, NoDelta,
     GetComputedValue, vars, model, metric, history
LEMMA MetricInvInit ==
  ASSUME Init
  PROVE  MetricInv
<1>1. DOMAIN trained = {}
  BY DEF Init, EmptyBag, SetToBag
<1>2. IsFiniteSet(DOMAIN trained)
  BY <1>1, FS_EmptySet
<1> QED
  BY <1>1, <1>2 DEF Init, MetricInv

(***************************************************************************)
(* The statistics are those of the counts at the end of training, and the  *)
(* metric has counted no more errors than there were uncertain samples.    *)
(***************************************************************************)
THEOREM MetricInvariance == Spec => []MetricInv
<1>1. Init => MetricInv
  BY MetricInvInit
<1>2. ModelInv /\ MetricInv /\ [Next]_vars => MetricInv'
  BY MetricInvStep
<1> QED
  BY <1>1, <1>2, ModelInvariance, PTL DEF Spec

(***************************************************************************)
(* A context that has been seen with one label only predicts this label,   *)
(* with more than one half: for any programs, samples, hashes that collide *)
(* or not, beams and sizes of the training data.                           *)
(***************************************************************************)
THEOREM ErrorsAreUncertain == Spec => []OnlyUncertainSamplesAreErrors
<1>1. MetricInv => OnlyUncertainSamplesAreErrors
  BY DEF MetricInv, Plain, OnlyUncertainSamplesAreErrors
<1> QED
  BY <1>1, MetricInvariance, PTL
=============================================================================
