----------------------------- MODULE TGenModel -----------------------------
(***************************************************************************)
(* TGenModel (phog/model/model.cpp) as evaluate.cpp drives it: it counts   *)
(* the labels of the training samples under their contexts, ends the       *)
(* training, and predicts the labels of the evaluation samples. A sample   *)
(* is a node with what the TCond programs write when they run from it.     *)
(***************************************************************************)
EXTENDS FeatureCounter, TGenProgram

CONSTANTS
  Programs,             \* the TGen programs
  Samples,              \* nodes: label, links, features
  Flags,                \* what the command line may set
  Fingerprints,         \* the functions FingerprintCat may be
  TEQ_LABEL_INDEX_START,
  TEQ_MAX_LABEL_INDEX,
  TypeBit,              \* the sign bit of a type field, 2^29 in the code, in an int of 32 bits
  MaxTrained, MaxEvaluated   \* bounds on the two sets of samples

ASSUME TypeBitAssumption == TypeBit \in Nat \ {0}

-----------------------------------------------------------------------------
(* EncodeTypeLabel and DecodeTypeLabel (tree.cpp): the type of a node and its
   two links in one int. *)

\* What a narrower field holds of x, and an int back from an unsigned one.
TypeField == 2 * TypeBit
UintRange == 4 * TypeField
AsInt(x) == IF x >= 2 * TypeField THEN x - UintRange ELSE x

\* The types that the CHECK lets through and that the field can hold.
TypeIds == -TypeBit .. TypeBit - 1

EncodeTypeLabel(type, has_first_child, has_right_sib) ==
  AsInt((type % TypeField)
        + (IF has_first_child THEN TypeField ELSE 0)
        + (IF has_right_sib THEN 2 * TypeField ELSE 0))

DecodeTypeLabel(encoded_label) ==
  LET x     == encoded_label % UintRange
      field == x % TypeField
  IN [type            |-> IF field >= TypeBit THEN field - TypeField ELSE field,
      has_first_child |-> (x \div TypeField) % 2 = 1,
      has_right_sib   |-> x >= 2 * TypeField]

-----------------------------------------------------------------------------

\* The labels of nodes, -1 and -2 among them, are above those of Eq programs,
\* and all of them have room in the type field; contexts are finite.
ASSUME ModelAssumption ==
  /\ \A p \in Programs : Len(p) \in Nat
  /\ TEQ_LABEL_INDEX_START \in Int /\ TEQ_LABEL_INDEX_START < 0
  /\ TEQ_MAX_LABEL_INDEX \in Nat
  /\ -TypeBit < TEQ_LABEL_INDEX_START - TEQ_MAX_LABEL_INDEX
  /\ \A s \in Samples :
       /\ s.label \in TypeIds /\ s.label > TEQ_LABEL_INDEX_START
       /\ s.has_first_child \in BOOLEAN /\ s.has_right_sib \in BOOLEAN
       /\ \A p \in Programs : \A id \in Ids(p) :
            ~IsBranched(p, id) => Len(s.features[Entry(p, id).context_program]) \in Nat
  /\ \A f \in Flags : /\ f.smoothing_type \in {"WittenBell", "Laplace", "KneserNey"}
                       /\ f.beam_size \in Int

VARIABLES
  flags, program, fingerprint,   \* fixed
  counts, sizes,          \* what counts_ holds: the counts, the sizes of the keys,
  stats, deltas,          \* and what EndAdding computes
  phase,                  \* the loop of evaluate.cpp that is running
  pc,                     \* between samples, in a branched program, aborted
  sample,
  program_id, call_length,
  num_samples, value,     \* of the evaluation metric
  trained,                \* history: the training samples, a bag
  uncertain               \* history: evaluated with no certain label

inputs == <<flags, program, fingerprint>>
model == <<counts, sizes, stats, deltas>>
metric == <<num_samples, value>>
history == <<trained, uncertain>>
vars == <<inputs, model, phase, pc, sample, program_id, call_length, metric, history>>

\* What a TCond program writes at the sample.
Execute(s, tcond) == s.features[tcond]

GetSubmodelBranch(id, s) ==
  BranchTarget(Entry(program, id), Execute(s, Entry(program, id).cond))

\* The entries that the gotos lead to from id, and the submodel among them.
Closed(S, s) ==
  \A id \in S : IsBranched(program, id) => GetSubmodelBranch(id, s) \notin Ids(program) \ S

Reached(id, s) ==
  LET closed == {S \in SUBSET Ids(program) : id \in S /\ Closed(S, s)}
  IN {i \in Ids(program) : \A S \in closed : i \in S}

SubmodelFrom(id, s) ==
  IF IsBranched(program, id) THEN CHOOSE leaf \in Reached(id, s) : ~IsBranched(program, leaf)
  ELSE id

\* A program that is given by its id: a branched one runs the one it goes to.
\* The code gets to a submodel before, so that no condition runs here and
\* moves the cursor an Eq program starts from.
ExecuteContextProgramByIdInAll(program_id_in_all, s) ==
  Execute(s, Entry(program, SubmodelFrom(program_id_in_all, s)).context_program)

ExecuteEqProgramByIdInAll(program_id_in_all, s) ==
  Execute(s, Entry(program, SubmodelFrom(program_id_in_all, s)).eq_program)

\* The features of a context, the empty one first.
FeaturesOf(id, s) ==
  LET context == ExecuteContextProgramByIdInAll(id, s)
      hash    == PrefixHashes(fingerprint, context)
  IN [n \in 1 .. Len(context) + 1 |-> IF n = 1 THEN 0 ELSE hash[n - 1]]

-----------------------------------------------------------------------------
\* A label that the Eq program has met is named by where it was met first.
EqLabel(label, ops) ==
  LET met == {i \in 1 .. TEQ_MAX_LABEL_INDEX : i <= Len(ops) /\ ops[i] = label}
  IN IF label \in Nat /\ met # {} THEN TEQ_LABEL_INDEX_START - (Min(met) - 1) ELSE label

GetLabelAtPosition(id, s) ==
  LET label == IF flags.enable_teq THEN EqLabel(s.label, ExecuteEqProgramByIdInAll(id, s))
               ELSE s.label
  IN IF flags.is_for_node_type
     THEN EncodeTypeLabel(label, s.has_first_child, s.has_right_sib)
     ELSE label

\* The counter of a submodel.
Counter(id) == [counts |-> counts[id], sizes |-> sizes[id], stats |-> stats[id], deltas |-> deltas[id]]

Score(id, s, label) == LabelProb(flags, Counter(id), FeaturesOf(id, s), label)

\* The labels that GetBestLabelLogProb may try, in order: the beam_size most
\* frequent ones of every feature, and one at least of the empty feature.
TriedLabels(id, s) ==
  LET fs == FeaturesOf(id, s)
      Beam(f, size) == LabelsSortedByProbability(counts[id], f, size)
      tried[n \in DOMAIN fs] ==
        IF n = 1 THEN Beam(fs[1], Max({1, flags.beam_size}))
        ELSE {t \o b : t \in tried[n - 1], b \in Beam(fs[n], flags.beam_size)}
  IN tried[Len(fs)]

\* What it may return: the first of the best labels that it has tried.
BestLabels(id, s) ==
  LET scored == {<<label, Score(id, s, label)>> : label \in LabelsIn(counts[id])}
      Best(labels) ==
        {p[1] : p \in {q \in scored : /\ q[1] \in labels
                                     /\ \A r \in scored : r[1] \in labels => ~LessProb(q[2], r[2])}}
      First(tried) == LET best == Best(Range(tried))
                      IN tried[Min({i \in DOMAIN tried : tried[i] \in best})]
  IN {IF tried = <<>> THEN -1 ELSE First(tried) : tried \in TriedLabels(id, s)}

\* The context has been seen with one label, the one the sample has.
Certain(id, s) ==
  LET fs == FeaturesOf(id, s)
  IN LabelsUnder(counts[id], Last(fs)) = {GetLabelAtPosition(id, s)}

-----------------------------------------------------------------------------
Init ==
  /\ flags \in Flags /\ program \in Programs /\ fingerprint \in Fingerprints
  /\ counts = [id \in Ids(program) |-> EmptyBag]
  /\ sizes = [id \in Ids(program) |-> <<>>]
  /\ stats = [id \in Ids(program) |-> <<>>]
  /\ deltas = [id \in Ids(program) |-> <<>>]
  /\ phase = "training" /\ pc = "ready"
  /\ sample \in Samples
  /\ program_id = Len(program) - 1 /\ call_length = 0
  /\ num_samples = 0 /\ value = 0
  /\ trained = EmptyBag /\ uncertain = 0

\* A bug: call_length is a member, and not reset.
NextSample_KeepsLength ==
  /\ pc = "ready"
  /\ \/ phase = "training" /\ BagCardinality(trained) < MaxTrained
     \/ phase = "evaluating" /\ num_samples < MaxEvaluated
  /\ sample' \in Samples
  /\ program_id' = Len(program) - 1
  /\ num_samples' = IF phase = "evaluating" THEN num_samples + 1 ELSE num_samples
  /\ pc' = "branch"
  /\ UNCHANGED <<inputs, model, phase, call_length, value, history>>

\* The next node of a tree: start_program_id is the last entry.
NextSample ==
  /\ pc = "ready"
  /\ \/ phase = "training" /\ BagCardinality(trained) < MaxTrained
     \/ phase = "evaluating" /\ num_samples < MaxEvaluated
  /\ sample' \in Samples
  /\ program_id' = Len(program) - 1
  /\ call_length' = 0
  /\ num_samples' = IF phase = "evaluating" THEN num_samples + 1 ELSE num_samples
  /\ pc' = "branch"
  /\ UNCHANGED <<inputs, model, phase, value, history>>

\* program_type: the id is not that of an entry.
NoSuchProgram ==
  /\ pc = "branch" /\ program_id \notin Ids(program)
  /\ pc' = "aborted"
  /\ UNCHANGED <<inputs, model, phase, sample, program_id, call_length, metric, history>>

InBranched == pc = "branch" /\ program_id \in Ids(program) /\ IsBranched(program, program_id)
AtSubmodel == pc = "branch" /\ program_id \in Ids(program) /\ ~IsBranched(program, program_id)

\* A bug: the rounds are not counted.
TakeBranch_Uncounted ==
  /\ InBranched
  /\ program_id' = GetSubmodelBranch(program_id, sample)
  /\ UNCHANGED <<inputs, model, phase, pc, sample, call_length, metric, history>>

\* A round of the loop, up to its CHECK.
TakeBranch ==
  /\ InBranched
  /\ program_id' = GetSubmodelBranch(program_id, sample)
  /\ call_length' = call_length + 1
  /\ pc' = IF call_length' <= Len(program) THEN "branch" ELSE "aborted"
  /\ UNCHANGED <<inputs, model, phase, sample, metric, history>>

\* A bug: the counter is that of the program the sample started with.
TrainOneSample_AtStart ==
  /\ AtSubmodel /\ phase = "training"
  /\ LET label == GetLabelAtPosition(program_id, sample)
     IN /\ counts' = [counts EXCEPT ![Len(program) - 1] =
                        AddValues(@, FeaturesOf(program_id, sample), label)]
        /\ sizes' = [sizes EXCEPT ![program_id] = KeySizes(@, FeaturesOf(program_id, sample), label)]
  /\ trained' = trained (+) SetToBag({sample})
  /\ pc' = "ready"
  /\ UNCHANGED <<inputs, stats, deltas, phase, sample, program_id, call_length, metric, uncertain>>

\* The rest of GenerativeTrainOneSample: the label is counted under every
\* feature of the context.
TrainOneSample ==
  /\ AtSubmodel /\ phase = "training"
  /\ LET label == GetLabelAtPosition(program_id, sample)
     IN /\ counts' = [counts EXCEPT ![program_id] =
                        AddValues(@, FeaturesOf(program_id, sample), label)]
        /\ sizes' = [sizes EXCEPT ![program_id] = KeySizes(@, FeaturesOf(program_id, sample), label)]
  /\ trained' = trained (+) SetToBag({sample})
  /\ pc' = "ready"
  /\ UNCHANGED <<inputs, stats, deltas, phase, sample, program_id, call_length, metric, uncertain>>

GenerativeEndTraining ==
  /\ phase = "training" /\ pc = "ready"
  /\ stats' = [id \in Ids(program) |-> EndAdding(counts[id])]
  /\ deltas' = [id \in Ids(program) |->
                  IF flags.smoothing_type = "KneserNey" THEN Deltas(counts[id], sizes[id]) ELSE <<>>]
  /\ phase' = "evaluating"
  /\ UNCHANGED <<inputs, counts, sizes, pc, sample, program_id, call_length, metric, history>>

IsLabelBestPrediction(best) == best = GetLabelAtPosition(program_id, sample)

\* The rest of AddSample: whether the sample counts as an error.
IsError(best) ==
  IF flags.metric = "ERROR_RATE" THEN ~IsLabelBestPrediction(best)
  ELSE ~LessProb(<<1, 2>>, Score(program_id, sample, GetLabelAtPosition(program_id, sample)))

AddSample ==
  /\ AtSubmodel /\ phase = "evaluating"
  /\ HasDeltas(flags, Counter(program_id), FeaturesOf(program_id, sample))
  /\ \E best \in BestLabels(program_id, sample) :
       value' = IF IsError(best) THEN value + 1 ELSE value
  /\ uncertain' = IF Certain(program_id, sample) THEN uncertain ELSE uncertain + 1
  /\ pc' = "ready"
  /\ UNCHANGED <<inputs, model, phase, sample, program_id, call_length, num_samples, trained>>

\* GetKneserNeyDelta finds no estimates for features of this size.
NoDelta ==
  /\ AtSubmodel /\ phase = "evaluating"
  /\ ~HasDeltas(flags, Counter(program_id), FeaturesOf(program_id, sample))
  /\ pc' = "no_delta"
  /\ UNCHANGED <<inputs, model, phase, sample, program_id, call_length, metric, history>>

GetComputedValue ==
  /\ phase = "evaluating" /\ pc = "ready"
  /\ phase' = "done"
  /\ UNCHANGED <<inputs, model, pc, sample, program_id, call_length, metric, history>>

Step ==
  \/ NextSample \/ NoSuchProgram \/ TakeBranch \/ TrainOneSample
  \/ GenerativeEndTraining \/ AddSample \/ NoDelta \/ GetComputedValue

Terminated == (phase = "done" \/ pc \in {"aborted", "no_delta"}) /\ UNCHANGED vars

Next == Step \/ Terminated

Spec == Init /\ [][Next]_vars

\* The loop over the branched programs runs until it ends.
FairSpec == Spec /\ WF_vars(TakeBranch \/ NoSuchProgram)

-----------------------------------------------------------------------------
TypeOK ==
  /\ \A id \in Ids(program) : IsABag(counts[id])
  /\ \A id \in Ids(program) : DOMAIN stats[id] \subseteq FeaturesIn(counts[id])
  /\ phase \in {"training", "evaluating", "done"}
  /\ pc \in {"ready", "branch", "aborted", "no_delta"}
  /\ sample \in Samples
  /\ call_length \in 0 .. Len(program) + 1
  /\ num_samples \in 0 .. MaxEvaluated /\ value \in 0 .. num_samples
  /\ BagCardinality(trained) \in 0 .. MaxTrained /\ uncertain \in 0 .. num_samples

(***************************************************************************)
(* The CHECKs on ids and on call_length never fail on a program whose      *)
(* gotos go back, as those of all synthesized programs do: the limit on    *)
(* the calls stops no program that would have ended.                       *)
(***************************************************************************)
ChecksHold == Len(program) # 0 /\ BackwardGotos(program) => pc # "aborted"

\* The submodel of a sample, by following the gotos from the last entry.
Submodel(s) == SubmodelFrom(Len(program) - 1, s)

EncodedLabelsAreDistinct ==
  AtSubmodel =>
    \A label \in {s.label : s \in Samples}, fc, rs \in BOOLEAN :
      LET other == [label |-> label, has_first_child |-> fc, has_right_sib |-> rs,
                    features |-> sample.features]
      IN GetLabelAtPosition(program_id, other) = GetLabelAtPosition(program_id, sample) =>
           /\ label = sample.label
           /\ flags.is_for_node_type =>
                fc = sample.has_first_child /\ rs = sample.has_right_sib

LabelsDecode ==
  AtSubmodel /\ flags.is_for_node_type =>
    LET ops     == IF flags.enable_teq THEN ExecuteEqProgramByIdInAll(program_id, sample)
                   ELSE <<>>
        decoded == DecodeTypeLabel(GetLabelAtPosition(program_id, sample))
    IN decoded = [type            |-> EqLabel(sample.label, ops),
                  has_first_child |-> sample.has_first_child,
                  has_right_sib   |-> sample.has_right_sib]

(***************************************************************************)
(* A counter holds, for a feature and a label, how often the training      *)
(* samples of its submodel with this label had the feature, and nothing    *)
(* that another submodel, or a sample still in the loop, has added. What   *)
(* is counted stands for one label and one pair of links: no two labels    *)
(* that a node could have here get the same number, also when an Eq program*)
(* has replaced the label, and the number of a node type decodes to them.  *)
(***************************************************************************)
CountsAreExact ==
  /\ EncodedLabelsAreDistinct /\ LabelsDecode
  /\ LET led == {<<s, Submodel(s)>> : s \in DOMAIN trained} IN
     \A id \in Ids(program) :
       LET mine    == {s \in DOMAIN trained : <<s, id>> \in led}
           places  == UNION {{<<s, n, FeaturesOf(id, s)[n], GetLabelAtPosition(id, s)>> :
                                n \in DOMAIN FeaturesOf(id, s)} : s \in mine}
           Seen(e) == UNION {({p[1]} \X (1 .. trained[p[1]])) \X {p[2]} :
                               p \in {q \in places : <<q[3], q[4]>> = e}}
       IN /\ DOMAIN counts[id] = {<<p[3], p[4]>> : p \in places}
          /\ \A e \in DOMAIN counts[id] : counts[id][e] = Cardinality(Seen(e))

\* What a ValueCounter holds that has been given the labels of a submodel.
LabelsOf(id) ==
  LET labels == LabelsIn(counts[id])
      Samples_(label) == {s \in DOMAIN trained : Submodel(s) = id /\ GetLabelAtPosition(id, s) = label}
  IN [label \in labels |-> MapThenSumSet(LAMBDA s : trained[s], Samples_(label))]

\* No two beginnings of contexts have the same fingerprint.
HashesAreDistinct ==
  LET contexts == UNION {Prefixes(c) : c \in UNION {Range(s.features) : s \in Samples}}
  IN IsInjective([c \in contexts |-> Last(<<0>> \o PrefixHashes(fingerprint, c))])

ProbabilitiesSumToOne ==
  phase = "evaluating" /\ num_samples = 0 =>
    \A id \in Ids(program) :
      LET labels == LabelsIn(counts[id])
          unseen == Max(labels \union {0}) + 1
          SumsToOne(Prob(_)) ==
            LET probs == {<<label, Prob(label)>> : label \in labels \union {unseen}}
            IN MapThenSumSet(LAMBDA p : p[2][1], probs) = (CHOOSE p \in probs : TRUE)[2][2]
          Counted(label) == EstimateProbability(LabelsOf(id), label)
          Unconditioned(label) == SetUnconditionedProb(GetCount(counts[id], 0, label), stats[id][0])
      IN ~IsBranched(program, id) /\ labels # {} =>
           /\ SumsToOne(Counted)
           /\ \A label \in labels \union {unseen} : ~LessProb(MaxProbability(LabelsOf(id)), Counted(label))
           /\ flags.smoothing_type = "WittenBell" =>
                \A s \in Samples : SumsToOne(LAMBDA label : Score(id, s, label))
           /\ HashesAreDistinct =>
                \A label \in labels \union {unseen} : Counted(label) = Unconditioned(label)

LabelsHaveProbabilities ==
  /\ pc = "no_delta" => ~HashesAreDistinct
  /\ phase = "evaluating" /\ num_samples = 0 /\ HashesAreDistinct =>
       \A id \in Ids(program) : \A s \in Samples :
         ~IsBranched(program, id) /\ LabelsIn(counts[id]) # {} =>
           \A label \in LabelsIn(counts[id]) \union {Max(LabelsIn(counts[id]) \union {0}) + 1} :
             LET p == Score(id, s, label)
             IN p[1] <= p[2] /\ (flags.kneser_ney_d = Estimated => 0 < p[1])

(***************************************************************************)
(* The probabilities of all labels a submodel has seen, and of one it has  *)
(* not, add up to one: with Witten-Bell smoothing under every context, met *)
(* in training or not, and also when the hashes of two features collide;   *)
(* and in a ValueCounter, which agrees with a context that is empty. And   *)
(* every label gets a probability above zero and no more than one from a   *)
(* submodel that has seen a sample, so that no sum of logarithms becomes   *)
(* infinite ("Avoid asigning zero probability"), and the estimates that    *)
(* Kneser-Ney smoothing needs are there; unless hashes collide, or the d   *)
(* of the command line takes everything off the counts.                    *)
(***************************************************************************)
ProbabilitiesAreSound == ProbabilitiesSumToOne /\ LabelsHaveProbabilities

(***************************************************************************)
(* Unless Kneser-Ney smoothing takes as much off as it likes, a sample     *)
(* counts as an error only where training was not clear about it: a        *)
(* context seen with one label only predicts this label, with a            *)
(* probability above one half, however few samples have shown it and       *)
(* however small the beam is, if it tries anything but the most frequent   *)
(* label of all.                                                           *)
(***************************************************************************)
OnlyUncertainSamplesAreErrors ==
  flags.smoothing_type # "KneserNey" /\ flags.beam_size > 0 => value <= uncertain

(***************************************************************************)
(* The loop over the branched programs ends, at a submodel or at a failed  *)
(* CHECK, on any program: gotos in a circle are stopped.                   *)
(***************************************************************************)
BranchLoopEnds == pc = "branch" ~> AtSubmodel \/ pc = "aborted"
=============================================================================
