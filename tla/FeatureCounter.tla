--------------------------- MODULE FeatureCounter ---------------------------
(***************************************************************************)
(* PerFeatureValueCounter and Smoothing (phog/tree/pbox.h): how often each *)
(* label was seen with each feature, and the probability of a label under  *)
(* the features of a context, from the empty one to the longest. A feature *)
(* is known by its hash only; a probability is a fraction <<n, d>>.        *)
(***************************************************************************)
EXTENDS Integers, Sequences, FiniteSets, Bags, FiniteSetsExt, SequencesExt

\* Fractions in lowest terms.
Reduced(p) ==
  LET gcd[a \in Nat, b \in Nat] == IF b = 0 THEN a ELSE gcd[b, a % b]
      d == gcd[p[1], p[2]]
  IN <<p[1] \div d, p[2] \div d>>
Plus(p, q)  == Reduced(<<p[1] * q[2] + q[1] * p[2], p[2] * q[2]>>)
Monus(p, q) == Reduced(<<Max({0, p[1] * q[2] - q[1] * p[2]}), p[2] * q[2]>>)
Times(p, q) == Reduced(<<p[1] * q[1], p[2] * q[2]>>)
Over(p, n)  == Reduced(<<p[1], p[2] * n>>)

\* The flag kneser_ney_d is -1: the deltas are estimated.
Estimated == <<-1, 1>>

\* SequenceHashFeature::PushBack along a context, from the empty feature, 0.
PrefixHashes(FingerprintCat, context) ==
  LET hash[n \in DOMAIN context] == FingerprintCat[IF n = 1 THEN 0 ELSE hash[n - 1], context[n]]
  IN hash

\* AddValue for each of the features: feature_value_counts_ is a bag of pairs.
AddValues(counts, features, label) ==
  counts (+) [e \in Range(features) \X {label} |->
                Cardinality({n \in DOMAIN features : features[n] = e[1]})]

GetCount(counts, feature, label) ==
  IF <<feature, label>> \in DOMAIN counts THEN counts[<<feature, label>>] ELSE 0

FeaturesIn(counts) == {e[1] : e \in DOMAIN counts}
LabelsIn(counts) == {e[2] : e \in DOMAIN counts}
LabelsUnder(counts, feature) == {e[2] : e \in {d \in DOMAIN counts : d[1] = feature}}

\* What was added under a feature, one by one, has this number.
TotalCount(counts, feature) ==
  Cardinality(UNION {{label} \X (1 .. GetCount(counts, feature, label)) :
                       label \in LabelsUnder(counts, feature)})

\* FeatureStats, after AddValue for every label under the feature.
FeatureStats(counts, feature) ==
  LET labels == LabelsUnder(counts, feature)
      Count(label) == GetCount(counts, feature, label)
  IN [total_count  |-> TotalCount(counts, feature),
      unique_count |-> Cardinality(labels),
      counts       |-> [i \in 1 .. 3 |-> Cardinality({label \in labels : Min({Count(label), 3}) = i})]]

\* EndAdding computes these; sorted_by_prob_ is sorted by them when used.
EndAdding(counts) == [feature \in FeaturesIn(counts) |-> FeatureStats(counts, feature)]

LessProb(p, q) == p[1] * q[2] < q[1] * p[2]

\* FeatureStats::GetMLProb, which CalculateProb puts in the place of the counts.
GetMLProb(counts, feature, label) ==
  <<GetCount(counts, feature, label), TotalCount(counts, feature)>>

\* The first n of sorted_by_prob_; equal ones are ordered by their addresses.
LabelsSortedByProbability(counts, feature, n) ==
  LET labels == LabelsUnder(counts, feature)
      prob   == [label \in labels |-> GetMLProb(counts, feature, label)]
  IN {s \in [1 .. Min({n, Cardinality(labels)}) -> labels] :
        /\ IsInjective(s)
        /\ \A i \in DOMAIN s : \A j \in 1 .. i - 1 : ~LessProb(prob[s[j]], prob[s[i]])
        /\ \A i \in DOMAIN s : \A label \in labels \ Range(s) : ~LessProb(prob[s[i]], prob[label])}

-----------------------------------------------------------------------------
(***************************************************************************)
(* ValueCounter: how often each value was added, in a bag, and with what   *)
(* probability it comes, one more being left for a value not met.          *)
(***************************************************************************)
Z(values) == BagCardinality(values) + Cardinality(DOMAIN values) + 1

UnmetProb(values) == <<1, Z(values)>>

\* MaxLogProbability: that of the first of sorted_by_prob_, if there is one.
MaxProbability(values) ==
  IF DOMAIN values = {} THEN UnmetProb(values)
  ELSE <<Max({values[v] : v \in DOMAIN values}) + 1, Z(values)>>

EstimateProbability(values, value) ==
  IF value \in DOMAIN values THEN <<values[value] + 1, Z(values)>> ELSE UnmetProb(values)

-----------------------------------------------------------------------------
(***************************************************************************)
(* The statistics of Kneser-Ney smoothing, by the size of the features. A  *)
(* key keeps the size of the feature that was first added with its hash.   *)
(***************************************************************************)
KeySizes(sizes, features, label) ==
  [e \in DOMAIN sizes \union (Range(features) \X {label}) |->
     IF e \in DOMAIN sizes THEN sizes[e] ELSE Min({n \in DOMAIN features : features[n] = e[1]}) - 1]

KeysOfSize(sizes, size) == {e \in DOMAIN sizes : sizes[e] = size}

\* AddFeatureForValue: with how many features of a size a label was seen.
GetValuePrefixCount(sizes, size, label) ==
  Cardinality({e \in KeysOfSize(sizes, size) : e[2] = label})
GetTotalPrefixCount(sizes, size) == Cardinality(KeysOfSize(sizes, size))

\* AddCount: how many of the counts are 1, 2, 3 and more.
CountOfCounts(countings) ==
  [n \in 1 .. 4 |-> Cardinality({c \in countings : Min({c.count, 4}) = n})]

\* KneserNeyDelta::EndAdding, for the counts n: i - (i + 1) Y n_{i+1} / n_i,
\* where Y is n_1 / (n_1 + 2 n_2), and no less than 0 and no more than 1.
Delta(n, i) ==
  LET z == n[1] + 2 * n[2]
  IN IF z = 0 \/ n[i] = 0 THEN <<0, 1>>
     ELSE Reduced(<<Max({0, Min({n[i] * z, i * n[i] * z - (i + 1) * n[1] * n[i + 1]})}), n[i] * z>>)

\* The counts of the longest features are what they were added with, those of
\* the others are prefix counts.
Deltas(counts, sizes) ==
  LET orders == Range(sizes)
      countings(size) ==
        IF size = Max(orders)
        THEN {[key |-> e, count |-> counts[e]] : e \in KeysOfSize(sizes, size)}
        ELSE {[key |-> label, count |-> GetValuePrefixCount(sizes, size, label)] :
                label \in {e[2] : e \in KeysOfSize(sizes, size)}}
  IN [size \in orders |-> [i \in 1 .. 3 |-> Delta(CountOfCounts(countings(size)), i)]]

\* A count of zero has no delta.
GetDelta(delta, count) == IF count = 0 THEN <<0, 1>> ELSE delta[Min({count, 3})]

-----------------------------------------------------------------------------
(***************************************************************************)
(* Smoothing: prob is the probability so far, prob_tmp that of Kneser-Ney  *)
(* for the lower orders.                                                   *)
(***************************************************************************)
\* A bug: nothing is added for the other labels.
SetUnconditionedProb_NoLabels(count, stat) == <<count + 1, stat.total_count + 1>>

SetUnconditionedProb(count, stat) == <<count + 1, stat.total_count + stat.unique_count + 1>>

\* A bug: lambda is one minus unique / total.
WittenBell_OverTotal(prob, count, stat) ==
  <<(stat.total_count - stat.unique_count) * count * prob[2]
      + stat.unique_count * stat.total_count * prob[1],
    stat.total_count * stat.total_count * prob[2]>>

\* lambda is total / (unique + total), and lambda times count / total is a
\* fraction of unique + total again.
WittenBell(prob, count, stat) ==
  <<count * prob[2] + stat.unique_count * prob[1],
    (stat.unique_count + stat.total_count) * prob[2]>>

\* max(count - d, 0), and what was taken off, given back by prob; over total.
Discounted(count, d, given, prob, total) ==
  Over(Plus(Monus(<<count, 1>>, d), Times(given, prob)), total)

\* With a d that is given, and with the deltas estimated.
KneserNeyFixed(d, p, count, stat, prefix_count, total_prefix_count) ==
  [prob     |-> Discounted(count, d, Times(d, <<stat.unique_count, 1>>), p.prob_tmp, stat.total_count),
   prob_tmp |-> Discounted(prefix_count, d, Times(d, <<prefix_count, 1>>), p.prob_tmp, total_prefix_count)]

AvoidZero(prob, count, stat) ==
  IF prob[1] = 0 THEN <<1 + count, 1 + stat.unique_count + stat.total_count>> ELSE prob

KneserNey(delta, p, count, stat, prefix_count, total_prefix_count) ==
  LET given == FoldFunction(Plus, <<0, 1>>, [i \in 1 .. 3 |-> Times(delta[i], <<stat.counts[i], 1>>)])
  IN [prob     |-> AvoidZero(Discounted(count, GetDelta(delta, count), given, p.prob_tmp, stat.total_count),
                             count, stat),
      prob_tmp |-> Discounted(prefix_count, GetDelta(delta, prefix_count), given, p.prob_tmp,
                              total_prefix_count)]

\* flags has smoothing_type and kneser_ney_d; size is that of the feature.
AddForwardBackoff(flags, model, p, count, stat, size, label) ==
  LET prefix_count       == GetValuePrefixCount(model.sizes, size, label)
      total_prefix_count == GetTotalPrefixCount(model.sizes, size)
  IN CASE flags.smoothing_type = "WittenBell" -> [p EXCEPT !.prob = WittenBell(@, count, stat)]
       [] flags.smoothing_type = "Laplace"    -> [p EXCEPT !.prob = SetUnconditionedProb(count, stat)]
       [] flags.smoothing_type = "KneserNey" /\ flags.kneser_ney_d # Estimated ->
            KneserNeyFixed(flags.kneser_ney_d, p, count, stat, prefix_count, total_prefix_count)
       [] flags.smoothing_type = "KneserNey" /\ flags.kneser_ney_d = Estimated ->
            KneserNey(model.deltas[size], p, count, stat, prefix_count, total_prefix_count)

\* The CHECK of GetKneserNeyDelta, for all features that are looked up.
HasDeltas(flags, model, features) ==
  flags.smoothing_type = "KneserNey" =>
    \A n \in 2 .. Len(features) :
      features[n] \in DOMAIN model.stats => n - 1 \in DOMAIN model.deltas

\* features are those of a context, the empty one first; p[n] is what the
\* first n of them give.
LabelProb(flags, model, features, label) ==
  LET prefix == GetValuePrefixCount(model.sizes, 0, label)
      Count(f) == GetCount(model.counts, f, label)
      p[n \in DOMAIN features] ==
        LET f == features[n] IN
        IF n = 1
        THEN IF f \in DOMAIN model.stats
             THEN [prob     |-> SetUnconditionedProb(Count(f), model.stats[f]),
                   prob_tmp |-> <<prefix + 1, prefix + GetTotalPrefixCount(model.sizes, 0) + 1>>]
             ELSE [prob |-> <<0, 1>>, prob_tmp |-> <<0, 1>>]
        ELSE IF f \in DOMAIN model.stats
             THEN AddForwardBackoff(flags, model, p[n - 1], Count(f), model.stats[f], n - 1, label)
             ELSE p[n - 1]
  IN p[Len(features)].prob
=============================================================================
