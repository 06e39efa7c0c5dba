------------------------------- MODULE Reasoning -------------------------------
(***************************************************************************)
(* What the pure code makes of the owner's choices: evidence becomes       *)
(* preferences (preferences/aggregation.py), preferences and past choices  *)
(* rank the options of a decision (decisions/predictor.py over             *)
(* learning/pairwise.py), outcomes and goals weigh the advice              *)
(* (decisions/advisor.py).  A state is one case: what there is to learn    *)
(* from and what is to be decided, each spelled in some way.               *)
(*                                                                         *)
(* Numbers are integers: a feature's value in halves, since two names of   *)
(* one key are averaged, everything else in hundredths; the logistic curve *)
(* is its tangent at 0, clipped.  Identifiers, dates and texts are left    *)
(* out.                                                                    *)
(***************************************************************************)
EXTENDS Integers, FiniteSets, Sequences, FiniteSetsExt, SequencesExt

VARIABLE given

-----------------------------------------------------------------------------
\* Names.  "noise" is an alias of "quiet" with the opposite polarity; "Quiet"
\* has the same normalized form and no alias.
NormalForm(name) == IF name = "Quiet" THEN "quiet" ELSE name
AliasOf(name) == IF name = "noise" THEN [key |-> "quiet", polarity |-> -1]
                                   ELSE [key |-> name, polarity |-> 1]

\* A name the model does not know falls back to a model key of the same form.
ResolveName(name, known) ==
  LET r == AliasOf(name)
      alike == {k \in known : NormalForm(k) = NormalForm(r.key)}
  IN  IF r.key \in known \/ alike = {} THEN r
      ELSE [r EXCEPT !.key = IF NormalForm(r.key) \in alike THEN NormalForm(r.key) ELSE CHOOSE k \in alike : TRUE]

Clip(low, high, x) == IF x < low THEN low ELSE IF x > high THEN high ELSE x
Size(x) == IF x < 0 THEN -x ELSE x
Feature(features, name) == IF name \in DOMAIN features THEN features[name] ELSE 0
Total(f(_), S) == MapThenSumSet(f, S)

\* Fault: opposite names are folded without turning their value.
FoldNames(features, known) ==
  LET names(k) == {n \in DOMAIN features : ResolveName(n, known).key = k}
  IN  [k \in {ResolveName(n, known).key : n \in DOMAIN features} |->
         Total(LAMBDA n : features[n], names(k)) \div Cardinality(names(k))]

\* Names that fold onto one key are averaged.
CanonicalOption(features, known) ==
  LET names(k) == {n \in DOMAIN features : ResolveName(n, known).key = k}
  IN  [k \in {ResolveName(n, known).key : n \in DOMAIN features} |->
         Total(LAMBDA n : ResolveName(n, known).polarity * features[n], names(k))
           \div Cardinality(names(k))]

-----------------------------------------------------------------------------
\* Evidence: a name, a value in halves, a weight (source, strength and
\* confidence multiplied), and the scope of its context as the decision at
\* hand sees it: "global", "domain", "context", or "elsewhere".
Observation(name, value, weight, scope, id) ==
  [name |-> name, value |-> value, weight |-> weight, scope |-> scope, id |-> id]

\* Fault: the alias is followed, its polarity is not.
KeepValue(e) == [e EXCEPT !.name = AliasOf(e.name).key]

CanonicalEvidence(e) ==
  [e EXCEPT !.name = AliasOf(e.name).key, !.value = AliasOf(e.name).polarity * @]

AggregatePreference(items) ==
  LET total == Total(LAMBDA e : e.weight, items)
      value == Total(LAMBDA e : 50 * e.value * e.weight, items) \div total
      agreement == 100 - Total(LAMBDA e : e.weight * Size(50 * e.value - value), items) \div (2 * total)
  IN  [value |-> value, confidence |-> (total * agreement) \div (total + 100)]

\* aggregate_evidence: one preference per canonical key and context.
Aggregate(evidence) ==
  LET canonical == {CanonicalEvidence(e) : e \in evidence}
      keyed == {<<e.name, e.scope>> : e \in canonical}
  IN  [ks \in keyed |-> AggregatePreference({e \in canonical : <<e.name, e.scope>> = ks})]

ModelKeys(model) == {ks[1] : ks \in DOMAIN model}
ScopeWeight == [global |-> 20, domain |-> 30, context |-> 50]

\* _match_preference: the scopes that apply, weighted relative to each other.
MatchedWeight(model, key) ==
  LET scopes == {s \in DOMAIN ScopeWeight : <<key, s>> \in DOMAIN model}
      weigh(f(_)) == Total(LAMBDA s : ScopeWeight[s] * f(model[<<key, s>>]), scopes)
                       \div Total(LAMBDA s : ScopeWeight[s], scopes)
  IN  IF scopes = {} THEN 0
      ELSE weigh(LAMBDA p : p.value) * weigh(LAMBDA p : p.confidence)

-----------------------------------------------------------------------------
\* A past decision: the features of its options, which was chosen, and
\* whether it was taken here, in the same domain and context, or elsewhere.
Chosen(past) == past.options[past.chosen]
Alternatives(past) == {i \in DOMAIN past.options : i # past.chosen}
Scopes(past) == IF past.here THEN DOMAIN ScopeWeight ELSE {"global"}

Logistic(x) == Clip(0, 100, 50 + x \div 4)

\* OnlinePairwiseLearner.update, over the scopes that the decision at hand
\* will read.  The weights of scopes it will not read are left out.
Update(weights, comparison) ==
  LET keys == DOMAIN comparison.chosen \cup DOMAIN comparison.alternative
      delta(k) == Feature(comparison.chosen, k) - Feature(comparison.alternative, k)
      old(s, k) == IF <<s, k>> \in DOMAIN weights THEN weights[<<s, k>>] ELSE 0
      margin == Total(LAMBDA sk : (ScopeWeight[sk[1]] * old(sk[1], sk[2]) * delta(sk[2])) \div 200,
                      comparison.scopes \X keys)
      gradient(s, k) == (ScopeWeight[s] * (100 - Logistic(margin)) * delta(k)) \div 200
                          - old(s, k) \div 100
      moved == {sk \in comparison.scopes \X keys : delta(sk[2]) # 0}
  IN  [sk \in DOMAIN weights \cup moved |->
         IF sk \in moved
         THEN Clip(-400, 400, old(sk[1], sk[2]) + (35 * gradient(sk[1], sk[2])) \div 100)
         ELSE weights[sk]]

Fit(history) ==
  LET comparisons(past) ==
        [i \in 1..Cardinality(Alternatives(past)) |->
           [chosen |-> Chosen(past), scopes |-> Scopes(past),
            alternative |-> past.options[SetToSeq(Alternatives(past))[i]]]]
      all == FlattenSeq([i \in DOMAIN history |-> comparisons(history[i])])
  IN  FoldLeft(Update, [sk \in {} |-> 0], all)

EffectiveWeight(weights, key) ==
  Total(LAMBDA sk : ScopeWeight[sk[1]] * weights[sk], {sk \in DOMAIN weights : sk[2] = key})

\* The cosine in hundredths.
Root == [n \in 0..64 |-> CHOOSE r \in 0..800 : r * r <= 10000 * n /\ (r + 1) * (r + 1) > 10000 * n]
Square(v) == Total(LAMBDA k : v[k] * v[k], DOMAIN v)
OverRoot(dot, norms) == IF norms = 0 THEN 0 ELSE (dot * Root[norms]) \div norms
Cosine(left, right) ==
  OverRoot(Total(LAMBDA k : left[k] * right[k], DOMAIN left \cap DOMAIN right),
           Square(left) * Square(right))

\* find_similar_decisions, without the words of the question.
Similarity(options, past) ==
  LET keys(os) == UNION {DOMAIN os[i] : i \in DOMAIN os}
      union == keys(options) \cup keys(past.options)
  IN  (IF past.here THEN 50 ELSE 0)
        + (IF union = {} THEN 0
           ELSE (30 * Cardinality(keys(options) \cap keys(past.options))) \div Cardinality(union))

\* _prior: what was chosen in similar decisions, by how similar they are.
Prior(option, history, similarity) ==
  LET total == Total(LAMBDA h : similarity[h], DOMAIN similarity)
  IN  IF total = 0 THEN 0
      ELSE Total(LAMBDA h : similarity[h] * Cosine(option, Chosen(history[h])), DOMAIN similarity)
             \div total

\* predict: each option's utility, in hundredths of a hundredth of a half, once
\* the names are folded.
WeighedUtilities(model, options, history, weights, similarity) ==
  [i \in DOMAIN options |->
     Total(LAMBDA k : options[i][k] * (MatchedWeight(model, k) + EffectiveWeight(weights, k)),
           DOMAIN options[i])
       + 50 * Prior(options[i], history, similarity)]

FoldedUtilities(model, options, history) ==
  WeighedUtilities(model, options, history, Fit(history),
                   [h \in DOMAIN history |-> Similarity(options, history[h])])

Folded(options, known) == [i \in DOMAIN options |-> CanonicalOption(options[i], known)]
UtilitiesUnder(model, options, history) ==
  FoldedUtilities(model, Folded(options, ModelKeys(model)),
    [h \in DOMAIN history |->
       [history[h] EXCEPT !.options = Folded(@, ModelKeys(model))]])
Utilities(evidence, options, history) == UtilitiesUnder(Aggregate(evidence), options, history)

\* resolution_evidence: what the chosen option has over the mean of the others.
ResolutionEvidence(past) ==
  LET names == UNION {DOMAIN past.options[i] : i \in DOMAIN past.options}
      over(n) == Clip(-2, 2, Feature(Chosen(past), n)
                   - Total(LAMBDA i : Feature(past.options[i], n), Alternatives(past))
                       \div Cardinality(Alternatives(past)))
  IN  {Observation(n, over(n), 81, IF past.here THEN "domain" ELSE "elsewhere", n) :
         n \in {m \in names : over(m) # 0}}

-----------------------------------------------------------------------------
\* What outcomes say, each as much as the choice is like the option, or unlike
\* it, and twice as much in the same domain.
OutcomeMean(outcomes, like, size) ==
  LET signal(o) == Clip(-100, 100, 2 * o.satisfaction - 100 - (IF o.regret THEN 35 ELSE 0))
      near == {i \in DOMAIN outcomes : like[i] # 0}
      weight(i) == size[i] * (IF outcomes[i].here THEN 2 ELSE 1)
  IN  IF near = {} THEN <<>>
      ELSE <<50 + Total(LAMBDA i : (weight(i) * like[i] * signal(outcomes[i])) \div 100, near)
                    \div (2 * Total(LAMBDA i : Size(weight(i)), near))>>
Likeness(option, outcomes) == [i \in DOMAIN outcomes |-> Cosine(option, outcomes[i].chosen)]

\* Fault: the weight keeps the sign of the similarity.
WellbeingSigned(option, outcomes) ==
  OutcomeMean(outcomes, Likeness(option, outcomes), Likeness(option, outcomes))

\* _wellbeing.  The features are compared as they are spelled.
Wellbeing(option, outcomes) ==
  OutcomeMean(outcomes, Likeness(option, outcomes),
              [i \in DOMAIN outcomes |-> Size(Likeness(option, outcomes)[i])])

\* _goal_alignment, with one goal: a key, a direction and a confidence.
GoalAlignment(option, goals) ==
  LET named == {g \in goals : g.key \in DOMAIN option}
      total == Total(LAMBDA g : g.confidence, named)
  IN  IF total = 0 THEN <<>>
      ELSE <<Total(LAMBDA g : g.confidence * (50 + 25 * option[g.key] * g.direction), named)
               \div total>>

\* advise, between two options: behaviour, and what else is known.
WeightedMean(parts) ==
  Total(LAMBDA j : parts[j][1] * parts[j][2], DOMAIN parts)
    \div Total(LAMBDA j : parts[j][2], DOMAIN parts)
Part(value, weight) == IF value = <<>> THEN <<>> ELSE <<<<value[1], weight>>>>
RecommendationScores(options, utilities, outcomes, goals) ==
  [i \in DOMAIN options |->
     WeightedMean(<<<<Logistic((utilities[i] - utilities[3 - i]) \div 200), 35>>>>
                    \o Part(Wellbeing(options[i], outcomes), 45)
                    \o Part(GoalAlignment(options[i], goals), 20))]

-----------------------------------------------------------------------------
\* Cases.  A spelling writes "quiet" in its own way, turning the value where
\* the name means the opposite.
Spelling == {"quiet", "noise", "Quiet"}
Spelled(features, way) ==
  [n \in {IF k = "quiet" THEN way ELSE k : k \in DOMAIN features} |->
     IF n = "light" THEN features[n] ELSE AliasOf(way).polarity * features["quiet"]]
SpelledAll(options, way) == [i \in DOMAIN options |-> Spelled(options[i], way)]

Features == [{"quiet"} -> {2, -2}] \cup {[k \in {"quiet", "light"} |-> 2], [k \in {"light"} |-> 2]}
OptionPair == {os \in Features \X Features : os[1] # os[2]}

Past == [options : OptionPair, chosen : {1}, here : BOOLEAN]
SpelledPast(past, way) == [past EXCEPT !.options = SpelledAll(@, way)]

\* What was said, if anything: that quiet is wanted, and by some name
\* the contrary in some scope.
Words == {<<-2, s, w>> : s \in DOMAIN ScopeWeight \cup {"elsewhere"}, w \in {"quiet", "noise"}}
Said(words, way) ==
  IF words = <<>> THEN {}
  ELSE {Observation("quiet", 2, 60, "global", 1),
        Observation(way, AliasOf(way).polarity * words[1], 81, words[2], 2)}

\* The case as it is spelled, and with every key by its own name.
AsSpelled(case) ==
  [said |-> IF case.said = <<>> THEN {} ELSE Said(case.said, case.said[3]),
   options |-> SpelledAll(case.options, case.spelling),
   past |-> SpelledPast(case.past, case.pastSpelling)]
Plain(case) == [said |-> Said(case.said, "quiet"), options |-> case.options, past |-> case.past]

\* What is known from the words and the past alone.
Rated(way) == Utilities(way.said, way.options, <<way.past>>)

-----------------------------------------------------------------------------
ReasoningInit == given = <<>>

Decide(case) == given = <<>> /\ given' = <<case>>

Say(words) == given # <<>> /\ given[1].said = <<>> /\ given' = <<[given[1] EXCEPT !.said = words]>>

ReasoningNext ==
  \/ \E os \in {SetToSeq(pair) : pair \in kSubset(2, Features)}, past \in Past, a, b \in Spelling :
       Decide([options |-> os, spelling |-> a, past |-> past, pastSpelling |-> b, said |-> <<>>])
  \/ \E words \in Words : Say(words)

ReasoningSpec == ReasoningInit /\ [][ReasoningNext]_given

Unsaid == {i \in DOMAIN given : given[i].said = <<>>}

-----------------------------------------------------------------------------
\* key-consistency-increment-plan, 5: a prediction compares canonical keys.
\* Whatever names the owner's words, the options and a past decision use for
\* one key the model knows, opposite ones among them, the utilities are the
\* same.
PredictionIgnoresNames ==
  \A i \in DOMAIN given \ Unsaid : Rated(AsSpelled(given[i])) = Rated(Plain(given[i]))

\* phase-5-report, P5-04: a resolved choice is learned as evidence, as a
\* comparison and as a similar decision.  Together they never speak against
\* it when the same options are asked about again, in whatever names.
ChoiceIsReinforced ==
  \A i \in Unsaid :
    LET past == AsSpelled(given[i]).past
        again == Rated([said |-> ResolutionEvidence(past), past |-> past,
                        options |-> SpelledAll(given[i].past.options, given[i].spelling)])
    IN  again[1] >= again[2]

\* The advice after each outcome of the past choice, next to a good outcome of
\* something else.
Reported == [satisfaction : {0, 40, 100}, regret : BOOLEAN]
Advised(way, rated) ==
  [o \in Reported |->
     RecommendationScores(way.options, rated,
       <<[chosen |-> Chosen(way.past), here |-> way.past.here,
          satisfaction |-> o.satisfaction, regret |-> o.regret],
         [chosen |-> [k \in {"light"} |-> 2], here |-> TRUE, satisfaction |-> 80, regret |-> FALSE]>>,
       {[key |-> "light", direction |-> 1, confidence |-> 70]})]
NeverPraised(scores, like) ==
  \A good, bad \in Reported :
    bad.satisfaction <= good.satisfaction /\ (good.regret => bad.regret) =>
      \A j \in DOMAIN like :
        /\ like[j] > 0 => scores[bad][j] <= scores[good][j]
        /\ like[j] < 0 => scores[bad][j] >= scores[good][j]

\* ADR-010: regret and low satisfaction with a choice never raise the advice
\* for what resembles it, nor lower it for what opposes it, next to a good
\* outcome of something else.
RegretNeverPraises ==
  \A i \in Unsaid :
    NeverPraised(Advised(AsSpelled(given[i]), Rated(AsSpelled(given[i]))),
                 [j \in 1..2 |-> Cosine(given[i].options[j], Chosen(given[i].past))])
=============================================================================
