------------------------------ MODULE Verdicts ------------------------------
(***************************************************************************)
(* The four places where SpoofVane weighs opinions against each other: the *)
(* ensemble's merge (src/verdict/ensemble.py, diversity.py), the cloaking  *)
(* classifier (src/inspection), the fusion of signals and the tuning       *)
(* advice (src/scoring).  Each is one step from inputs to an answer, so    *)
(* the module is a table of answers.  Scores are in thousandths; where the *)
(* code rounds a float, either neighbour of a tie is an answer.            *)
(***************************************************************************)
EXTENDS Integers, FiniteSets, FiniteSetsExt, Functions

CONSTANTS
    Large,         \* the large models of the ensemble
    Composites,    \* composite scores of the evidence
    ClaudeSays,    \* opinions the pipeline may hand to merge
    Region,        \* regions a page is fetched from
    Content,       \* hashes of rendered pages
    Feedback,      \* kinds of triage outcome
    MaxFeedback,   \* bound: outcomes of a kind
    MinSamples,    \* active_learning_min_samples
    Threshold,     \* score_threshold_composite
    Visual,        \* weight and value of each visual signal
    RawAux         \* values an auxiliary signal may arrive with

ASSUME LargeAssumption == IsFiniteSet(Large) /\ Cardinality(Large) >= 2
ASSUME OpinionAssumption ==
    /\ Composites \subseteq Int
    /\ ClaudeSays \subseteq [verdict: {"benign", "suspicious", "phish"}, confidence: 0..1000]
ASSUME RegionAssumption == IsFiniteSet(Region) /\ "blocked" \notin Content
ASSUME TuningAssumption ==
    /\ {MaxFeedback, MinSamples, Threshold} \subseteq Nat
    /\ IsFiniteSet(Feedback) /\ \A k \in Feedback : k.score \in Nat

VARIABLE analysis   \* the inputs and the answer of the analysis made

NoAnalysis == [kind |-> "none"]
VerdictInit == analysis = NoAnalysis

-----------------------------------------------------------------------------
Bounded(x) == IF x < 0 THEN 0 ELSE IF x > 1000 THEN 1000 ELSE x
\* round(num / den)
Nearest(num, den) ==
    {r \in {num \div den, num \div den + 1} :
        2 * (r * den - num) <= den /\ 2 * (num - r * den) <= den}

Severe == [benign |-> 0, suspicious |-> 1, phish |-> 2]

\* each model shifts the composite by up to 0.09; as a float, a sum that meets
\* a bound may fall just below it
Misses(score, bound, shift) == score < bound \/ (score = bound /\ shift # 0)
Verdict(score, shift) ==
    {v \in DOMAIN Severe :
        \/ v = "phish" /\ score >= 780
        \/ v = "suspicious" /\ score >= 450 /\ Misses(score, 780, shift)
        \/ v = "benign" /\ Misses(score, 450, shift)}
Opinions(composite) ==
    UNION {LET score == Bounded(composite + 30 * jitter)
           IN {[verdict |-> v, confidence |-> score] : v \in Verdict(score, jitter)} :
             jitter \in -3..3}

Handles(composite) == composite < 450

Votes(members, v) == {m \in DOMAIN members : members[m].verdict = v}
Cast(members) == {members[m].verdict : m \in DOMAIN members}
Most(members) == Max({Cardinality(Votes(members, v)) : v \in Cast(members)})
Winner(members) ==
    LET tied == {v \in Cast(members) : Cardinality(Votes(members, v)) = Most(members)}
    IN CHOOSE v \in tied : \A w \in tied : Severe[w] <= Severe[v]
Dissent(members) == Cardinality(Cast(members)) > 1
Averages(members) ==
    Nearest(MapThenSumSet(LAMBDA m : members[m].confidence, DOMAIN members),
            Cardinality(DOMAIN members))
\* compute_diversity: 1 when unanimous, 1/2 when nobody agrees, linear between
Discounted(average, members) ==
    LET n == Cardinality(DOMAIN members)
    IN IF n = 1 THEN {average}
       ELSE UNION {Nearest(average * multiplier, 10000) :
                     multiplier \in Nearest(5000 * (n + Most(members) - 2), n - 1)}

\* mutant: only the winning verdict counts
Escalates_WinnerOnly(members) == Winner(members) = "phish"
Escalates(members) == Dissent(members) \/ Winner(members) = "phish"

\* the low-severity path asks the small model alone; Claude's opinion is unread
CheapPath(composite) ==
    /\ Handles(composite)
    /\ \E o \in Opinions(composite) :
         analysis' = [kind |-> "merge", path |-> "slm",
                      members |-> [m \in {"slm-triage"} |-> o],
                      verdict |-> o.verdict, confidence |-> o.confidence,
                      average |-> o.confidence, escalate |-> FALSE]
Ensemble(composite, claude) ==
    /\ ~Handles(composite)
    /\ \E opinions \in [Large -> Opinions(composite)] :
         LET members == [m \in Large \cup {"claude" : c \in claude} |->
                            IF m \in Large THEN opinions[m]
                            ELSE CHOOSE c \in claude : TRUE]
         IN \E average \in Averages(members) :
              \E conf \in Discounted(average, members) :
                analysis' = [kind |-> "merge", path |-> "ensemble",
                             members |-> members, verdict |-> Winner(members),
                             confidence |-> conf, average |-> average,
                             escalate |-> Escalates(members)]
Merge == \E composite \in Composites :
            \/ CheapPath(composite)
            \/ \E claude \in {{}} \cup {{c} : c \in ClaudeSays} :
                  Ensemble(composite, claude)

-----------------------------------------------------------------------------
\* CLOAKING: what each region saw, "blocked" if it rendered nothing
Rendered(seen) == {r \in Region : seen[r] # "blocked"}
Views(seen, h) == {r \in Rendered(seen) : seen[r] = h}
Pattern(seen, common) ==
    LET n == Cardinality(Rendered(seen))
        distinct == Cardinality({seen[r] : r \in Rendered(seen)})
    IN IF distinct <= 1 THEN "consistent"
       ELSE IF distinct = 2 /\ 10 * Cardinality(Views(seen, common)) >= 6 * n
            THEN "geo_targeted" ELSE "fragmented"
Classify ==
    \E seen \in [Region -> Content \cup {"blocked"}] :
        IF Rendered(seen) # Region
        THEN analysis' = [kind |-> "cloak", seen |-> seen,
                          pattern |-> "block_page", minority |-> {}]
        ELSE \E common \in Content :
               /\ \A h \in Content : Cardinality(Views(seen, h))
                                       <= Cardinality(Views(seen, common))
               /\ analysis' = [kind |-> "cloak", seen |-> seen,
                               pattern |-> Pattern(seen, common),
                               minority |-> Region \ Views(seen, common)]

-----------------------------------------------------------------------------
\* TUNING: feedback kinds are [outcome, score (0 if none), signal (TRUE if the
\* event names the signal looked at)], and events says how many of each
Count(events, kinds) == MapThenSumSet(LAMBDA k : events[k], kinds)
Scored(outcome) == {k \in Feedback : k.outcome = outcome /\ k.score > 0}
Sum(events, kinds) == MapThenSumSet(LAMBDA k : events[k] * k.score, kinds)
Signal(outcome) == {k \in Feedback : k.outcome = outcome /\ k.signal}

Advice(lo, hi, events) ==
    LET nTp == Count(events, Scored("true_positive"))
        nFp == Count(events, Scored("false_positive"))
        tp == Sum(events, Scored("true_positive"))
        fp == Sum(events, Scored("false_positive"))
    IN IF nTp = 0 \/ nFp = 0 THEN {Threshold}
       ELSE {IF mid < lo THEN lo ELSE IF mid > hi THEN hi ELSE mid :
               mid \in IF fp * nTp < tp * nFp
                       THEN Nearest(tp * nFp + fp * nTp, 2 * nTp * nFp)
                       ELSE {Threshold + 30}}

Nudge(tp, fp) ==
    IF tp + fp < 5 THEN "hold"
    ELSE IF 100 * tp >= 85 * (tp + fp) THEN "increase"
    ELSE IF 2 * tp <= tp + fp THEN "decrease" ELSE "hold"

Tune ==
    \E events \in [Feedback -> 0..MaxFeedback] :
        IF Count(events, Feedback) < MinSamples
        THEN analysis' = [kind |-> "tune", events |-> events, held |-> TRUE]
        ELSE \E advice \in Advice(400, 900, events) :
               analysis' = [kind |-> "tune", events |-> events, held |-> FALSE,
                            threshold |-> advice,
                            nudge |-> Nudge(Count(events, Signal("true_positive")),
                                            Count(events, Signal("false_positive")))]

-----------------------------------------------------------------------------
\* FUSION: a composite is [num, den], its weighted mean before the rounding
AuxWeights == [social_clone |-> 15, app_clone |-> 15, listing_nlp |-> 15,
               beacon |-> 20]

ASSUME VisualAssumption ==
    /\ RawAux \subseteq Int
    /\ \A visual \in Visual :
          /\ IsFiniteSet(DOMAIN visual) /\ DOMAIN visual \cap DOMAIN AuxWeights = {}
          /\ \A k \in DOMAIN visual : visual[k] \in [weight: Nat, value: 0..1000]
Blend(parts) ==
    [num |-> MapThenSumSet(LAMBDA k : parts[k].weight * parts[k].value, DOMAIN parts),
     den |-> MapThenSumSet(LAMBDA k : parts[k].weight, DOMAIN parts)]
Parts(visual, aux) ==
    LET known == DOMAIN aux \cap DOMAIN AuxWeights
    IN [k \in DOMAIN visual \cup known |->
            IF k \in known THEN [weight |-> AuxWeights[k], value |-> Bounded(aux[k])]
            ELSE visual[k]]
Composite(visual, aux) ==
    LET blend == Blend(Parts(visual, aux))
    IN IF blend.den = 0 THEN [num |-> 0, den |-> 1] ELSE blend
Fuse ==
    \E visual \in Visual, keys \in SUBSET {"social_clone", "beacon", "unheard_of"} :
        \E aux \in [keys -> RawAux] :
            analysis' = [kind |-> "fuse", visual |-> visual, aux |-> aux,
                         composite |-> Composite(visual, aux)]

VerdictNext == analysis = NoAnalysis /\ (Merge \/ Classify \/ Tune \/ Fuse)
VerdictSpec == VerdictInit /\ [][VerdictNext]_analysis

-----------------------------------------------------------------------------
\* No vote for "phish" stays with the models: whoever is outvoted is heard by a
\* human.  What is not escalated is unanimous, a discount leaves at least half of
\* the confidence, dissent among at most three costs a quarter of it, and the
\* verdict is one that no other has more votes than.
MergeIsCautious ==
    analysis.kind = "merge" =>
        LET members == analysis.members
            votes(v) == Cardinality(Votes(members, v))
        IN /\ ~analysis.escalate =>
                /\ Votes(members, "phish") = {}
                /\ Votes(members, analysis.verdict) = DOMAIN members
           /\ \A v \in DOMAIN Severe :
                /\ votes(v) <= votes(analysis.verdict)
                /\ votes(v) = votes(analysis.verdict) =>
                     Severe[v] <= Severe[analysis.verdict]
           /\ 2 * analysis.confidence + 1 >= analysis.average
           /\ analysis.confidence <= analysis.average
           /\ Dissent(members) /\ Cardinality(DOMAIN members) <= 3 =>
                4 * analysis.confidence <= 3 * analysis.average + 2

\* Regions are named a minority only if most others agree on another page, or
\* no two pages dominate; a site that blocks anybody is never called targeted.
CloakingIsRelative ==
    analysis.kind = "cloak" =>
        LET seen == analysis.seen
            minority == analysis.minority
        IN /\ analysis.pattern = "geo_targeted" =>
                /\ 0 < Cardinality(minority)
                /\ 5 * Cardinality(minority) <= 2 * Cardinality(Region)
                /\ \A r, s \in minority : seen[r] = seen[s]
           /\ \A r, s \in Region : r \in minority /\ s \notin minority => seen[r] # seen[s]
           /\ (\E r \in Region : seen[r] = "blocked") <=> analysis.pattern = "block_page"
           /\ minority = {} <=> analysis.pattern \in {"block_page", "consistent"}

\* A recommended threshold separates the two means, unless the range cuts it
\* off, and never falls because dismissed alerts score high; and no single
\* further outcome turns "increase" into "decrease" or back.
AdviceIsSteady ==
    analysis.kind = "tune" /\ ~analysis.held =>
        LET events == analysis.events
            tpN == Count(events, Scored("true_positive"))
            fpN == Count(events, Scored("false_positive"))
            tp == Sum(events, Scored("true_positive"))
            fp == Sum(events, Scored("false_positive"))
            good == Count(events, Signal("true_positive"))
            bad == Count(events, Signal("false_positive"))
            t == analysis.threshold
            flips == {"increase", "decrease"}
        IN /\ tpN > 0 /\ fpN > 0 /\ fp * tpN < tp * fpN /\ t \notin {400, 900} =>
                /\ fp - fpN <= t * fpN
                /\ t * tpN <= tp + tpN
           /\ (tpN = 0 \/ fpN = 0 \/ fp * tpN >= tp * fpN) /\ Threshold \in 400..900
                => t >= Threshold
           /\ {Nudge(good, bad), Nudge(good + 1, bad)} # flips
           /\ {Nudge(good, bad), Nudge(good, bad + 1)} # flips

\* A composite is between 0 and 1; each auxiliary signal pulls it towards its
\* own value and an unknown one leaves it alone.
FusionPullsFairly ==
    analysis.kind = "fuse" =>
        LET c == analysis.composite
        IN /\ 0 <= c.num /\ c.num <= 1000 * c.den
           /\ \A k \in DOMAIN analysis.aux :
                LET without == Composite(analysis.visual,
                                         Restrict(analysis.aux, DOMAIN analysis.aux \ {k}))
                    rises == c.num * without.den > without.num * c.den
                IN IF k \in DOMAIN AuxWeights
                   THEN rises <=> Bounded(analysis.aux[k]) * without.den > without.num
                   ELSE c = without
=============================================================================
