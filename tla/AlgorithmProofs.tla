---------------------------- MODULE AlgorithmProofs ----------------------------
(***************************************************************************)
(* Theorems about the parts that compute without sharing anything:         *)
(*   - the scorer and the explanation of what it scored, for all amounts,  *)
(*     counts and ratios;                                                  *)
(*   - the calendar, for all years and places;                             *)
(*   - the checksum of an IBAN, for all accounts and slips.                *)
(* The last two rest on recursive functions, which are proved to satisfy   *)
(* their recursion by the lemmas of the first section.                     *)
(***************************************************************************)
EXTENDS Explanation, Holidays, Iban, FiniteSetTheorems, SequenceTheorems, WellFoundedInduction,
        TLAPS

(* Induction over the numbers, for sets instead of formulas *)

LesserPairs == {ss \in Nat \X Nat : ss[1] < ss[2]}

LEMMA LesserIsWellFounded == IsWellFoundedOn(LesserPairs, Nat)
BY NatLessThanWellFounded DEF OpToRel, LesserPairs

LEMMA LeastNumber ==
    ASSUME NEW T \in SUBSET Nat, T # {}
    PROVE  \E n \in T : \A k \in T : n <= k
<1>1. PICK n \in T : \A k \in T : ~ (<<k, n>> \in LesserPairs)
  BY LesserIsWellFounded, WFMin
<1>2. ASSUME NEW k \in T PROVE n <= k
  <2>1. ~ (<<k, n>> \in LesserPairs)  BY <1>1
  <2>2. <<k, n>> \in Nat \X Nat /\ <<k, n>>[1] = k /\ <<k, n>>[2] = n  OBVIOUS
  <2>3. ~(k < n)  BY <2>1, <2>2 DEF LesserPairs
  <2> QED  BY <2>3
<1> QED  BY <1>2

\* What holds of 0 and passes from each number to the next holds up to m.
LEMMA UpTo ==
    ASSUME NEW m \in Nat, NEW T, 0 \in T, \A n \in 0 .. m - 1 : n \in T => n + 1 \in T
    PROVE  0 .. m \subseteq T
<1> DEFINE Out == (0 .. m) \ T
<1> SUFFICES ASSUME Out # {} PROVE FALSE  OBVIOUS
<1>1. PICK n \in Out : \A k \in Out : n <= k
  <2>1. Out \in SUBSET Nat  OBVIOUS
  <2> HIDE DEF Out
  <2> QED  BY <2>1, LeastNumber
<1>2. n # 0 /\ n \in 0 .. m /\ n \notin T  OBVIOUS
<1>3. n - 1 \in 0 .. m - 1 /\ n - 1 \notin Out  BY <1>1, <1>2
<1> QED  BY <1>2, <1>3

Follows(f, V, a, F, m) ==
    f \in [0 .. m -> V] /\ f[0] = a /\ \A n \in 1 .. m : f[n] = F[n][f[n - 1]]

\* A function on 0 .. m can be defined by its first value and the step to the next.
LEMMA Recursion ==
    ASSUME NEW V, NEW a \in V, NEW F \in [Nat -> [V -> V]], NEW m \in Nat
    PROVE  \E f : Follows(f, V, a, F, m)
<1> USE DEF Follows
<1> DEFINE Is(f, k) == Follows(f, V, a, F, k)
           T == {k \in 0 .. m : \E f : Is(f, k)}
<1>1. 0 \in T
  <2> DEFINE g == [n \in 0 .. 0 |-> a]
  <2>1. g \in [0 .. 0 -> V] /\ g[0] = a /\ 1 .. 0 = {}  OBVIOUS
  <2>2. Is(g, 0)
    <3> HIDE DEF g
    <3> QED  BY <2>1
  <2> HIDE DEF g, Is
  <2> QED  BY <2>2
<1>2. ASSUME NEW k \in 0 .. m - 1, k \in T PROVE k + 1 \in T
  <2>1. PICK f : Is(f, k)  BY <1>2
  <2> DEFINE g == [n \in 0 .. k + 1 |-> IF n = k + 1 THEN F[k + 1][f[k]] ELSE f[n]]
  <2>2. f[k] \in V /\ F[k + 1] \in [V -> V]  BY <2>1
  <2>3. g \in [0 .. k + 1 -> V]  BY <2>1, <2>2
  <2>4. g[0] = a  BY <2>1
  <2>5. ASSUME NEW n \in 1 .. k + 1 PROVE g[n] = F[n][g[n - 1]]
    <3>1. CASE n = k + 1  BY <3>1
    <3>2. CASE n \in 1 .. k
      <4>1. g[n] = f[n] /\ g[n - 1] = f[n - 1]  BY <3>2
      <4> QED  BY <4>1, <3>2, <2>1
    <3> QED  BY <3>1, <3>2
  <2>6. Is(g, k + 1)
    <3> HIDE DEF g
    <3> QED  BY <2>3, <2>4, <2>5
  <2> HIDE DEF g, Is
  <2> QED  BY <2>6
<1>3. 0 .. m \subseteq T
  <2> HIDE DEF T
  <2> QED  BY <1>1, <1>2, UpTo
<1> QED  BY <1>3

-----------------------------------------------------------------------------
(* The scorer *)

\* Clipping keeps the order and the scale.
LEMMA ClipMonotone ==
    ASSUME NEW a \in Nat, NEW b \in Nat, a <= b
    PROVE  Clip(a) <= Clip(b)
BY DEF Clip

LEMMA ClipRange ==
    ASSUME NEW a \in Nat
    PROVE  Clip(a) \in 0 .. 1000
BY DEF Clip

LEMMA ClusterRange ==
    ASSUME NEW x
    PROVE  ClusterRisk(x) \in 150 .. 850
BY DEF ClusterRisk

\* Every component of the heuristic score lies on its scale.
LEMMA ComponentRanges ==
    ASSUME NEW x \in InputType
    PROVE  /\ JurisdictionRisk(x) \in 0 .. 1000
           /\ VelocityRisk(x) \in 0 .. 1000
           /\ CounterpartyRisk(x) \in 0 .. 1000
           /\ ClusterRisk(x) \in 150 .. 850
           /\ 10 * x.anomaly \in 0 .. 1000
<1>1. /\ 900 * x.highRisk + x.crossBorder \in Nat
      /\ 50 * x.count24h \in Nat
      /\ 6 * x.concentration + 40 * x.newBeneficiaries \in Nat
  BY DEF InputType, Ratio
<1>2. 10 * x.anomaly \in 0 .. 1000
  BY DEF InputType, Ratio
<1>3. JurisdictionRisk(x) \in 0 .. 1000
  BY <1>1, ClipRange DEF JurisdictionRisk
<1>4. VelocityRisk(x) \in 0 .. 1000
  BY <1>1, ClipRange DEF VelocityRisk
<1>5. CounterpartyRisk(x) \in 0 .. 1000
  BY <1>1, ClipRange DEF CounterpartyRisk
<1>6. ClusterRisk(x) \in 150 .. 850
  BY ClusterRange
<1> QED BY <1>2, <1>3, <1>4, <1>5, <1>6

\* No transaction whatever gets more than 0.87 from the heuristic scorer: two weights can
\* never be used to the full, that of amount_risk not at all.
LEMMA HeuristicRange ==
    ASSUME NEW x \in InputType
    PROVE  HeuristicScore(x) \in Nat /\ HeuristicScore(x) <= 87000
<1> DEFINE a == 10 * x.anomaly
           c == ClusterRisk(x)
           j == JurisdictionRisk(x)
           v == VelocityRisk(x)
           k == CounterpartyRisk(x)
<1>1. a \in 0 .. 1000 /\ c \in 150 .. 850 /\ j \in 0 .. 1000 /\ v \in 0 .. 1000 /\ k \in 0 .. 1000
  BY ComponentRanges
<1>2. HeuristicScore(x) = 35 * a + 20 * c + 15 * j + 12 * v + 10 * 0 + 8 * k
  BY DEF HeuristicScore, AmountRisk
<1> HIDE DEF a, c, j, v, k
<1>3. /\ 35 * a + 20 * c + 15 * j + 12 * v + 10 * 0 + 8 * k \in Nat
      /\ 35 * a + 20 * c + 15 * j + 12 * v + 10 * 0 + 8 * k <= 87000
  BY <1>1
<1> QED BY <1>2, <1>3

\* A riskier input does not lower the score.
LEMMA HeuristicMonotone ==
    ASSUME NEW x \in InputType, NEW y \in InputType, RiskierInput(x, y)
    PROVE  HeuristicScore(x) <= HeuristicScore(y)
<1>1. /\ y.amount = x.amount /\ y.avg = x.avg /\ y.std = x.std
      /\ y.crossBorder = x.crossBorder /\ y.concentration = x.concentration
      /\ y.newBeneficiaries = x.newBeneficiaries
  BY DEF RiskierInput, InputType
<1>2. ClusterRisk(y) = ClusterRisk(x)
  BY <1>1 DEF ClusterRisk, Deviation
<1>3. CounterpartyRisk(y) = CounterpartyRisk(x)
  BY <1>1 DEF CounterpartyRisk
<1>4. JurisdictionRisk(x) <= JurisdictionRisk(y)
  <2>1. /\ 900 * x.highRisk + x.crossBorder \in Nat
        /\ 900 * y.highRisk + y.crossBorder \in Nat
        /\ 900 * x.highRisk + x.crossBorder <= 900 * y.highRisk + y.crossBorder
    BY <1>1 DEF RiskierInput, InputType, Ratio
  <2> QED BY <2>1, ClipMonotone DEF JurisdictionRisk
<1>5. VelocityRisk(x) <= VelocityRisk(y)
  <2>1. /\ 50 * x.count24h \in Nat /\ 50 * y.count24h \in Nat
        /\ 50 * x.count24h <= 50 * y.count24h
    BY DEF RiskierInput, InputType
  <2> QED BY <2>1, ClipMonotone DEF VelocityRisk
<1>6. 10 * x.anomaly <= 10 * y.anomaly
  BY DEF RiskierInput, InputType, Ratio
<1> DEFINE ax == 10 * x.anomaly       ay == 10 * y.anomaly
           jx == JurisdictionRisk(x)  jy == JurisdictionRisk(y)
           vx == VelocityRisk(x)      vy == VelocityRisk(y)
           c == ClusterRisk(x)        k == CounterpartyRisk(x)
<1>7. /\ ax \in 0 .. 1000 /\ jx \in 0 .. 1000 /\ vx \in 0 .. 1000
      /\ ay \in 0 .. 1000 /\ jy \in 0 .. 1000 /\ vy \in 0 .. 1000
      /\ c \in 150 .. 850 /\ k \in 0 .. 1000
  BY ComponentRanges
<1>8. /\ HeuristicScore(x) = 35 * ax + 20 * c + 15 * jx + 12 * vx + 10 * 0 + 8 * k
      /\ HeuristicScore(y) = 35 * ay + 20 * c + 15 * jy + 12 * vy + 10 * 0 + 8 * k
  BY <1>2, <1>3 DEF HeuristicScore, AmountRisk
<1>9. ax <= ay /\ jx <= jy /\ vx <= vy
  BY <1>4, <1>5, <1>6
<1> HIDE DEF ax, ay, jx, jy, vx, vy, c, k
<1>10. 35 * ax + 20 * c + 15 * jx + 12 * vx + 10 * 0 + 8 * k
         <= 35 * ay + 20 * c + 15 * jy + 12 * vy + 10 * 0 + 8 * k
  BY <1>7, <1>9
<1> QED BY <1>8, <1>10

-----------------------------------------------------------------------------

\* The result on record is always that of the transaction on record.
ResultIsCurrent == result = ScoreTransaction(scorer, input, proba)

ScoringIInv ==
    /\ scorer \in Scorers /\ input \in Inputs /\ proba \in Probas
    /\ ResultIsCurrent

LEMMA Inductive == ScoringSpec => []ScoringIInv
<1>1. ScoringInit => ScoringIInv
  BY DEF ScoringInit, ScoringIInv, ResultIsCurrent
<1>2. ScoringIInv /\ [ScoringNext]_scoringVars => ScoringIInv'
  BY DEF ScoringIInv, ResultIsCurrent, ScoringNext, scoringVars
<1> QED BY <1>1, <1>2, PTL DEF ScoringSpec

LEMMA ScoreRange ==
    ASSUME NEW m \in Scorers, NEW x \in Inputs, NEW p \in Probas
    PROVE  Score(m, x, p) \in Nat /\ Score(m, x, p) <= 100000
<1>1. HeuristicScore(x) \in Nat /\ HeuristicScore(x) <= 87000
  <2>1. x \in InputType
    BY ScoringAssumption DEF ScoringAssumption
  <2> QED BY <2>1, HeuristicRange
<1>2. p \in Ratio
  BY ScoringAssumption DEF ScoringAssumption
<1> QED BY <1>1, <1>2 DEF Score, Ratio

LEMMA LevelsInOrder ==
    ASSUME NEW s \in Nat
    PROVE  /\ RiskLevel(s) \in Levels
           /\ RiskLevel(s) = "LOW" <=> s < MediumThreshold
           /\ RiskLevel(s) \in {"HIGH", "CRITICAL"} <=> s >= HighThreshold
BY ScoringAssumption DEF ScoringAssumption, RiskLevel, Levels

\* Every field of a result lies in its range, for the two scorers alike.
THEOREM ResultTypeCorrect == ScoringSpec => []ScoringTypeOK
<1>1. ScoringIInv => ScoringTypeOK
  <2> SUFFICES ASSUME ScoringIInv PROVE ScoringTypeOK
    OBVIOUS
  <2> DEFINE s == Score(scorer, input, proba)
  <2>1. s \in Nat /\ s <= 100000
    BY ScoreRange DEF ScoringIInv
  <2>2. RiskLevel(s) \in Levels
    BY <2>1, LevelsInOrder
  <2>3. Confidence(scorer, proba) \in Ratio
    <3>1. proba \in Ratio
      BY ScoringAssumption DEF ScoringAssumption, ScoringIInv
    <3> QED BY <3>1 DEF Confidence, ModelConfidence, Distance, Ratio
  <2>4. Typology(input, s) \in Typologies \cup {NoTypology}
    BY DEF Typology, Typologies
  <2>5. /\ (s >= FlagThreshold) \in BOOLEAN
        /\ (s >= MediumThreshold) \in BOOLEAN
    OBVIOUS
  <2>6. ScoreTransaction(scorer, input, proba) \in Results
    BY <2>1, <2>2, <2>3, <2>4, <2>5 DEF ScoreTransaction, Results
  <2>7. ScoreTransaction(scorer, input, proba).score <= 100000
    BY <2>1 DEF ScoreTransaction
  <2> QED BY <2>6, <2>7 DEF ScoringTypeOK, ScoringIInv, ResultIsCurrent
<1> QED BY <1>1, Inductive, PTL

\* Whatever the thresholds, as long as they are ordered, what an analyst is shown about a
\* flagged transaction hangs together.
THEOREM AlertsAreComplete == ScoringSpec => []AlertIsComplete
<1>1. ScoringIInv => AlertIsComplete
  <2> SUFFICES ASSUME ScoringIInv PROVE AlertIsComplete
    OBVIOUS
  <2> DEFINE s == Score(scorer, input, proba)
  <2>1. s \in Nat
    BY ScoreRange DEF ScoringIInv
  <2>2. /\ result.flagged = (s >= FlagThreshold) /\ result.explained = (s >= MediumThreshold)
        /\ result.level = RiskLevel(s) /\ result.typology = Typology(input, s)
    BY DEF ScoringIInv, ResultIsCurrent, ScoreTransaction
  <2>3. s >= FlagThreshold => s >= MediumThreshold /\ RiskLevel(s) # "LOW"
    BY <2>1, LevelsInOrder, ScoringAssumption DEF ScoringAssumption
  <2>4. s >= HighThreshold => s >= FlagThreshold /\ Typology(input, s) # NoTypology
    BY <2>1, ScoringAssumption DEF ScoringAssumption, Typology, NoTypology
  <2> QED BY <2>1, <2>2, <2>3, <2>4, LevelsInOrder DEF AlertIsComplete
<1> QED BY <1>1, Inductive, PTL

\* The heuristic scorer honours the monotone constraints, for all inputs.
THEOREM ScoresAreMonotone == ScoringSpec => Monotone
<1>1. ScoringIInv /\ ScoringIInv' /\ [ScoringNext]_scoringVars =>
        [scorer = "heuristic_v1" /\ RiskierInput(input, input')
            => result.score <= result'.score]_scoringVars
  <2> SUFFICES ASSUME ScoringIInv, ScoringIInv', ScoringNext, scorer = "heuristic_v1",
                      RiskierInput(input, input')
               PROVE  result.score <= result'.score
    OBVIOUS
  <2>1. input \in InputType /\ input' \in InputType
    BY ScoringAssumption DEF ScoringAssumption, ScoringIInv
  <2>2. result.score = HeuristicScore(input) /\ result'.score = HeuristicScore(input')
    BY DEF ScoringIInv, ResultIsCurrent, ScoreTransaction, Score, ScoringNext
  <2> QED BY <2>1, <2>2, HeuristicMonotone
<1> QED BY <1>1, Inductive, PTL DEF ScoringSpec, Monotone

\* Without a trained model nothing is ever CRITICAL, whatever the transaction: 13 hundredths
\* of every score are out of reach.
THEOREM HeuristicNeverCritical ==
    ScoringSpec => [](scorer = "heuristic_v1" => result.level # "CRITICAL")
<1>1. ScoringIInv => (scorer = "heuristic_v1" => result.level # "CRITICAL")
  <2> SUFFICES ASSUME ScoringIInv, scorer = "heuristic_v1" PROVE result.level # "CRITICAL"
    OBVIOUS
  <2>1. HeuristicScore(input) \in Nat /\ HeuristicScore(input) <= 87000
    BY ScoringAssumption, HeuristicRange DEF ScoringAssumption, ScoringIInv
  <2>2. result.level = RiskLevel(HeuristicScore(input))
    BY DEF ScoringIInv, ResultIsCurrent, ScoreTransaction, Score
  <2> QED BY <2>1, <2>2, ScoringAssumption DEF ScoringAssumption, RiskLevel
<1> QED BY <1>1, Inductive, PTL

-----------------------------------------------------------------------------
(* The explanation *)

\* With the shipped thresholds the label of a text is the risk level of the result.
LEMMA LabelIsLevel ==
    ASSUME MediumThreshold = 50000, HighThreshold = 80000, NEW s
    PROVE  Label(s) = RiskLevel(s)
BY DEF Label, RiskLevel

\* The explanation built with a flagged transaction names its level and its typology, as
\* long as the settings are those written into the explainer.
THEOREM ExplanationsAgree ==
    ASSUME MediumThreshold = 50000, HighThreshold = 80000
    PROVE  ScoringSpec => []ExplanationAgrees
<1>1. ScoringIInv => ExplanationAgrees
  <2> SUFFICES ASSUME ScoringIInv, NEW text \in Shown
               PROVE  text.level = result.level /\ text.note = result.typology
    BY DEF ExplanationAgrees
  <2>1. PICK lang \in Languages :
            text = BuildExplanation(result.score, result.typology, lang)
    BY DEF Shown, Explain
  <2>2. /\ result.score = Score(scorer, input, proba)
        /\ result.level = RiskLevel(result.score) /\ result.typology = Typology(input, result.score)
    BY DEF ScoringIInv, ResultIsCurrent, ScoreTransaction
  <2>3. text.level = result.level
    BY <2>1, <2>2, LabelIsLevel DEF BuildExplanation
  <2>4. result.typology \in Templates \cup {NoTypology}
    BY <2>2 DEF Typology, Templates
  <2>5. text.note = result.typology
    BY <2>1, <2>4 DEF BuildExplanation, Templates, NoTypology
  <2> QED BY <2>3, <2>5
<1> QED BY <1>1, Inductive, PTL

\* With the shipped thresholds everything that is shown about a scored transaction holds
\* together: its type, and the level and typology of its texts.
THEOREM ExplanationsHold ==
    ASSUME MediumThreshold = 50000, HighThreshold = 80000
    PROVE  ScoringSpec => []ExplanationInvariant
<1>1. ScoringTypeOK /\ ExplanationAgrees => ExplanationInvariant
  BY DEF ExplanationInvariant
<1> QED BY <1>1, ResultTypeCorrect, ExplanationsAgree, PTL

-----------------------------------------------------------------------------
(* The calendar: days are numbered *)

Dates == {t \in [y : Nat \ {0}, m : 1 .. 12, d : 1 .. 31] : t.d <= DaysIn(t.y, t.m)}

YearStart(y) == 365 * (y - 1) + ((y - 1) \div 4) - ((y - 1) \div 100) + ((y - 1) \div 400)

LeapDay(y) == IF Leap(y) THEN 1 ELSE 0

\* The days of the year before the month.
MonthStart(y, m) ==
    CASE m = 1 -> 0 [] m = 2 -> 31
      [] m = 3 -> 59 + LeapDay(y) [] m = 4 -> 90 + LeapDay(y) [] m = 5 -> 120 + LeapDay(y)
      [] m = 6 -> 151 + LeapDay(y) [] m = 7 -> 181 + LeapDay(y) [] m = 8 -> 212 + LeapDay(y)
      [] m = 9 -> 243 + LeapDay(y) [] m = 10 -> 273 + LeapDay(y) [] m = 11 -> 304 + LeapDay(y)
      [] OTHER -> 334 + LeapDay(y)

\* date.toordinal: 1 January of the year 1 is the first day.
Ordinal(t) == YearStart(t.y) + MonthStart(t.y, t.m) + t.d

LEMMA YearStartStep ==
    ASSUME NEW y \in Nat \ {0}
    PROVE  YearStart(y) \in Nat /\ YearStart(y + 1) = YearStart(y) + 365 + LeapDay(y)
<1>1. PICK x \in Nat : x = y - 1 /\ y = x + 1
  <2>1. y - 1 \in Nat /\ y = (y - 1) + 1  OBVIOUS
  <2> QED  BY <2>1
<1>2. (y \div 4) = (x \div 4) + (IF y % 4 = 0 THEN 1 ELSE 0)  BY <1>1
<1>3. (y \div 100) = (x \div 100) + (IF y % 100 = 0 THEN 1 ELSE 0)  BY <1>1
<1>4. (y \div 400) = (x \div 400) + (IF y % 400 = 0 THEN 1 ELSE 0)  BY <1>1
<1>5. (y % 400 = 0 => y % 100 = 0) /\ (y % 100 = 0 => y % 4 = 0)  OBVIOUS
<1>6. YearStart(y) = 365 * x + (x \div 4) - (x \div 100) + (x \div 400)  BY <1>1 DEF YearStart
<1>7. YearStart(y + 1) = 365 * y + (y \div 4) - (y \div 100) + (y \div 400)  BY DEF YearStart
<1>8. YearStart(y) \in Nat  BY <1>6
<1>9. YearStart(y + 1) = YearStart(y) + 365 + LeapDay(y)
  BY <1>1, <1>2, <1>3, <1>4, <1>5, <1>6, <1>7 DEF LeapDay, Leap
<1> QED  BY <1>8, <1>9

LEMMA YearsInOrder ==
    ASSUME NEW y \in Nat \ {0}, NEW z \in Nat \ {0}, y < z
    PROVE  YearStart(y) + 365 + LeapDay(y) <= YearStart(z)
<1>1. PICK k \in Nat : k = z - 1 - y /\ z - 1 = y + k
  <2>1. z - 1 - y \in Nat /\ z - 1 = y + (z - 1 - y)  OBVIOUS
  <2> QED  BY <2>1
<1>2. /\ (y + k) \div 4 >= y \div 4 /\ (y + k) \div 400 >= y \div 400
      /\ (y + k) \div 100 <= (y \div 100) + k
  OBVIOUS
<1>3. YearStart(z) = 365 * (y + k) + ((y + k) \div 4) - ((y + k) \div 100) + ((y + k) \div 400)
  BY <1>1 DEF YearStart
<1>4. YearStart(y + 1) = 365 * y + (y \div 4) - (y \div 100) + (y \div 400)  BY DEF YearStart
<1>5. YearStart(y + 1) <= YearStart(z)  BY <1>2, <1>3, <1>4
<1> QED  BY <1>5, YearStartStep

LEMMA MonthsInOrder ==
    ASSUME NEW y \in Nat \ {0}, NEW m \in 1 .. 12
    PROVE  /\ LeapDay(y) \in 0 .. 1 /\ DaysIn(y, m) \in 28 .. 31
           /\ MonthStart(y, m) \in 0 .. 335
           /\ MonthStart(y, m) + DaysIn(y, m) <= 365 + LeapDay(y)
           /\ m < 12 => MonthStart(y, m + 1) = MonthStart(y, m) + DaysIn(y, m)
           /\ m = 12 => MonthStart(y, m) + DaysIn(y, m) = 365 + LeapDay(y)
           /\ \A k \in 1 .. 12 : m < k => MonthStart(y, m) + DaysIn(y, m) <= MonthStart(y, k)
<1>1. LeapDay(y) \in 0 .. 1 /\ (Leap(y) <=> LeapDay(y) = 1)  BY DEF LeapDay
<1>2. PICK l \in 0 .. 1 : l = LeapDay(y)  BY <1>1
<1>3. DaysIn(y, m) = IF m = 2 THEN 28 + l ELSE IF m \in {4, 6, 9, 11} THEN 30 ELSE 31
  BY <1>1, <1>2 DEF DaysIn
<1>4. \A k \in 1 .. 12 : MonthStart(y, k) =
          CASE k = 1 -> 0 [] k = 2 -> 31
            [] k = 3 -> 59 + l [] k = 4 -> 90 + l [] k = 5 -> 120 + l
            [] k = 6 -> 151 + l [] k = 7 -> 181 + l [] k = 8 -> 212 + l
            [] k = 9 -> 243 + l [] k = 10 -> 273 + l [] k = 11 -> 304 + l
            [] OTHER -> 334 + l
  BY <1>2 DEF MonthStart
<1>5. DaysIn(y, m) \in 28 .. 31  BY <1>3
<1>6. MonthStart(y, m) \in 0 .. 335  BY <1>4
<1>7. m < 12 => MonthStart(y, m + 1) = MonthStart(y, m) + DaysIn(y, m)
  <2>1. m < 12 => m + 1 \in 1 .. 12  OBVIOUS
  <2> QED  BY <1>3, <1>4, <2>1
<1>8. m = 12 => MonthStart(y, m) + DaysIn(y, m) = 365 + LeapDay(y)  BY <1>2, <1>3, <1>4
<1>9. ASSUME NEW k \in 1 .. 12, m < k PROVE MonthStart(y, m) + DaysIn(y, m) <= MonthStart(y, k)
  <2>1. \A i, j \in 1 .. 12 : i <= j => MonthStart(y, i) <= MonthStart(y, j)  BY <1>2, <1>4
  <2>2. m + 1 \in 1 .. 12 /\ m + 1 <= k /\ m < 12  BY <1>9
  <2>3. MonthStart(y, m + 1) <= MonthStart(y, k)  BY <2>1, <2>2
  <2> QED  BY <1>7, <2>2, <2>3
<1>10. MonthStart(y, m) + DaysIn(y, m) <= 365 + LeapDay(y)  BY <1>2, <1>3, <1>4
<1> QED  BY <1>1, <1>5, <1>6, <1>7, <1>8, <1>9, <1>10

LEMMA DatesAre ==
    ASSUME NEW t \in Dates
    PROVE  /\ t.y \in Nat \ {0} /\ t.m \in 1 .. 12 /\ t.d \in 1 .. DaysIn(t.y, t.m)
           /\ t = Date(t.y, t.m, t.d) /\ DaysIn(t.y, t.m) \in 28 .. 31
<1>1. t.y \in Nat \ {0} /\ t.m \in 1 .. 12 /\ t.d \in 1 .. 31 /\ t.d <= DaysIn(t.y, t.m)
  BY DEF Dates
<1>2. t = Date(t.y, t.m, t.d)  BY DEF Dates, Date
<1>3. DaysIn(t.y, t.m) \in 28 .. 31  BY <1>1, MonthsInOrder
<1> QED  BY <1>1, <1>2, <1>3

LEMMA DateIsDate ==
    ASSUME NEW y \in Nat \ {0}, NEW m \in 1 .. 12, NEW d \in 1 .. DaysIn(y, m)
    PROVE  /\ Date(y, m, d) \in Dates
           /\ Date(y, m, d).y = y /\ Date(y, m, d).m = m /\ Date(y, m, d).d = d
<1>1. DaysIn(y, m) \in 28 .. 31  BY MonthsInOrder
<1>2. d \in 1 .. 31 /\ d <= DaysIn(y, m)  BY <1>1
<1> QED  BY <1>2 DEF Date, Dates

LEMMA YearStartIs ==
    ASSUME NEW y \in Nat \ {0}
    PROVE  YearStart(y) \in Nat /\ LeapDay(y) \in 0 .. 1
BY YearStartStep DEF LeapDay

LEMMA MonthStartIs ==
    ASSUME NEW y \in Nat \ {0}, NEW m \in 1 .. 12
    PROVE  /\ MonthStart(y, m) \in 0 .. 335 /\ DaysIn(y, m) \in 28 .. 31
           /\ MonthStart(y, m) + DaysIn(y, m) <= 365 + LeapDay(y)
<1>1. MonthStart(y, m) \in 0 .. 335  BY MonthsInOrder, Zenon
<1>2. DaysIn(y, m) \in 28 .. 31  BY MonthsInOrder, Zenon
<1>3. MonthStart(y, m) + DaysIn(y, m) <= 365 + LeapDay(y)  BY MonthsInOrder, Zenon
<1> QED  BY <1>1, <1>2, <1>3

LEMMA NextMonth ==
    ASSUME NEW y \in Nat \ {0}, NEW m \in 1 .. 11
    PROVE  MonthStart(y, m + 1) = MonthStart(y, m) + DaysIn(y, m)
<1>1. m \in 1 .. 12 /\ m < 12  OBVIOUS
<1> QED  BY <1>1, MonthsInOrder

LEMMA LaterMonth ==
    ASSUME NEW y \in Nat \ {0}, NEW m \in 1 .. 12, NEW k \in 1 .. 12, m < k
    PROVE  MonthStart(y, m) + DaysIn(y, m) <= MonthStart(y, k)
BY MonthsInOrder

LEMMA OrdinalType ==
    ASSUME NEW t \in Dates
    PROVE  Ordinal(t) \in Nat \ {0}
<1>1. t.y \in Nat \ {0} /\ t.m \in 1 .. 12 /\ t.d \in 1 .. 31  BY DEF Dates
<1>2. PICK s \in Nat : s = YearStart(t.y)  BY <1>1, YearStartIs
<1>3. PICK p \in 0 .. 335 : p = MonthStart(t.y, t.m)  BY <1>1, MonthStartIs
<1> QED  BY <1>1, <1>2, <1>3 DEF Ordinal

LEMMA OrdinalOf ==
    ASSUME NEW y \in Nat \ {0}, NEW m \in 1 .. 12, NEW d \in Int
    PROVE  Ordinal(Date(y, m, d)) = YearStart(y) + MonthStart(y, m) + d
BY DEF Ordinal, Date

LEMMA TomorrowIs ==
    ASSUME NEW t \in Dates
    PROVE  Tomorrow(t) \in Dates /\ Ordinal(Tomorrow(t)) = Ordinal(t) + 1
<1>1. PICK y \in Nat \ {0}, m \in 1 .. 12, d \in 1 .. 31 :
          t = Date(y, m, d) /\ d <= DaysIn(y, m)
  BY DatesAre DEF Dates
<1>2. PICK k \in 28 .. 31 : k = DaysIn(y, m)  BY <1>1, MonthStartIs
<1>3. PICK s \in Nat, l \in 0 .. 1 : s = YearStart(y) /\ l = LeapDay(y)  BY <1>1, YearStartIs
<1>4. PICK p \in 0 .. 335 : p = MonthStart(y, m)  BY <1>1, MonthStartIs
<1>5. Ordinal(t) = s + p + d
  <2>1. Ordinal(Date(y, m, d)) = YearStart(y) + MonthStart(y, m) + d  BY <1>1, OrdinalOf
  <2> QED  BY <2>1, <1>1, <1>3, <1>4
<1>6. t.y = y /\ t.m = m /\ t.d = d  BY <1>1 DEF Date
<1>7. CASE d < k
  <2>1. Tomorrow(t) = Date(y, m, d + 1)  BY <1>1, <1>2, <1>6, <1>7 DEF Tomorrow, Date
  <2>2. d + 1 \in 1 .. DaysIn(y, m)  BY <1>1, <1>2, <1>7
  <2>3. Tomorrow(t) \in Dates  BY <1>1, <2>1, <2>2, DateIsDate
  <2>4. Ordinal(Date(y, m, d + 1)) = YearStart(y) + MonthStart(y, m) + (d + 1)
    <3>1. d + 1 \in Int  BY <1>1
    <3> QED  BY <3>1, <1>1, OrdinalOf
  <2>5. Ordinal(Tomorrow(t)) = s + p + (d + 1)  BY <2>1, <2>4, <1>3, <1>4
  <2>6. Ordinal(Tomorrow(t)) = Ordinal(t) + 1  BY <2>5, <1>1, <1>3, <1>4, <1>5
  <2> QED  BY <2>3, <2>6
<1>8. CASE d = k /\ m < 12
  <2>1. Tomorrow(t) = Date(y, m + 1, 1)  BY <1>1, <1>2, <1>6, <1>8 DEF Tomorrow
  <2>2. m + 1 \in 1 .. 12 /\ m \in 1 .. 11  BY <1>1, <1>8
  <2>3. 1 \in 1 .. DaysIn(y, m + 1)
    <3>1. DaysIn(y, m + 1) \in 28 .. 31  BY <1>1, <2>2, MonthStartIs
    <3> QED  BY <3>1
  <2>4. Tomorrow(t) \in Dates  BY <1>1, <2>1, <2>2, <2>3, DateIsDate
  <2>5. Ordinal(Date(y, m + 1, 1)) = YearStart(y) + MonthStart(y, m + 1) + 1
    BY <1>1, <2>2, OrdinalOf
  <2>6. MonthStart(y, m + 1) = p + k  BY <1>1, <1>2, <1>4, <2>2, NextMonth
  <2>7. Ordinal(Tomorrow(t)) = s + (p + k) + 1  BY <2>1, <2>5, <2>6, <1>3
  <2>8. Ordinal(Tomorrow(t)) = Ordinal(t) + 1  BY <2>7, <1>1, <1>2, <1>3, <1>4, <1>5, <1>8
  <2> QED  BY <2>4, <2>8
<1>9. CASE d = k /\ m = 12
  <2>1. Tomorrow(t) = Date(y + 1, 1, 1)  BY <1>1, <1>2, <1>6, <1>9 DEF Tomorrow
  <2>2. y + 1 \in Nat \ {0} /\ 1 \in 1 .. 12 /\ 1 \in Int  BY <1>1
  <2>3. 1 \in 1 .. DaysIn(y + 1, 1)  BY DEF DaysIn
  <2>4. Tomorrow(t) \in Dates  BY <2>1, <2>2, <2>3, DateIsDate
  <2>5. Ordinal(Date(y + 1, 1, 1)) = YearStart(y + 1) + MonthStart(y + 1, 1) + 1
    BY <2>2, OrdinalOf
  <2>6. MonthStart(y + 1, 1) = 0  BY DEF MonthStart
  <2>7. YearStart(y + 1) = s + 365 + l  BY <1>1, <1>3, YearStartStep
  <2>8. p + k = 365 + l
    <3>1. MonthStart(y, 12) + DaysIn(y, 12) = 365 + LeapDay(y)  BY <1>1, <2>2, MonthsInOrder
    <3> QED  BY <3>1, <1>2, <1>3, <1>4, <1>9
  <2>9. Ordinal(Tomorrow(t)) = (s + 365 + l) + 0 + 1  BY <2>1, <2>5, <2>6, <2>7
  <2>10. Ordinal(Tomorrow(t)) = Ordinal(t) + 1
    BY <2>8, <2>9, <1>1, <1>2, <1>3, <1>4, <1>5, <1>9
  <2> QED  BY <2>4, <2>10
<1> QED  BY <1>1, <1>2, <1>7, <1>8, <1>9

\* A day of an earlier year, or of an earlier month of the year, has a lesser number.
LEMMA EarlierYear ==
    ASSUME NEW y \in Nat \ {0}, NEW m \in 1 .. 12, NEW d \in 1 .. 31, d <= DaysIn(y, m),
           NEW z \in Nat \ {0}, NEW n \in 1 .. 12, NEW e \in 1 .. 31, y < z
    PROVE  YearStart(y) + MonthStart(y, m) + d < YearStart(z) + MonthStart(z, n) + e
<1>1. PICK k \in 28 .. 31 : k = DaysIn(y, m)  BY MonthStartIs
<1>2. PICK s \in Nat, l \in 0 .. 1 : s = YearStart(y) /\ l = LeapDay(y)  BY YearStartIs
<1>3. PICK p \in 0 .. 335 : p = MonthStart(y, m)  BY MonthStartIs
<1>4. PICK r \in Nat : r = YearStart(z)  BY YearStartIs
<1>5. PICK q \in 0 .. 335 : q = MonthStart(z, n)  BY MonthStartIs
<1>6. p + k <= 365 + l  BY <1>1, <1>2, <1>3, MonthStartIs
<1>7. s + 365 + l <= r  BY <1>2, <1>4, YearsInOrder
<1>8. s + p + d < r + q + e  BY <1>1, <1>2, <1>3, <1>4, <1>5, <1>6, <1>7
<1> QED  BY <1>2, <1>3, <1>4, <1>5, <1>8

LEMMA EarlierMonth ==
    ASSUME NEW y \in Nat \ {0}, NEW m \in 1 .. 12, NEW d \in 1 .. 31, d <= DaysIn(y, m),
           NEW n \in 1 .. 12, NEW e \in 1 .. 31, m < n
    PROVE  YearStart(y) + MonthStart(y, m) + d < YearStart(y) + MonthStart(y, n) + e
<1>1. PICK k \in 28 .. 31 : k = DaysIn(y, m)  BY MonthStartIs
<1>2. PICK s \in Nat : s = YearStart(y)  BY YearStartIs
<1>3. PICK p \in 0 .. 335 : p = MonthStart(y, m)  BY MonthStartIs
<1>4. PICK q \in 0 .. 335 : q = MonthStart(y, n)  BY MonthStartIs
<1>5. p + k <= q  BY <1>1, <1>3, <1>4, LaterMonth
<1>6. s + p + d < s + q + e  BY <1>1, <1>2, <1>3, <1>4, <1>5
<1> QED  BY <1>2, <1>3, <1>4, <1>6

LEMMA OrdinalInjective ==
    ASSUME NEW t \in Dates, NEW u \in Dates, Ordinal(t) = Ordinal(u)
    PROVE  t = u
<1>1. PICK y \in Nat \ {0}, m \in 1 .. 12, d \in 1 .. 31 :
          t = Date(y, m, d) /\ d <= DaysIn(y, m)
  BY DatesAre DEF Dates
<1>2. PICK z \in Nat \ {0}, n \in 1 .. 12, e \in 1 .. 31 :
          u = Date(z, n, e) /\ e <= DaysIn(z, n)
  BY DatesAre DEF Dates
<1>3. YearStart(y) + MonthStart(y, m) + d = YearStart(z) + MonthStart(z, n) + e
  <2>1. Ordinal(t) = YearStart(y) + MonthStart(y, m) + d  BY <1>1, OrdinalOf
  <2>2. Ordinal(u) = YearStart(z) + MonthStart(z, n) + e  BY <1>2, OrdinalOf
  <2> QED  BY <2>1, <2>2
<1>4. PICK s \in Nat, p \in 0 .. 335, r \in Nat, q \in 0 .. 335 :
          s = YearStart(y) /\ p = MonthStart(y, m) /\ r = YearStart(z) /\ q = MonthStart(z, n)
  <2>1. YearStart(y) \in Nat /\ YearStart(z) \in Nat  BY <1>1, <1>2, YearStartIs
  <2>2. MonthStart(y, m) \in 0 .. 335  BY <1>1, MonthStartIs
  <2>3. MonthStart(z, n) \in 0 .. 335  BY <1>2, MonthStartIs
  <2> QED  BY <2>1, <2>2, <2>3
<1>5. ~ (s + p + d < r + q + e) /\ ~ (r + q + e < s + p + d)  BY <1>1, <1>2, <1>3, <1>4
<1>6. ~ (y < z)  BY <1>1, <1>2, <1>4, <1>5, EarlierYear
<1>7. ~ (z < y)  BY <1>1, <1>2, <1>4, <1>5, EarlierYear
<1>8. y = z  BY <1>1, <1>2, <1>6, <1>7
<1>9. ~ (m < n)  BY <1>1, <1>2, <1>4, <1>5, <1>8, EarlierMonth
<1>10. ~ (n < m)  BY <1>1, <1>2, <1>4, <1>5, <1>8, EarlierMonth
<1>11. m = n  BY <1>1, <1>2, <1>9, <1>10
<1>12. d = e  BY <1>1, <1>2, <1>4, <1>3, <1>8, <1>11
<1> QED  BY <1>1, <1>2, <1>8, <1>11, <1>12

\* The chain of days that Ahead is defined by.
Chain(f, t, k) == f = [i \in 0 .. k |-> IF i = 0 THEN t ELSE Tomorrow(f[i - 1])]

LEMMA ChainExists ==
    ASSUME NEW t \in Dates, NEW k \in Nat
    PROVE  \E f : Chain(f, t, k)
<1> DEFINE F == [n \in Nat |-> [u \in Dates |-> Tomorrow(u)]]
<1>1. F \in [Nat -> [Dates -> Dates]]
  <2>1. \A u \in Dates : Tomorrow(u) \in Dates  BY TomorrowIs
  <2> QED  BY <2>1
<1>2. PICK f : Follows(f, Dates, t, F, k)
  <2> HIDE DEF F
  <2> QED  BY <1>1, Recursion, Zenon
<1>3. ASSUME NEW i \in 0 .. k PROVE f[i] = IF i = 0 THEN t ELSE Tomorrow(f[i - 1])
  <2> USE DEF Follows
  <2>1. CASE i = 0  BY <1>2, <2>1
  <2>2. CASE i \in 1 .. k
    <3>1. i - 1 \in 0 .. k /\ i \in Nat  BY <2>2
    <3>2. f[i - 1] \in Dates  BY <1>2, <3>1
    <3>3. F[i][f[i - 1]] = Tomorrow(f[i - 1])  BY <3>1, <3>2
    <3>4. f[i] = F[i][f[i - 1]]  BY <1>2, <2>2
    <3> QED  BY <2>2, <3>3, <3>4
  <2> QED  BY <2>1, <2>2
<1>4. f = [i \in 0 .. k |-> f[i]]  BY <1>2 DEF Follows
<1>5. Chain(f, t, k)  BY <1>3, <1>4 DEF Chain
<1> QED  BY <1>5

LEMMA AheadIsChain ==
    ASSUME NEW t \in Dates, NEW k \in Nat
    PROVE  \E f : Chain(f, t, k) /\ Ahead(t, k) = f[k]
<1>1. PICK f : f = CHOOSE g : Chain(g, t, k)  OBVIOUS
<1>2. Chain(f, t, k)  BY <1>1, ChainExists
<1>3. Ahead(t, k) = f[k]  BY <1>1 DEF Ahead, Chain
<1> QED  BY <1>2, <1>3

LEMMA AheadZero ==
    ASSUME NEW t \in Dates
    PROVE  Ahead(t, 0) = t
<1>1. PICK f : Chain(f, t, 0) /\ Ahead(t, 0) = f[0]  BY AheadIsChain
<1> QED  BY <1>1 DEF Chain

LEMMA AheadStep ==
    ASSUME NEW t \in Dates, NEW k \in Nat
    PROVE  Ahead(t, k + 1) = Tomorrow(Ahead(t, k))
<1>1. PICK f : Chain(f, t, k) /\ Ahead(t, k) = f[k]  BY AheadIsChain
<1>2. PICK g : Chain(g, t, k + 1) /\ Ahead(t, k + 1) = g[k + 1]
  <2>1. k + 1 \in Nat  OBVIOUS
  <2> QED  BY <2>1, AheadIsChain
<1> DEFINE T == {i \in 0 .. k : f[i] = g[i]}
<1>3. 0 \in T  BY <1>1, <1>2 DEF Chain
<1>4. ASSUME NEW i \in 0 .. k - 1, i \in T PROVE i + 1 \in T
  <2>1. i + 1 \in 0 .. k /\ i + 1 \in 0 .. k + 1 /\ i + 1 # 0 /\ (i + 1) - 1 = i  OBVIOUS
  <2>2. f[i + 1] = Tomorrow(f[i])  BY <1>1, <2>1 DEF Chain
  <2>3. g[i + 1] = Tomorrow(g[i])  BY <1>2, <2>1 DEF Chain
  <2> QED  BY <1>4, <2>1, <2>2, <2>3
<1>5. f[k] = g[k]
  <2>1. 0 .. k \subseteq T
    <3> HIDE DEF T
    <3> QED  BY <1>3, <1>4, UpTo
  <2> QED  BY <2>1
<1>6. g[k + 1] = Tomorrow(g[k])
  <2>1. k + 1 \in 0 .. k + 1 /\ k + 1 # 0 /\ (k + 1) - 1 = k  OBVIOUS
  <2> QED  BY <1>2, <2>1 DEF Chain
<1> QED  BY <1>1, <1>2, <1>5, <1>6

LEMMA AheadIs ==
    ASSUME NEW t \in Dates, NEW k \in Nat
    PROVE  Ahead(t, k) \in Dates /\ Ordinal(Ahead(t, k)) = Ordinal(t) + k
<1> DEFINE T == {i \in 0 .. k : Ahead(t, i) \in Dates /\ Ordinal(Ahead(t, i)) = Ordinal(t) + i}
<1>0. Ordinal(t) \in Int  BY OrdinalType
<1>1. 0 \in T  BY <1>0, AheadZero
<1>2. ASSUME NEW i \in 0 .. k - 1, i \in T PROVE i + 1 \in T
  <2>1. i \in Nat /\ i + 1 \in 0 .. k  OBVIOUS
  <2>2. PICK u \in Dates : u = Ahead(t, i) /\ Ordinal(u) = Ordinal(t) + i  BY <1>2
  <2>3. Ahead(t, i + 1) = Tomorrow(u)  BY <2>1, <2>2, AheadStep
  <2>4. Tomorrow(u) \in Dates /\ Ordinal(Tomorrow(u)) = Ordinal(t) + (i + 1)
    BY <1>0, <2>1, <2>2, TomorrowIs
  <2> QED  BY <2>1, <2>3, <2>4
<1>3. 0 .. k \subseteq T
  <2> HIDE DEF T
  <2> QED  BY <1>1, <1>2, UpTo
<1> QED  BY <1>3

\* The day that many days later is the one with that number.
LEMMA AheadBy ==
    ASSUME NEW t \in Dates, NEW k \in Nat, NEW u \in Dates, Ordinal(u) = Ordinal(t) + k
    PROVE  Ahead(t, k) = u
BY AheadIs, OrdinalInjective

-----------------------------------------------------------------------------
(* Weekdays *)

Weekday(t) == (Ordinal(t) + 6) % 7

LEMMA SevenMore ==
    ASSUME NEW x \in Int, NEW k \in Int
    PROVE  (x + 7 * k) % 7 = x % 7
OBVIOUS

LEMMA Quotient ==
    ASSUME NEW x \in Int
    PROVE  /\ x % 4 = x - 4 * (x \div 4) /\ x % 100 = x - 100 * (x \div 100)
           /\ x % 400 = x - 400 * (x \div 400)
OBVIOUS

LEMMA NewYearIs ==
    ASSUME NEW y \in Nat \ {0}
    PROVE  Date(y, 1, 1) \in Dates /\ NewYear(y) = Weekday(Date(y, 1, 1))
<1>1. PICK x \in Nat : x = y - 1
  <2>1. y - 1 \in Nat  OBVIOUS
  <2> QED  BY <2>1
<1>2. PICK p \in Int, q \in Int, r \in Int : p = x \div 4 /\ q = x \div 100 /\ r = x \div 400
  <2>1. x \div 4 \in Int /\ x \div 100 \in Int /\ x \div 400 \in Int  BY <1>1
  <2> QED  BY <2>1
<1>3. x % 4 = x - 4 * p /\ x % 100 = x - 100 * q /\ x % 400 = x - 400 * r
  BY <1>1, <1>2, Quotient
<1>4. PICK n \in Int : n = 5 * (x - 4 * p) + 4 * (x - 100 * q) + 6 * (x - 400 * r)
  BY <1>1, <1>2
<1>5. NewYear(y) = n % 7  BY <1>1, <1>3, <1>4 DEF NewYear
<1>6. PICK s \in Int : s = YearStart(y) /\ s = 365 * x + p - q + r
  <2>1. YearStart(y) = 365 * x + p - q + r  BY <1>1, <1>2 DEF YearStart
  <2>2. 365 * x + p - q + r \in Int  BY <1>1, <1>2
  <2> QED  BY <2>1, <2>2
<1>7. PICK k \in Int : k = 50 * x + 3 * p + 57 * q + 343 * r + 1
  <2>1. 50 * x + 3 * p + 57 * q + 343 * r + 1 \in Int  BY <1>1, <1>2
  <2> QED  BY <2>1
<1>8. s + 7 = n + 7 * k  BY <1>1, <1>2, <1>4, <1>6, <1>7
<1>9. (s + 7) % 7 = n % 7  BY <1>4, <1>7, <1>8, SevenMore
<1>10. Ordinal(Date(y, 1, 1)) = s + 0 + 1
  <2>1. Ordinal(Date(y, 1, 1)) = YearStart(y) + MonthStart(y, 1) + 1  BY OrdinalOf
  <2>2. MonthStart(y, 1) = 0  BY DEF MonthStart
  <2> QED  BY <2>1, <2>2, <1>6
<1>11. NewYear(y) = Weekday(Date(y, 1, 1))
  <2>1. (s + 0 + 1) + 6 = s + 7  BY <1>6
  <2> QED  BY <1>5, <1>9, <1>10, <2>1 DEF Weekday
<1>12. Date(y, 1, 1) \in Dates
  <2>1. 1 \in 1 .. DaysIn(y, 1) /\ 1 \in 1 .. 12  BY DEF DaysIn
  <2> QED  BY <2>1, DateIsDate
<1> QED  BY <1>11, <1>12

LEMMA WeekdayAhead ==
    ASSUME NEW t \in Dates, NEW k \in Nat
    PROVE  Weekday(t) \in 0 .. 6 /\ Weekday(Ahead(t, k)) = (Weekday(t) + k) % 7
<1>1. PICK n \in Int : n = Ordinal(t)  BY OrdinalType
<1>2. Ordinal(Ahead(t, k)) = n + k  BY <1>1, AheadIs
<1>3. ((n + k) + 6) % 7 = (((n + 6) % 7) + k) % 7  BY <1>1
<1>4. (n + 6) % 7 \in 0 .. 6  BY <1>1
<1> QED  BY <1>1, <1>2, <1>3, <1>4 DEF Weekday

-----------------------------------------------------------------------------
(* Easter *)

\* A day counted from the end of February.
MarchDay(y, s) == IF s > 31 THEN Date(y, 4, s - 31) ELSE Date(y, 3, s)

MarchEve(y) == 365 * y + (y \div 4) - (y \div 100) + (y \div 400) - 306

LEMMA MarchDayIs ==
    ASSUME NEW y \in Nat \ {0}, NEW s \in 1 .. 61
    PROVE  /\ MarchDay(y, s) \in Dates /\ MarchEve(y) \in Int
           /\ Ordinal(MarchDay(y, s)) = MarchEve(y) + s
<1>1. DaysIn(y, 3) = 31 /\ DaysIn(y, 4) = 30  BY DEF DaysIn
<1>2. PICK r \in Nat, l \in 0 .. 1 : r = YearStart(y) /\ l = LeapDay(y)  BY YearStartIs
<1>3. MonthStart(y, 3) = 59 + l /\ MonthStart(y, 4) = 90 + l  BY <1>2 DEF MonthStart
<1>4. r + 365 + l - 306 = MarchEve(y)
  <2>1. YearStart(y + 1) = r + 365 + l  BY <1>2, YearStartStep
  <2>2. YearStart(y + 1) = 365 * y + (y \div 4) - (y \div 100) + (y \div 400)  BY DEF YearStart
  <2>3. MarchEve(y) = YearStart(y + 1) - 306  BY <2>2 DEF MarchEve
  <2> QED  BY <1>2, <2>1, <2>3
<1>7. MarchEve(y) \in Int  BY <1>2, <1>4
<1>5. CASE s > 31
  <2>1. s - 31 \in 1 .. 30 /\ 4 \in 1 .. 12  BY <1>5
  <2>2. MarchDay(y, s) = Date(y, 4, s - 31)  BY <1>5 DEF MarchDay
  <2>3. MarchDay(y, s) \in Dates  BY <2>1, <2>2, <1>1, DateIsDate
  <2>4. Ordinal(Date(y, 4, s - 31)) = YearStart(y) + MonthStart(y, 4) + (s - 31)
    <3>1. s - 31 \in Int  OBVIOUS
    <3> QED  BY <2>1, <3>1, OrdinalOf
  <2>5. Ordinal(MarchDay(y, s)) = r + 365 + l - 306 + s  BY <2>2, <2>4, <1>2, <1>3
  <2> QED  BY <2>3, <2>5, <1>4
<1>6. CASE s <= 31
  <2>1. s \in 1 .. 31 /\ 3 \in 1 .. 12 /\ s \in Int  BY <1>6
  <2>2. MarchDay(y, s) = Date(y, 3, s)  BY <1>6 DEF MarchDay
  <2>3. MarchDay(y, s) \in Dates  BY <2>1, <2>2, <1>1, DateIsDate
  <2>4. Ordinal(Date(y, 3, s)) = YearStart(y) + MonthStart(y, 3) + s  BY <2>1, OrdinalOf
  <2>5. Ordinal(MarchDay(y, s)) = r + 365 + l - 306 + s  BY <2>2, <2>4, <1>2, <1>3
  <2> QED  BY <2>3, <2>5, <1>4
<1> QED  BY <1>5, <1>6, <1>7

\* The two corrections of the moon in a century, as _easter and the reform write them.
LEMMA CenturyOfMoon ==
    ASSUME NEW b \in Nat
    PROVE  /\ (8 * b + 13) \div 25 = (b - ((b + 8) \div 25) + 1) \div 3
           /\ (3 * (b + 1)) \div 4 = b - (b \div 4)
<1>1. PICK q \in Int, r \in 0 .. 24 : q = (b + 8) \div 25 /\ b = 25 * q + r - 8
  <2>1. (b + 8) \div 25 \in Int /\ (b + 8) % 25 \in 0 .. 24  OBVIOUS
  <2>2. b + 8 = 25 * ((b + 8) \div 25) + ((b + 8) % 25)  OBVIOUS
  <2>3. b = 25 * ((b + 8) \div 25) + ((b + 8) % 25) - 8  BY <2>1, <2>2
  <2> QED  BY <2>1, <2>3
<1>2. (8 * b + 13) \div 25 = (b - ((b + 8) \div 25) + 1) \div 3
  <2>1. 8 * b + 13 = 25 * (8 * q) + (8 * r - 51)  BY <1>1
  <2>2. (25 * (8 * q) + (8 * r - 51)) \div 25 = 8 * q + ((8 * r - 51) \div 25)  BY <1>1
  <2>3. b - ((b + 8) \div 25) + 1 = 3 * (8 * q) + (r - 7)  BY <1>1
  <2>4. (3 * (8 * q) + (r - 7)) \div 3 = 8 * q + ((r - 7) \div 3)  BY <1>1
  <2>5. (8 * r - 51) \div 25 = (r - 7) \div 3  BY <1>1
  <2> QED  BY <2>1, <2>2, <2>3, <2>4, <2>5
<1>3. (3 * (b + 1)) \div 4 = b - (b \div 4)  OBVIOUS
<1> QED  BY <1>2, <1>3

\* The h of _easter and the moon of the reform, from the year's place in the cycle and f,
\* which is the same in the whole century.
MoonLag(a, f) == (19 * a + f + 15) % 30

ReformMoon(a, f) ==
    LET e == (11 * (a + 1) + 20 + 7 - f) % 30
        epact == IF e = 24 \/ (e = 25 /\ a + 1 > 11) THEN e + 1 ELSE e
    IN  IF 44 - epact < 21 THEN 74 - epact ELSE 44 - epact

MoonAfter(a, h) == IF h = 29 \/ (h = 28 /\ a >= 11) THEN 20 + h ELSE 21 + h

LEMMA MoonIs ==
    ASSUME NEW a \in 0 .. 18, NEW f \in Int
    PROVE  MoonLag(a, f) \in 0 .. 29 /\ ReformMoon(a, f) = MoonAfter(a, MoonLag(a, f))
<1> DEFINE h == MoonLag(a, f)
           e == (11 * (a + 1) + 20 + 7 - f) % 30
<1>1. PICK n \in Int : n = 19 * a + f + 15  OBVIOUS
<1>2. h \in 0 .. 29 /\ h = n % 30  BY <1>1 DEF MoonLag
<1>0. ReformMoon(a, f) = LET epact == IF e = 24 \/ (e = 25 /\ a + 1 > 11) THEN e + 1 ELSE e
                         IN  IF 44 - epact < 21 THEN 74 - epact ELSE 44 - epact
  BY DEF ReformMoon
<1>7. e = (11 * (a + 1) + 20 + 7 - f) % 30  OBVIOUS
<1> HIDE DEF h, e
<1>3. PICK q \in Int : n = 30 * q + h
  <2>1. n \div 30 \in Int /\ n = 30 * (n \div 30) + (n % 30)  BY <1>1
  <2> QED  BY <1>2, <2>1
<1>4. 11 * (a + 1) + 20 + 7 - f = 30 * (a + 1 - q) + (23 - h)  BY <1>1, <1>2, <1>3
<1>5. e = (23 - h) % 30
  <2>1. (30 * (a + 1 - q) + (23 - h)) % 30 = (23 - h) % 30  BY <1>2, <1>3
  <2> QED  BY <1>4, <1>7, <2>1
<1>6. e = IF h <= 23 THEN 23 - h ELSE 53 - h  BY <1>2, <1>5
<1>8. ReformMoon(a, f) = MoonAfter(a, h)  BY <1>0, <1>2, <1>6 DEF MoonAfter
<1> QED  BY <1>2, <1>8 DEF h

\* What is left of the week after the moon, as _easter computes it, and the number that the
\* reform computes it from.
Rest(y, h) ==
    (32 + 2 * ((y \div 100) % 4) + 2 * ((y % 100) \div 4) - h - ((y % 100) % 4)) % 7

DaysBefore(y) == ((5 * y) \div 4) - ((y \div 100) - ((y \div 100) \div 4) - 12) - 10

LEMMA RestOfWeek ==
    ASSUME NEW y \in Nat \ {0}, NEW h \in Int
    PROVE  /\ DaysBefore(y) \in Int /\ Rest(y, h) \in 0 .. 6
           /\ Rest(y, h) = 6 - ((DaysBefore(y) + 21 + h) % 7)
<1> DEFINE b == y \div 100
           c == y % 100
           d == DaysBefore(y)
           l == Rest(y, h)
<1>1. b \in Nat /\ c \in 0 .. 99 /\ y = 100 * b + c  OBVIOUS
<1>11. /\ d = ((5 * y) \div 4) - (b - (b \div 4) - 12) - 10
       /\ l = (32 + 2 * (b % 4) + 2 * (c \div 4) - h - (c % 4)) % 7
  BY DEF DaysBefore, Rest
<1> HIDE DEF b, c, d, l
<1>2. PICK p \in Int, r \in Int : p = b \div 4 /\ r = b % 4 /\ b = 4 * p + r
  <2>1. b \div 4 \in Int /\ b % 4 \in Int /\ b = 4 * (b \div 4) + (b % 4)  BY <1>1
  <2> QED  BY <2>1
<1>3. PICK s \in Int, u \in Int : s = c \div 4 /\ u = c % 4 /\ c = 4 * s + u
  <2>1. c \div 4 \in Int /\ c % 4 \in Int /\ c = 4 * (c \div 4) + (c % 4)  BY <1>1
  <2> QED  BY <2>1
<1>4. (5 * y) \div 4 = 125 * b + 5 * s + u
  <2>1. u \in 0 .. 3  BY <1>1, <1>3
  <2>2. 5 * y = 4 * (125 * b + 5 * s + u) + u  BY <1>1, <1>2, <1>3
  <2>3. 125 * b + 5 * s + u \in Int  BY <1>1, <1>3
  <2> QED  BY <2>1, <2>2, <2>3
<1>5. d = 497 * p + 124 * r + 5 * s + u + 2  BY <1>11, <1>1, <1>2, <1>3, <1>4
<1>6. PICK w \in Int : w = d + 21 + h
  <2>1. d \in Int  BY <1>5, <1>2, <1>3
  <2> QED  BY <2>1
<1>7. PICK v \in Int : v = 32 + 2 * r + 2 * s - h - u  BY <1>2, <1>3
<1>8. v = 6 - w + 7 * (71 * p + 18 * r + s + 7)  BY <1>2, <1>3, <1>5, <1>6, <1>7
<1>9. l = (6 - w) % 7
  <2>1. l = v % 7  BY <1>11, <1>2, <1>3, <1>7
  <2>2. 71 * p + 18 * r + s + 7 \in Int /\ 6 - w \in Int  BY <1>2, <1>3, <1>6
  <2> QED  BY <2>1, <2>2, <1>8, SevenMore
<1>10. l \in 0 .. 6 /\ l = 6 - (w % 7)  BY <1>6, <1>9
<1>12. d \in Int  BY <1>5, <1>2, <1>3
<1> QED  BY <1>6, <1>10, <1>12 DEF d, l

\* The Sunday after the moon, as _easter and the reform find it.
Excess(a, h, l) == (a + 11 * h + 22 * l) \div 451

FillsWeek(l, d, h) == l = 6 - ((d + 21 + h) % 7)

SundayAfter(a, h, l, d, m) ==
    /\ m \in 0 .. 1 /\ h + l - 7 * m + 22 \in 22 .. 56
    /\ MoonAfter(a, h) + 7 - ((d + MoonAfter(a, h)) % 7) = h + l - 7 * m + 22
    /\ (d + h + l + 15 - 7 * m) % 7 = 0

LEMMA SundayIs ==
    ASSUME NEW a \in 0 .. 18, NEW h \in 0 .. 29, NEW l \in 0 .. 6, NEW d \in Int,
           FillsWeek(l, d, h)
    PROVE  SundayAfter(a, h, l, d, Excess(a, h, l))
<1> DEFINE m == Excess(a, h, l)
           moon == MoonAfter(a, h)
<1> USE DEF SundayAfter, MoonAfter, FillsWeek, Excess
<1>1. PICK w \in Int : w = d + 21 + h /\ l = 6 - (w % 7)  OBVIOUS
<1>2. (w - 1) % 7 = IF w % 7 = 0 THEN 6 ELSE (w % 7) - 1  BY <1>1
<1>3. m \in 0 .. 1 /\ (m = 1 <=> (h = 29 /\ l = 6) \/ (h = 28 /\ l = 6 /\ a >= 11))
  OBVIOUS
<1>4. CASE h = 29 \/ (h = 28 /\ a >= 11)
  <2>1. d + moon = w - 1 /\ moon = 20 + h  BY <1>1, <1>4
  <2>2. m = IF l = 6 THEN 1 ELSE 0  BY <1>3, <1>4
  <2> QED  BY <1>1, <1>2, <2>1, <2>2, <1>4
<1>5. CASE ~ (h = 29 \/ (h = 28 /\ a >= 11))
  <2>1. d + moon = w /\ moon = 21 + h  BY <1>1, <1>5
  <2>2. m = 0  BY <1>3, <1>5
  <2> QED  BY <1>1, <2>1, <2>2, <1>5
<1> QED  BY <1>4, <1>5

LEMMA MarchOrApril ==
    ASSUME NEW y, NEW s \in 22 .. 56
    PROVE  Date(y, (s + 92) \div 31, ((s + 92) % 31) + 1) = MarchDay(y, s)
<1>1. CASE s > 31
  <2>1. (s + 92) \div 31 = 4 /\ ((s + 92) % 31) + 1 = s - 31  BY <1>1
  <2> QED  BY <2>1, <1>1 DEF MarchDay
<1>2. CASE s <= 31
  <2>1. (s + 92) \div 31 = 3 /\ ((s + 92) % 31) + 1 = s  BY <1>2
  <2> QED  BY <2>1, <1>2 DEF MarchDay
<1> QED  BY <1>1, <1>2

EasterOn(y, s) ==
    /\ Easter(y) = MarchDay(y, s) /\ Clavius(y) = MarchDay(y, s)
    /\ Weekday(MarchDay(y, s)) = 6

\* Easter is the Sunday of the reform's rule, from 22 March to 25 April.
LEMMA EasterFalls ==
    ASSUME NEW y \in Nat \ {0}
    PROVE  \E s \in 22 .. 56 : EasterOn(y, s)
<1> DEFINE a == y % 19
           b == y \div 100
           c == y % 100
           g == (b - ((b + 8) \div 25) + 1) \div 3
           h == (19 * a + b - (b \div 4) - g + 15) % 30
           l == (32 + 2 * (b % 4) + 2 * (c \div 4) - h - (c % 4)) % 7
           m == (a + 11 * h + 22 * l) \div 451
           n == h + l - 7 * m + 114
           x == ((3 * (b + 1)) \div 4) - 12
           z == ((8 * (b + 1) + 5) \div 25) - 5
           e == (11 * (a + 1) + 20 + z - x) % 30
           epact == IF e = 24 \/ (e = 25 /\ a + 1 > 11) THEN e + 1 ELSE e
           moon == IF 44 - epact < 21 THEN 74 - epact ELSE 44 - epact
           sunday == moon + 7 - ((((5 * y) \div 4) - x - 10 + moon) % 7)
<1>1. Easter(y) = Date(y, n \div 31, (n % 31) + 1)  BY DEF Easter
<1>2. Clavius(y) = IF sunday > 31 THEN Date(y, 4, sunday - 31) ELSE Date(y, 3, sunday)
  BY DEF Clavius
<1>3. a \in 0 .. 18 /\ b \in Nat  OBVIOUS
<1>4. g = (8 * b + 13) \div 25 /\ g \in Int /\ b \div 4 \in Int
      /\ x = b - (b \div 4) - 12
  <2> HIDE DEF a, b
  <2> QED  BY <1>3, CenturyOfMoon
<1>5. z = g - 5
  <2>1. 8 * (b + 1) + 5 = 8 * b + 13
    <3> HIDE DEF b
    <3> QED  BY <1>3
  <2> HIDE DEF a, b, g
  <2> QED  BY <2>1, <1>4
<1>6. PICK f \in Int : f = b - (b \div 4) - g
  <2> HIDE DEF a, b, g
  <2> QED  BY <1>3, <1>4
<1>7. h = (19 * a + f + 15) % 30
  <2>1. 19 * a + b - (b \div 4) - g + 15 = 19 * a + f + 15
    <3> HIDE DEF a, b, g
    <3> QED  BY <1>3, <1>4, <1>6
  <2> QED  BY <2>1
<1>8. e = (11 * (a + 1) + 20 + 7 - f) % 30
  <2>1. 11 * (a + 1) + 20 + z - x = 11 * (a + 1) + 20 + 7 - f
    <3> HIDE DEF a, b, g, z, x
    <3> QED  BY <1>3, <1>4, <1>5, <1>6
  <2> QED  BY <2>1
<1>9. h \in 0 .. 29 /\ moon = MoonAfter(a, h)
  <2>1. moon = LET u == IF e = 24 \/ (e = 25 /\ a + 1 > 11) THEN e + 1 ELSE e
               IN  IF 44 - u < 21 THEN 74 - u ELSE 44 - u
    <3> HIDE DEF a, e
    <3> QED  OBVIOUS
  <2> HIDE DEF a, b, c, g, h, l, m, n, x, z, e, epact, moon, sunday
  <2>2. h = MoonLag(a, f)  BY <1>7 DEF MoonLag
  <2>3. moon = ReformMoon(a, f)  BY <1>8, <2>1 DEF ReformMoon
  <2> QED  BY <1>3, <1>6, <2>2, <2>3, MoonIs
<1>10. PICK d \in Int : d = ((5 * y) \div 4) - (b - (b \div 4) - 12) - 10
                        /\ d = y + (y \div 4) - b + (b \div 4) + 2
  <2>1. (5 * y) \div 4 = y + (y \div 4)  OBVIOUS
  <2>2. y \div 4 \in Int /\ (5 * y) \div 4 \in Int  OBVIOUS
  <2> HIDE DEF b
  <2> QED  BY <1>3, <1>4, <2>1, <2>2
<1>11. l \in 0 .. 6 /\ l = 6 - ((d + 21 + h) % 7)
  <2>1. l = Rest(y, h)  BY DEF Rest
  <2>2. d = DaysBefore(y)  BY <1>10 DEF DaysBefore
  <2> HIDE DEF a, b, c, g, h, l, m, n, x, z, e, epact, moon, sunday
  <2>3. h \in Int  BY <1>9
  <2> QED  BY <2>1, <2>2, <2>3, RestOfWeek
<1>12. PICK s \in 22 .. 56 : s = n - 92 /\ n = s + 92 /\ s = sunday /\ (d + s - 7) % 7 = 0
  <2>1. m = (a + 11 * h + 22 * l) \div 451  OBVIOUS
  <2>2. sunday = moon + 7 - ((d + moon) % 7)
    <3>1. ((5 * y) \div 4) - x - 10 = d
      <4> HIDE DEF a, b, c, g, h, l, m, n, x, z, e, epact, moon, sunday
      <4> QED  BY <1>4, <1>10
    <3> HIDE DEF a, b, c, g, h, l, m, n, x, z, e, epact, moon
    <3> QED  BY <3>1 DEF sunday
  <2>3. n = h + l - 7 * m + 114  OBVIOUS
  <2> HIDE DEF a, b, c, g, h, l, m, n, x, z, e, epact, moon, sunday
  <2>8. SundayAfter(a, h, l, d, m)
    <3>1. a \in 0 .. 18 /\ h \in 0 .. 29 /\ l \in 0 .. 6 /\ d \in Int
      BY <1>3, <1>9, <1>10, <1>11
    <3>2. FillsWeek(l, d, h)  BY <1>11 DEF FillsWeek
    <3>3. SundayAfter(a, h, l, d, Excess(a, h, l))  BY <3>1, <3>2, SundayIs
    <3>4. m = Excess(a, h, l)  BY <2>1 DEF Excess
    <3> QED  BY <3>3, <3>4, Zenon
  <2>4. /\ m \in 0 .. 1 /\ h + l - 7 * m + 22 \in 22 .. 56
        /\ moon + 7 - ((d + moon) % 7) = h + l - 7 * m + 22
        /\ (d + h + l + 15 - 7 * m) % 7 = 0
    BY <1>9, <2>8, Zenon DEF SundayAfter
  <2>5. PICK s \in 22 .. 56 : s = h + l - 7 * m + 22  BY <2>4
  <2>6. d + h + l + 15 - 7 * m = d + s - 7  BY <2>4, <2>5, <1>9, <1>10, <1>11
  <2>7. n = s + 92 /\ s = n - 92  BY <2>3, <2>4, <2>5, <1>9, <1>11
  <2> QED  BY <2>2, <2>4, <2>5, <2>6, <2>7
<1>13. Easter(y) = MarchDay(y, s)
  <2> HIDE DEF a, b, c, g, h, l, m, n, x, z, e, epact, moon, sunday
  <2> QED  BY <1>1, <1>12, MarchOrApril
<1>14. Clavius(y) = MarchDay(y, s)
  <2> HIDE DEF a, b, c, g, h, l, m, n, x, z, e, epact, moon, sunday
  <2> QED  BY <1>2, <1>12 DEF MarchDay
<1>15. Weekday(MarchDay(y, s)) = 6
  <2>1. b \div 4 = y \div 400 /\ y \div 400 \in Int /\ y \div 4 \in Int /\ b = y \div 100  OBVIOUS
  <2> HIDE DEF a, b, c, g, h, l, m, n, x, z, e, epact, moon, sunday
  <2>2. s \in 1 .. 61  BY <1>12
  <2>3. Ordinal(MarchDay(y, s)) = 365 * y + (y \div 4) - b + (b \div 4) - 306 + s
    <3>1. Ordinal(MarchDay(y, s)) = MarchEve(y) + s  BY <2>2, MarchDayIs
    <3>2. MarchEve(y) = 365 * y + (y \div 4) - b + (b \div 4) - 306  BY <2>1 DEF MarchEve
    <3> QED  BY <3>1, <3>2
  <2>4. PICK o \in Int : o = Ordinal(MarchDay(y, s)) /\ o = (d + s - 7) + 7 * (52 * y - 43)
    BY <2>1, <2>3, <1>3, <1>10, <1>12
  <2>5. (d + s - 7) % 7 = 0 /\ d + s - 7 \in Int /\ 52 * y - 43 \in Int  BY <1>10, <1>12
  <2>6. o % 7 = 0  BY <2>4, <2>5, SevenMore
  <2>7. (o + 6) % 7 = 6  BY <2>4, <2>6
  <2> QED  BY <2>4, <2>7 DEF Weekday
<1> QED  BY <1>12, <1>13, <1>14, <1>15 DEF EasterOn

\* The days of March to June, counted from the end of February.
SpringDay(y, s) ==
    CASE s <= 31 -> Date(y, 3, s) [] s \in 32 .. 61 -> Date(y, 4, s - 31)
      [] s \in 62 .. 92 -> Date(y, 5, s - 61) [] OTHER -> Date(y, 6, s - 92)

LEMMA SpringDayIs ==
    ASSUME NEW y \in Nat \ {0}, NEW s \in 1 .. 122
    PROVE  /\ SpringDay(y, s) \in Dates /\ Ordinal(SpringDay(y, s)) = MarchEve(y) + s
           /\ SpringDay(y, s).m \in 3 .. 6
<1>1. /\ DaysIn(y, 3) = 31 /\ DaysIn(y, 4) = 30 /\ DaysIn(y, 5) = 31 /\ DaysIn(y, 6) = 30
  BY DEF DaysIn
<1>2. PICK r \in Nat, l \in 0 .. 1 : r = YearStart(y) /\ l = LeapDay(y)  BY YearStartIs
<1>3. /\ MonthStart(y, 3) = 59 + l /\ MonthStart(y, 4) = 90 + l
      /\ MonthStart(y, 5) = 120 + l /\ MonthStart(y, 6) = 151 + l
  BY <1>2 DEF MonthStart
<1>4. r + 59 + l = MarchEve(y)
  <2>1. YearStart(y + 1) = r + 365 + l  BY <1>2, YearStartStep
  <2>2. YearStart(y + 1) = 365 * y + (y \div 4) - (y \div 100) + (y \div 400)  BY DEF YearStart
  <2>3. MarchEve(y) = YearStart(y + 1) - 306  BY <2>2 DEF MarchEve
  <2> QED  BY <1>2, <2>1, <2>3
<1>5. ASSUME NEW m \in 3 .. 6, NEW d \in 1 .. DaysIn(y, m),
             SpringDay(y, s) = Date(y, m, d), MonthStart(y, m) + d = 59 + l + s
      PROVE  /\ SpringDay(y, s) \in Dates /\ Ordinal(SpringDay(y, s)) = MarchEve(y) + s
             /\ SpringDay(y, s).m \in 3 .. 6
  <2>1. m \in 1 .. 12 /\ DaysIn(y, m) \in 28 .. 31  BY MonthsInOrder
  <2>2. d \in Int  BY <2>1
  <2>3. Date(y, m, d) \in Dates /\ Date(y, m, d).m = m  BY <2>1, DateIsDate
  <2>4. Ordinal(Date(y, m, d)) = YearStart(y) + MonthStart(y, m) + d  BY <2>1, <2>2, OrdinalOf
  <2>5. PICK p \in 0 .. 335 : p = MonthStart(y, m)
    <3>1. MonthStart(y, m) \in 0 .. 335  BY <2>1, MonthStartIs
    <3> QED  BY <3>1
  <2>6. r + p + d = r + 59 + l + s  BY <1>2, <1>5, <2>2, <2>5
  <2> QED  BY <1>2, <1>4, <1>5, <2>3, <2>4, <2>5, <2>6
<1>6. CASE s <= 31
  <2>1. SpringDay(y, s) = Date(y, 3, s)  BY <1>6 DEF SpringDay
  <2>2. s \in 1 .. DaysIn(y, 3) /\ MonthStart(y, 3) + s = 59 + l + s  BY <1>1, <1>3, <1>6
  <2> QED  BY <2>1, <2>2, <1>5
<1>7. CASE s \in 32 .. 61
  <2>1. SpringDay(y, s) = Date(y, 4, s - 31)  BY <1>7 DEF SpringDay
  <2>2. s - 31 \in 1 .. DaysIn(y, 4) /\ MonthStart(y, 4) + (s - 31) = 59 + l + s
    BY <1>1, <1>2, <1>3, <1>7
  <2> QED  BY <2>1, <2>2, <1>5
<1>8. CASE s \in 62 .. 92
  <2>1. SpringDay(y, s) = Date(y, 5, s - 61)  BY <1>8 DEF SpringDay
  <2>2. s - 61 \in 1 .. DaysIn(y, 5) /\ MonthStart(y, 5) + (s - 61) = 59 + l + s
    BY <1>1, <1>2, <1>3, <1>8
  <2> QED  BY <2>1, <2>2, <1>5
<1>9. CASE s \in 93 .. 122
  <2>1. SpringDay(y, s) = Date(y, 6, s - 92)  BY <1>9 DEF SpringDay
  <2>2. s - 92 \in 1 .. DaysIn(y, 6) /\ MonthStart(y, 6) + (s - 92) = 59 + l + s
    BY <1>1, <1>2, <1>3, <1>9
  <2> QED  BY <2>1, <2>2, <1>5
<1> QED  BY <1>6, <1>7, <1>8, <1>9

FeastOn(t, n, k) == t \in Dates /\ Ordinal(t) = n + k /\ t.m \in 3 .. 6

LEMMA OffsetsAre ==
    ASSUME NEW key \in DOMAIN EasterOffsets
    PROVE  /\ EasterOffsets[key] \in -2 .. 60
           /\ EasterOffsets[key] < 0 => EasterOffsets[key] = -2
           /\ (6 + EasterOffsets[key]) % 7 =
                  CASE key = "good_friday" -> 4
                    [] key \in {"easter_monday", "whit_monday"} -> 0
                    [] key \in {"ascension", "corpus_christi"} -> 3
                    [] OTHER -> 6
BY DEF EasterOffsets

\* Every feast is its number of days from Easter, in the months of spring.
LEMMA FeastFalls ==
    ASSUME NEW y \in Nat \ {0}, NEW key \in DOMAIN EasterOffsets
    PROVE  FeastOn(Feast(y, key), Ordinal(Easter(y)), EasterOffsets[key])
<1>1. PICK s \in 22 .. 56 : EasterOn(y, s)  BY EasterFalls
<1>2. PICK k \in -2 .. 60 : k = EasterOffsets[key] /\ (k < 0 => k = -2)  BY OffsetsAre
<1>3. PICK e \in Dates : e = Easter(y)
  <2>1. s \in 1 .. 61  BY <1>1
  <2> QED  BY <1>1, <2>1, MarchDayIs DEF EasterOn
<1>4. PICK n \in Int : n = MarchEve(y) /\ Ordinal(e) = n + s
  <2>1. s \in 1 .. 61  BY <1>1
  <2>2. MarchEve(y) \in Int /\ Ordinal(MarchDay(y, s)) = MarchEve(y) + s  BY <2>1, MarchDayIs
  <2> QED  BY <1>1, <1>3, <2>2 DEF EasterOn
<1>5. s + k \in 1 .. 122  BY <1>1, <1>2
<1>6. PICK t \in Dates : t = SpringDay(y, s + k) /\ Ordinal(t) = n + (s + k) /\ t.m \in 3 .. 6
  BY <1>4, <1>5, SpringDayIs
<1>7. Ordinal(t) = Ordinal(e) + k  BY <1>1, <1>2, <1>4, <1>6
<1>8. Feast(y, key) = t
  <2>1. CASE k >= 0
    <3>1. k \in Nat  BY <1>2, <2>1
    <3>2. Ahead(e, k) = t  BY <1>7, <3>1, AheadBy
    <3> QED  BY <1>2, <1>3, <2>1, <3>2 DEF Feast
  <2>2. CASE k = -2
    <3> DEFINE C == {Date(y, m, d) : m \in {3, 4}, d \in 1 .. 31}
               Is(u) == u.d <= DaysIn(y, u.m) /\ Ahead(u, 2) = e
    <3>1. Feast(y, key) = CHOOSE u \in C : Is(u)
      <4>1. -EasterOffsets[key] = 2 /\ EasterOffsets[key] < 0
        <5>1. k = -2 /\ k = EasterOffsets[key] /\ k \in Int  BY <1>2, <2>2
        <5>3. k \in Int /\ k + 2 = 0 /\ k < 0  BY <5>1
        <5>2. -k = 2 /\ k < 0  BY <5>3
        <5> HIDE DEF C, Is
        <5> QED  BY <5>1, <5>2, Zenon
      <4> QED  BY <4>1, <1>3 DEF Feast
    <3>2. t \in C
      <4>1. s + k <= 61  BY <1>1, <1>2, <2>2
      <4>2. \/ s + k <= 31 /\ t = Date(y, 3, s + k) /\ s + k \in 1 .. 31
            \/ s + k \in 32 .. 61 /\ t = Date(y, 4, (s + k) - 31) /\ (s + k) - 31 \in 1 .. 31
        BY <1>5, <1>6, <4>1 DEF SpringDay
      <4> QED  BY <4>2
    <3>3. Is(t)
      <4>1. t.d <= DaysIn(y, t.m)
        <5>1. t.y = y  BY <1>6 DEF SpringDay, Date
        <5> QED  BY <5>1, DatesAre
      <4>2. 2 \in Nat /\ Ordinal(e) = Ordinal(t) + 2
        <5>1. Ordinal(t) \in Int /\ Ordinal(e) \in Int  BY OrdinalType
        <5> QED  BY <1>7, <2>2, <5>1
      <4> QED  BY <4>1, <4>2, AheadBy
    <3>4. ASSUME NEW u \in C, Is(u) PROVE u = t
      <4>1. PICK m \in {3, 4}, d \in 1 .. 31 : u = Date(y, m, d)  OBVIOUS
      <4>2. u.m = m /\ u.d = d  BY <4>1 DEF Date
      <4>3. m \in 1 .. 12 /\ DaysIn(y, m) \in 28 .. 31 /\ d \in 1 .. DaysIn(y, m)
        <5>1. m \in 1 .. 12  BY <4>1
        <5>2. DaysIn(y, m) \in 28 .. 31  BY <5>1, MonthStartIs
        <5> QED  BY <3>4, <4>1, <4>2, <5>1, <5>2
      <4>4. u \in Dates  BY <4>1, <4>3, DateIsDate
      <4>5. Ordinal(e) = Ordinal(u) + 2
        <5>1. 2 \in Nat  OBVIOUS
        <5> QED  BY <3>4, <4>4, <5>1, AheadIs
      <4>6. Ordinal(u) = Ordinal(t)
        <5>1. Ordinal(t) \in Int /\ Ordinal(u) \in Int /\ Ordinal(e) \in Int
          BY <4>4, OrdinalType
        <5> QED  BY <1>7, <2>2, <4>5, <5>1
      <4> QED  BY <4>4, <4>6, OrdinalInjective
    <3> HIDE DEF C, Is
    <3> QED  BY <3>1, <3>2, <3>3, <3>4
  <2> QED  BY <1>2, <2>1, <2>2
<1> QED  BY <1>2, <1>3, <1>6, <1>7, <1>8 DEF FeastOn

LEMMA FeastWeekday ==
    ASSUME NEW y \in Nat \ {0}, NEW key \in DOMAIN EasterOffsets
    PROVE  Weekday(Feast(y, key)) = (6 + EasterOffsets[key]) % 7
<1>1. PICK s \in 22 .. 56 : EasterOn(y, s)  BY EasterFalls
<1>2. PICK k \in -2 .. 60 : k = EasterOffsets[key]  BY OffsetsAre
<1>3. PICK n \in Int : n = Ordinal(Easter(y)) /\ (n + 6) % 7 = 6
  <2>1. s \in 1 .. 61  BY <1>1
  <2>2. Easter(y) \in Dates  BY <1>1, <2>1, MarchDayIs DEF EasterOn
  <2> QED  BY <1>1, <2>2, OrdinalType DEF EasterOn, Weekday
<1>4. Ordinal(Feast(y, key)) = n + k  BY <1>2, <1>3, FeastFalls DEF FeastOn
<1>5. (n + k + 6) % 7 = (6 + k) % 7  BY <1>2, <1>3
<1> QED  BY <1>2, <1>4, <1>5 DEF Weekday

-----------------------------------------------------------------------------
(* The tables *)

\* The fixed days of every canton and of the states that business days look at.
AllFixed ==
    {<<1, 1>>, <<1, 2>>, <<1, 6>>, <<3, 1>>, <<3, 9>>, <<3, 19>>, <<5, 1>>, <<6, 24>>, <<6, 29>>,
     <<7, 25>>, <<8, 1>>, <<8, 15>>, <<10, 3>>, <<11, 1>>, <<12, 8>>, <<12, 25>>, <<12, 26>>,
     <<12, 31>>}

MonthDay(t) == <<t.m, t.d>>

LEMMA FixedIs ==
    ASSUME NEW y, NEW days \in SUBSET (Int \X Int), NEW t
    PROVE  t \in Fixed(y, days) => MonthDay(t) \in days
<1> SUFFICES ASSUME t \in Fixed(y, days) PROVE MonthDay(t) \in days  OBVIOUS
<1>1. PICK md \in days : t = Date(y, md[1], md[2])  BY DEF Fixed
<1>2. md = <<md[1], md[2]>>  BY <1>1
<1>3. t.m = md[1] /\ t.d = md[2]  BY <1>1 DEF Date
<1> QED  BY <1>1, <1>2, <1>3 DEF MonthDay

LEMMA IsFixed ==
    ASSUME NEW days, NEW t \in Dates, MonthDay(t) \in days
    PROVE  t \in Fixed(t.y, days)
<1>1. t = Date(t.y, MonthDay(t)[1], MonthDay(t)[2])  BY DatesAre DEF MonthDay
<1> QED  BY <1>1 DEF Fixed

LEMMA AllFixedArePairs == AllFixed \in SUBSET (Int \X Int)
BY DEF AllFixed

LEMMA CantonFixedIs ==
    ASSUME NEW canton
    PROVE  CantonFixed(canton) \subseteq AllFixed
<1> USE DEF CantonFixed, AllFixed
<1>1. CASE canton \in {"ZH", "BS", "TG", "SO", "SH"}  BY <1>1
<1>2. CASE canton = "GE"  BY <1>2
<1>3. CASE canton = "LU"  BY <1>3
<1>4. CASE canton = "AG"  BY <1>4
<1>5. CASE canton = "SG"  BY <1>5
<1>6. CASE canton = "TI"  BY <1>6
<1>7. CASE canton = "VS"  BY <1>7
<1>8. CASE canton = "GR"  BY <1>8
<1>9. CASE canton = "FR"  BY <1>9
<1>10. CASE canton = "NE"  BY <1>10
<1>11. CASE canton = "JU"  BY <1>11
<1>12. CASE canton \notin {"ZH", "BS", "TG", "SO", "SH", "GE", "LU", "AG", "SG", "TI", "VS",
                           "GR", "FR", "NE", "JU"}
  BY <1>12
<1> QED  BY <1>1, <1>2, <1>3, <1>4, <1>5, <1>6, <1>7, <1>8, <1>9, <1>10, <1>11, <1>12

\* A holiday of the tables that business days look at is one of the fixed days or a feast.
FeastOf(t) == \E key \in DOMAIN EasterOffsets : t = Feast(t.y, key)

LEMMA SwissHolidayIs ==
    ASSUME NEW t, NEW canton, t \in SwissHolidays(t.y, canton)
    PROVE  MonthDay(t) \in AllFixed \/ FeastOf(t)
<1>1. PICK days \in SUBSET AllFixed : days = {<<1, 1>>, <<8, 1>>, <<12, 25>>} \cup CantonFixed(canton)
  <2>1. {<<1, 1>>, <<8, 1>>, <<12, 25>>} \subseteq AllFixed  BY DEF AllFixed
  <2> QED  BY <2>1, CantonFixedIs
<1>2. t \in Fixed(t.y, days) \/ t \in Feasts(t.y, CantonFeasts(canton))
  BY <1>1 DEF SwissHolidays
<1>3. days \in SUBSET (Int \X Int)  BY <1>1, AllFixedArePairs
<1>4. t \in Fixed(t.y, days) => MonthDay(t) \in AllFixed  BY <1>1, <1>3, FixedIs
<1>5. t \in Feasts(t.y, CantonFeasts(canton)) => FeastOf(t)  BY DEF Feasts, FeastOf
<1> QED  BY <1>2, <1>4, <1>5

LEMMA HessenHolidayIs ==
    ASSUME NEW t, t \in GermanHolidays(t.y, "HE")
    PROVE  MonthDay(t) \in AllFixed \/ FeastOf(t)
<1>1. PICK days \in SUBSET AllFixed : days = GermanNational \cup StateFixed("HE")
  <2>1. GermanNational \cup StateFixed("HE") \subseteq AllFixed
    BY DEF AllFixed, GermanNational, StateFixed
  <2> QED  BY <2>1
<1>2. t \in Fixed(t.y, days) \/ t \in Feasts(t.y, FourFeasts \cup StateFeasts("HE"))
  BY <1>1 DEF GermanHolidays
<1>3. days \in SUBSET (Int \X Int)  BY <1>1, AllFixedArePairs
<1>4. t \in Fixed(t.y, days) => MonthDay(t) \in AllFixed  BY <1>1, <1>3, FixedIs
<1>5. t \in Feasts(t.y, FourFeasts \cup StateFeasts("HE")) => FeastOf(t)  BY DEF Feasts, FeastOf
<1> QED  BY <1>2, <1>4, <1>5

LEMMA BankHolidayIs ==
    ASSUME NEW t, NEW p, BankHoliday(t, p)
    PROVE  MonthDay(t) \in AllFixed \/ FeastOf(t)
<1>1. \/ t \in SwissHolidays(t.y, p.canton) \/ t \in SwissHolidays(t.y, "ZH")
      \/ t \in GermanHolidays(t.y, "HE")
  BY DEF BankHoliday
<1> QED  BY <1>1, SwissHolidayIs, HessenHolidayIs

\* A weekday that is no fixed day is a business day on a Tuesday or Wednesday, and on the
\* other days outside the spring.
LEMMA OpenDay ==
    ASSUME NEW t \in Dates, NEW p, MonthDay(t) \notin AllFixed, Weekday(t) < 5,
           Weekday(t) \in {1, 2} \/ t.m \notin 3 .. 6
    PROVE  BusinessDay(t, Weekday(t), p)
<1>1. ASSUME FeastOf(t) PROVE FALSE
  <2>1. PICK key \in DOMAIN EasterOffsets : t = Feast(t.y, key)  BY <1>1 DEF FeastOf
  <2>2. t.y \in Nat \ {0}  BY DatesAre
  <2>3. t.m \in 3 .. 6  BY <2>1, <2>2, FeastFalls DEF FeastOn
  <2>4. Weekday(t) = (6 + EasterOffsets[key]) % 7  BY <2>1, <2>2, FeastWeekday
  <2>5. Weekday(t) \notin {1, 2}
    <3>1. (6 + EasterOffsets[key]) % 7 \notin {1, 2}  BY OffsetsAre
    <3> QED  BY <2>4, <3>1
  <2> QED  BY <2>3, <2>5
<1> QED  BY <1>1, BankHolidayIs DEF BusinessDay

-----------------------------------------------------------------------------
(* A week holds a business day *)

\* The day a few days later, within the month or in the next.
DayPlus(y, m, d, k) ==
    IF d + k <= DaysIn(y, m) THEN Date(y, m, d + k)
    ELSE IF m < 12 THEN Date(y, m + 1, d + k - DaysIn(y, m))
    ELSE Date(y + 1, 1, d + k - DaysIn(y, m))

LEMMA DayPlusIs ==
    ASSUME NEW y \in Nat \ {0}, NEW m \in 1 .. 12, NEW d \in 1 .. DaysIn(y, m), NEW k \in 0 .. 7
    PROVE  Ahead(Date(y, m, d), k) = DayPlus(y, m, d, k)
<1>1. PICK n \in 28 .. 31 : n = DaysIn(y, m)  BY MonthStartIs
<1>2. PICK s \in Nat, l \in 0 .. 1 : s = YearStart(y) /\ l = LeapDay(y)  BY YearStartIs
<1>3. PICK p \in 0 .. 335 : p = MonthStart(y, m)  BY MonthStartIs
<1>4. d \in 1 .. n /\ d \in Int  BY <1>1
<1>5. PICK t \in Dates : t = Date(y, m, d) /\ Ordinal(t) = s + p + d
  <2>1. Date(y, m, d) \in Dates  BY DateIsDate
  <2>2. Ordinal(Date(y, m, d)) = YearStart(y) + MonthStart(y, m) + d  BY <1>4, OrdinalOf
  <2> QED  BY <2>1, <2>2, <1>2, <1>3
<1>6. ASSUME NEW u \in Dates, u = DayPlus(y, m, d, k), Ordinal(u) = s + p + d + k
      PROVE  Ahead(Date(y, m, d), k) = DayPlus(y, m, d, k)
  <2>1. Ordinal(u) = Ordinal(t) + k /\ k \in Nat  BY <1>5, <1>6
  <2> QED  BY <1>5, <1>6, <2>1, AheadBy
<1>7. CASE d + k <= n
  <2>1. DayPlus(y, m, d, k) = Date(y, m, d + k)  BY <1>1, <1>7 DEF DayPlus
  <2>2. d + k \in 1 .. DaysIn(y, m) /\ d + k \in Int  BY <1>1, <1>4, <1>7
  <2>3. Date(y, m, d + k) \in Dates  BY <2>2, DateIsDate
  <2>4. Ordinal(Date(y, m, d + k)) = YearStart(y) + MonthStart(y, m) + (d + k)
    BY <2>2, OrdinalOf
  <2>5. s + p + (d + k) = s + p + d + k  BY <1>2, <1>3, <1>4
  <2> QED  BY <1>2, <1>3, <1>6, <2>1, <2>3, <2>4, <2>5
<1>8. CASE d + k > n /\ m < 12
  <2>1. DayPlus(y, m, d, k) = Date(y, m + 1, d + k - n)  BY <1>1, <1>4, <1>8 DEF DayPlus
  <2>2. m \in 1 .. 11 /\ m + 1 \in 1 .. 12  BY <1>8
  <2>3. d + k - n \in 1 .. DaysIn(y, m + 1) /\ d + k - n \in Int
    <3>1. DaysIn(y, m + 1) \in 28 .. 31  BY <2>2, MonthStartIs
    <3>2. d + k - n \in 1 .. 7  BY <1>1, <1>4, <1>8
    <3> QED  BY <3>1, <3>2
  <2>4. Date(y, m + 1, d + k - n) \in Dates  BY <2>2, <2>3, DateIsDate
  <2>5. Ordinal(Date(y, m + 1, d + k - n)) = YearStart(y) + MonthStart(y, m + 1) + (d + k - n)
    BY <2>2, <2>3, OrdinalOf
  <2>6. MonthStart(y, m + 1) = p + n  BY <1>1, <1>3, <2>2, NextMonth
  <2>7. s + (p + n) + (d + k - n) = s + p + d + k  BY <1>1, <1>2, <1>3, <1>4
  <2> QED  BY <1>2, <1>6, <2>1, <2>4, <2>5, <2>6, <2>7
<1>9. CASE d + k > n /\ m = 12
  <2>1. DayPlus(y, m, d, k) = Date(y + 1, 1, d + k - n)  BY <1>1, <1>4, <1>9 DEF DayPlus
  <2>2. y + 1 \in Nat \ {0} /\ 1 \in 1 .. 12  OBVIOUS
  <2>3. d + k - n \in 1 .. DaysIn(y + 1, 1) /\ d + k - n \in Int
    <3>1. DaysIn(y + 1, 1) = 31  BY DEF DaysIn
    <3>2. d + k - n \in 1 .. 7  BY <1>1, <1>4, <1>9
    <3> QED  BY <3>1, <3>2
  <2>4. Date(y + 1, 1, d + k - n) \in Dates  BY <2>2, <2>3, DateIsDate
  <2>5. Ordinal(Date(y + 1, 1, d + k - n)) = YearStart(y + 1) + MonthStart(y + 1, 1) + (d + k - n)
    BY <2>2, <2>3, OrdinalOf
  <2>6. MonthStart(y + 1, 1) = 0  BY DEF MonthStart
  <2>7. YearStart(y + 1) = s + 365 + l  BY <1>2, YearStartStep
  <2>8. p + n = 365 + l
    <3>1. MonthStart(y, 12) + DaysIn(y, 12) = 365 + LeapDay(y)
      <4>1. 12 \in 1 .. 12  OBVIOUS
      <4> QED  BY <4>1, MonthsInOrder
    <3> QED  BY <3>1, <1>1, <1>2, <1>3, <1>9
  <2>9. (s + 365 + l) + 0 + (d + k - n) = s + p + d + k  BY <1>1, <1>2, <1>3, <1>4, <2>8
  <2> QED  BY <1>2, <1>6, <2>1, <2>4, <2>5, <2>6, <2>7, <2>9
<1> QED  BY <1>1, <1>4, <1>7, <1>8, <1>9

LEMMA AheadTwice ==
    ASSUME NEW t \in Dates, NEW i \in Nat, NEW j \in Nat
    PROVE  Ahead(Ahead(t, i), j) = Ahead(t, i + j)
<1>1. PICK u \in Dates, n \in Int : u = Ahead(t, i) /\ n = Ordinal(t) /\ Ordinal(u) = n + i
  <2>1. Ordinal(t) \in Int  BY OrdinalType
  <2> QED  BY <2>1, AheadIs
<1>2. i + j \in Nat  OBVIOUS
<1>3. PICK v \in Dates : v = Ahead(t, i + j) /\ Ordinal(v) = n + (i + j)  BY <1>1, <1>2, AheadIs
<1>4. Ordinal(v) = Ordinal(u) + j  BY <1>1, <1>3
<1> QED  BY <1>1, <1>3, <1>4, AheadBy

\* Neither a fixed day nor in the months of the feasts.
Free(t) == MonthDay(t) \notin AllFixed /\ t.m \notin 3 .. 6

Doubles == {<<1, 1>>, <<12, 25>>, <<12, 31>>}

\* The fixed days whose morrow is one.
LEMMA TwoFixed ==
    ASSUME NEW t \in Dates, MonthDay(t) \in AllFixed, MonthDay(Ahead(t, 1)) \in AllFixed
    PROVE  MonthDay(t) \in Doubles
<1>1. PICK y \in Nat \ {0}, m \in 1 .. 12, d \in 1 .. 31 :
          t = Date(y, m, d) /\ d \in 1 .. DaysIn(y, m)
  BY DatesAre DEF Dates
<1>2. Ahead(t, 1) = DayPlus(y, m, d, 1)
  <2>1. 1 \in 0 .. 7  OBVIOUS
  <2> QED  BY <1>1, <2>1, DayPlusIs
<1>3. MonthDay(t) = <<m, d>> /\ <<m, d>> \in AllFixed  BY <1>1 DEF MonthDay, Date
<1>4. CASE <<m, d>> = <<12, 31>>  BY <1>3, <1>4 DEF Doubles
<1>5. CASE <<m, d>> # <<12, 31>>
  <2>1. m # 2 /\ d + 1 <= DaysIn(y, m)  BY <1>1, <1>3, <1>5 DEF AllFixed, DaysIn
  <2>2. MonthDay(Ahead(t, 1)) = <<m, d + 1>>  BY <1>2, <2>1 DEF DayPlus, MonthDay, Date
  <2>3. <<m, d + 1>> \in AllFixed  BY <2>2
  <2>4. <<m, d>> \in Doubles  BY <1>1, <1>3, <2>3 DEF AllFixed, Doubles
  <2> QED  BY <1>3, <2>4
<1> QED  BY <1>4, <1>5

\* The fixed days with another one six days later.
LEMMA SixApart ==
    ASSUME NEW t \in Dates, MonthDay(t) \in AllFixed, MonthDay(Ahead(t, 6)) \in AllFixed
    PROVE  MonthDay(t) \in {<<12, 25>>, <<12, 26>>, <<12, 31>>}
<1>1. PICK y \in Nat \ {0}, m \in 1 .. 12, d \in 1 .. 31 :
          t = Date(y, m, d) /\ d \in 1 .. DaysIn(y, m)
  BY DatesAre DEF Dates
<1>2. Ahead(t, 6) = DayPlus(y, m, d, 6)
  <2>1. 6 \in 0 .. 7  OBVIOUS
  <2> QED  BY <1>1, <2>1, DayPlusIs
<1>3. MonthDay(t) = <<m, d>> /\ <<m, d>> \in AllFixed  BY <1>1 DEF MonthDay, Date
<1>4. CASE m = 12
  <2>1. <<m, d>> \in {<<12, 8>>, <<12, 25>>, <<12, 26>>, <<12, 31>>}  BY <1>3, <1>4 DEF AllFixed
  <2>2. CASE <<m, d>> = <<12, 8>>
    <3>1. d + 6 <= DaysIn(y, m)  BY <1>4, <2>2 DEF DaysIn
    <3>2. MonthDay(Ahead(t, 6)) = <<12, 14>>  BY <1>2, <2>2, <3>1 DEF DayPlus, MonthDay, Date
    <3> QED  BY <3>2 DEF AllFixed
  <2> QED  BY <1>3, <2>1, <2>2
<1>5. CASE <<m, d>> = <<6, 29>>
  <2>1. DaysIn(y, 6) = 30  BY DEF DaysIn
  <2>2. m = 6 /\ d = 29  BY <1>5
  <2>3. MonthDay(Ahead(t, 6)) = <<7, 5>>  BY <1>2, <2>1, <2>2 DEF DayPlus, MonthDay, Date
  <2> QED  BY <2>3 DEF AllFixed
<1>6. CASE m # 12 /\ <<m, d>> # <<6, 29>>
  <2>1. m # 2 /\ d + 6 <= DaysIn(y, m)  BY <1>1, <1>3, <1>6 DEF AllFixed, DaysIn
  <2>2. MonthDay(Ahead(t, 6)) = <<m, d + 6>>  BY <1>2, <2>1 DEF DayPlus, MonthDay, Date
  <2>3. <<m, d + 6>> \in AllFixed  BY <2>2
  <2> QED  BY <1>1, <1>3, <1>6, <2>3 DEF AllFixed
<1> QED  BY <1>4, <1>5, <1>6

LEMMA FreeAfterDouble ==
    ASSUME NEW t \in Dates, MonthDay(t) \in Doubles
    PROVE  Free(Ahead(t, 3))
<1>1. PICK y \in Nat \ {0}, m \in 1 .. 12, d \in 1 .. 31 :
          t = Date(y, m, d) /\ d \in 1 .. DaysIn(y, m)
  BY DatesAre DEF Dates
<1>2. Ahead(t, 3) = DayPlus(y, m, d, 3)
  <2>1. 3 \in 0 .. 7  OBVIOUS
  <2> QED  BY <1>1, <2>1, DayPlusIs
<1>3. MonthDay(t) = <<m, d>> /\ <<m, d>> \in Doubles  BY <1>1 DEF MonthDay, Date
<1>4. DaysIn(y, 1) = 31 /\ DaysIn(y, 12) = 31  BY DEF DaysIn
<1>5. CASE m = 1 /\ d = 1
  <2>1. Ahead(t, 3) = Date(y, 1, 4)  BY <1>2, <1>4, <1>5 DEF DayPlus
  <2> QED  BY <2>1 DEF Free, MonthDay, AllFixed, Date
<1>6. CASE m = 12 /\ d = 25
  <2>1. Ahead(t, 3) = Date(y, 12, 28)  BY <1>2, <1>4, <1>6 DEF DayPlus
  <2> QED  BY <2>1 DEF Free, MonthDay, AllFixed, Date
<1>7. CASE m = 12 /\ d = 31
  <2>1. Ahead(t, 3) = Date(y + 1, 1, 3)  BY <1>2, <1>4, <1>7 DEF DayPlus
  <2> QED  BY <2>1 DEF Free, MonthDay, AllFixed, Date
<1> QED  BY <1>3, <1>5, <1>6, <1>7 DEF Doubles

LEMMA FreeBeforeDouble ==
    ASSUME NEW t \in Dates, MonthDay(Ahead(t, 4)) \in Doubles
    PROVE  Free(t)
<1>1. PICK y \in Nat \ {0}, m \in 1 .. 12, d \in 1 .. 31 :
          t = Date(y, m, d) /\ d \in 1 .. DaysIn(y, m)
  BY DatesAre DEF Dates
<1>2. Ahead(t, 4) = DayPlus(y, m, d, 4)
  <2>1. 4 \in 0 .. 7  OBVIOUS
  <2> QED  BY <1>1, <2>1, DayPlusIs
<1>3. PICK n \in 28 .. 31 : n = DaysIn(y, m)  BY MonthStartIs
<1>4. d \in 1 .. n  BY <1>1, <1>3
<1>5. m = 12 /\ d \in {21, 27, 28}
  <2>1. CASE d + 4 <= n
    <3>1. MonthDay(Ahead(t, 4)) = <<m, d + 4>>  BY <1>2, <1>3, <2>1 DEF DayPlus, MonthDay, Date
    <3>2. <<m, d + 4>> \in Doubles  BY <3>1
    <3> QED  BY <1>4, <3>2 DEF Doubles
  <2>2. CASE d + 4 > n /\ m < 12
    <3>1. MonthDay(Ahead(t, 4)) = <<m + 1, d + 4 - n>>
      BY <1>2, <1>3, <1>4, <2>2 DEF DayPlus, MonthDay, Date
    <3>2. <<m + 1, d + 4 - n>> \in Doubles  BY <3>1
    <3>3. m + 1 \in 2 .. 12 /\ d + 4 - n \in 1 .. 4  BY <1>1, <1>3, <1>4, <2>2
    <3> QED  BY <3>2, <3>3 DEF Doubles
  <2>3. CASE d + 4 > n /\ m = 12
    <3>1. n = 31  BY <1>3, <2>3 DEF DaysIn
    <3>2. MonthDay(Ahead(t, 4)) = <<1, d + 4 - n>>
      BY <1>2, <1>3, <1>4, <2>3 DEF DayPlus, MonthDay, Date
    <3>3. <<1, d + 4 - n>> \in Doubles  BY <3>2
    <3>4. d + 4 - n = 1  BY <1>3, <1>4, <3>3 DEF Doubles
    <3> QED  BY <1>4, <2>3, <3>1, <3>4
  <2> QED  BY <1>1, <1>3, <1>4, <2>1, <2>2, <2>3
<1>6. t.m = 12 /\ MonthDay(t) \in {<<12, 21>>, <<12, 27>>, <<12, 28>>}
  BY <1>1, <1>5 DEF MonthDay, Date
<1> QED  BY <1>6 DEF Free, AllFixed

LEMMA FreeAfterChristmas ==
    ASSUME NEW t \in Dates, MonthDay(t) \in {<<12, 25>>, <<12, 26>>, <<12, 31>>}
    PROVE  Free(Ahead(t, 2)) \/ Free(Ahead(t, 5))
<1>1. PICK y \in Nat \ {0}, m \in 1 .. 12, d \in 1 .. 31 :
          t = Date(y, m, d) /\ d \in 1 .. DaysIn(y, m)
  BY DatesAre DEF Dates
<1>2. Ahead(t, 2) = DayPlus(y, m, d, 2) /\ Ahead(t, 5) = DayPlus(y, m, d, 5)
  <2>1. 2 \in 0 .. 7 /\ 5 \in 0 .. 7  OBVIOUS
  <2> QED  BY <1>1, <2>1, DayPlusIs
<1>3. MonthDay(t) = <<m, d>>  BY <1>1 DEF MonthDay, Date
<1>4. DaysIn(y, 12) = 31  BY DEF DaysIn
<1>5. CASE m = 12 /\ d = 25
  <2>1. Ahead(t, 2) = Date(y, 12, 27)  BY <1>2, <1>4, <1>5 DEF DayPlus
  <2> QED  BY <2>1 DEF Free, MonthDay, AllFixed, Date
<1>6. CASE m = 12 /\ d = 26
  <2>1. Ahead(t, 2) = Date(y, 12, 28)  BY <1>2, <1>4, <1>6 DEF DayPlus
  <2> QED  BY <2>1 DEF Free, MonthDay, AllFixed, Date
<1>7. CASE m = 12 /\ d = 31
  <2>1. Ahead(t, 5) = Date(y + 1, 1, 5)  BY <1>2, <1>4, <1>7 DEF DayPlus
  <2> QED  BY <2>1 DEF Free, MonthDay, AllFixed, Date
<1> QED  BY <1>3, <1>5, <1>6, <1>7

Closed(t, p) == ~ BusinessDay(t, Weekday(t), p)

\* Whatever the place, no week is without a business day: one without would have its
\* Tuesday and its Wednesday on fixed days.
LEMMA WeekIsOpen ==
    ASSUME NEW t \in Dates, NEW p
    PROVE  \E k \in 1 .. 7 : ~ Closed(Ahead(t, k), p)
<1> SUFFICES ASSUME \A k \in 1 .. 7 : Closed(Ahead(t, k), p) PROVE FALSE  OBVIOUS
<1>1. PICK w \in 0 .. 6 : w = Weekday(t)
  <2>1. 0 \in Nat  OBVIOUS
  <2> QED  BY <2>1, WeekdayAhead
<1>2. ASSUME NEW k \in 1 .. 7, (w + k) % 7 \in {1, 2} PROVE MonthDay(Ahead(t, k)) \in AllFixed
  <2>1. k \in Nat  OBVIOUS
  <2>2. Ahead(t, k) \in Dates /\ Weekday(Ahead(t, k)) = (w + k) % 7
    BY <1>1, <2>1, AheadIs, WeekdayAhead
  <2>3. Weekday(Ahead(t, k)) \in {1, 2} /\ Weekday(Ahead(t, k)) < 5  BY <1>2, <2>2
  <2> QED  BY <2>2, <2>3, OpenDay DEF Closed
<1>3. ASSUME NEW k \in 1 .. 7, (w + k) % 7 \in {0, 4} PROVE ~ Free(Ahead(t, k))
  <2>1. k \in Nat  OBVIOUS
  <2>2. Ahead(t, k) \in Dates /\ Weekday(Ahead(t, k)) = (w + k) % 7
    BY <1>1, <2>1, AheadIs, WeekdayAhead
  <2>3. Weekday(Ahead(t, k)) < 5  BY <1>3, <2>2
  <2> QED  BY <2>2, <2>3, OpenDay DEF Closed, Free
<1>4. CASE w = 1
  <2>1. 1 \in Nat /\ 2 \in Nat /\ 5 \in Nat /\ 6 \in Nat  OBVIOUS
  <2>2. PICK u \in Dates : u = Ahead(t, 1)  BY <2>1, AheadIs
  <2>3. Ahead(u, 6) = Ahead(t, 7)
    <3>1. 1 + 6 = 7  OBVIOUS
    <3> QED  BY <2>1, <2>2, <3>1, AheadTwice
  <2>4. Ahead(u, 2) = Ahead(t, 3)
    <3>1. 1 + 2 = 3  OBVIOUS
    <3> QED  BY <2>1, <2>2, <3>1, AheadTwice
  <2>5. Ahead(u, 5) = Ahead(t, 6)
    <3>1. 1 + 5 = 6  OBVIOUS
    <3> QED  BY <2>1, <2>2, <3>1, AheadTwice
  <2>6. MonthDay(u) \in AllFixed /\ MonthDay(Ahead(u, 6)) \in AllFixed
    <3>1. 1 \in 1 .. 7 /\ 7 \in 1 .. 7 /\ (w + 1) % 7 = 2 /\ (w + 7) % 7 = 1  BY <1>4
    <3> QED  BY <1>2, <2>2, <2>3, <3>1
  <2>7. ~ Free(Ahead(u, 2)) /\ ~ Free(Ahead(u, 5))
    <3>1. 3 \in 1 .. 7 /\ 6 \in 1 .. 7 /\ (w + 3) % 7 = 4 /\ (w + 6) % 7 = 0  BY <1>4
    <3> QED  BY <1>3, <2>4, <2>5, <3>1
  <2> QED  BY <2>6, <2>7, SixApart, FreeAfterChristmas
<1>5. CASE w # 1
  <2>1. PICK k \in 1 .. 6 : (w + k) % 7 = 1 /\ (w + (k + 1)) % 7 = 2
    <3>1. CASE w = 0
      <4>1. (w + 1) % 7 = 1 /\ (w + (1 + 1)) % 7 = 2 /\ 1 \in 1 .. 6  BY <3>1
      <4> QED  BY <4>1
    <3>2. CASE w \in 2 .. 6
      <4>1. (w + (8 - w)) % 7 = 1 /\ (w + ((8 - w) + 1)) % 7 = 2 /\ 8 - w \in 1 .. 6  BY <3>2
      <4> QED  BY <4>1
    <3> QED  BY <1>1, <1>5, <3>1, <3>2
  <2>2. k \in Nat /\ 1 \in Nat /\ 3 \in Nat /\ 4 \in Nat /\ k \in 1 .. 7 /\ k + 1 \in 1 .. 7  OBVIOUS
  <2>3. PICK u \in Dates : u = Ahead(t, k)  BY <2>2, AheadIs
  <2>4. Ahead(u, 1) = Ahead(t, k + 1)  BY <2>2, <2>3, AheadTwice
  <2>5. MonthDay(u) \in Doubles
    <3>1. MonthDay(u) \in AllFixed  BY <1>2, <2>1, <2>2, <2>3
    <3>2. MonthDay(Ahead(u, 1)) \in AllFixed  BY <1>2, <2>1, <2>2, <2>4
    <3> QED  BY <3>1, <3>2, TwoFixed
  <2>6. CASE k <= 4
    <3>1. k + 3 \in 1 .. 7 /\ (w + (k + 3)) % 7 = 4  BY <1>1, <2>1, <2>6
    <3>2. Ahead(u, 3) = Ahead(t, k + 3)  BY <2>2, <2>3, AheadTwice
    <3> QED  BY <1>3, <2>5, <3>1, <3>2, FreeAfterDouble
  <2>7. CASE k > 4
    <3>1. PICK j \in 1 .. 7 : j = k - 4 /\ j + 4 = k /\ (w + j) % 7 = 4 /\ j \in Nat
      <4>1. k - 4 \in 1 .. 7 /\ (k - 4) + 4 = k /\ k - 4 \in Nat  BY <2>7
      <4>2. (w + (k - 4)) % 7 = 4  BY <1>1, <2>1, <2>7
      <4> QED  BY <4>1, <4>2
    <3>2. PICK v \in Dates : v = Ahead(t, j)  BY <3>1, AheadIs
    <3>3. Ahead(v, 4) = u  BY <2>2, <2>3, <3>1, <3>2, AheadTwice
    <3> QED  BY <1>3, <2>5, <3>1, <3>2, <3>3, FreeBeforeDouble
  <2> QED  BY <2>1, <2>6, <2>7
<1> QED  BY <1>4, <1>5

-----------------------------------------------------------------------------
(* The holiday feature *)

LEMMA SixIsCovered ==
    ASSUME NEW t \in Dates, t \in SixHolidays(t.y)
    PROVE  HolidayFeature(t)
<1>1. CantonFeasts("ZH") = FourFeasts /\ CantonFixed("ZH") = {<<1, 2>>, <<5, 1>>, <<12, 26>>}
  BY DEF CantonFeasts, CantonFixed
<1>2. CASE t \in Fixed(t.y, {<<1, 1>>, <<8, 1>>, <<12, 25>>, <<12, 26>>})
  <2>1. {<<1, 1>>, <<8, 1>>, <<12, 25>>, <<12, 26>>} \in SUBSET (Int \X Int)  OBVIOUS
  <2>2. MonthDay(t) \in {<<1, 1>>, <<8, 1>>, <<12, 25>>, <<12, 26>>}  BY <1>2, <2>1, FixedIs
  <2>3. MonthDay(t) \in {<<1, 1>>, <<8, 1>>, <<12, 25>>} \cup CantonFixed("ZH")  BY <1>1, <2>2
  <2>4. t \in SwissHolidays(t.y, "ZH")  BY <2>3, IsFixed DEF SwissHolidays
  <2> QED  BY <2>4 DEF HolidayFeature
<1>3. CASE t \in Feasts(t.y, {"good_friday", "easter_monday"})
  <2>1. t \in Feasts(t.y, CantonFeasts("ZH"))  BY <1>1, <1>3 DEF Feasts, FourFeasts
  <2>2. t \in SwissHolidays(t.y, "ZH")  BY <2>1 DEF SwissHolidays
  <2> QED  BY <2>2 DEF HolidayFeature
<1> QED  BY <1>2, <1>3 DEF SixHolidays

LEMMA OneMore ==
    ASSUME NEW S, IsFiniteSet(S), NEW n \in Nat, Cardinality(S) <= n, NEW x
    PROVE  IsFiniteSet(S \cup {x}) /\ Cardinality(S \cup {x}) <= n + 1
<1>1. Cardinality(S) \in Nat  BY FS_CardinalityType
<1> QED  BY <1>1, FS_AddElement

LEMMA EightAtMost ==
    ASSUME NEW a, NEW b, NEW c, NEW d, NEW e, NEW f, NEW g, NEW h,
           NEW S, S \subseteq {a, b, c, d, e, f, g, h}
    PROVE  Cardinality(S) \in Nat /\ Cardinality(S) <= 8
<1>1. IsFiniteSet({}) /\ Cardinality({}) <= 0  BY FS_EmptySet
<1>2. IsFiniteSet({a}) /\ Cardinality({a}) <= 1
  <2>1. IsFiniteSet({} \cup {a}) /\ Cardinality({} \cup {a}) <= 0 + 1  BY <1>1, OneMore
  <2> QED  BY <2>1
<1>3. IsFiniteSet({a, b}) /\ Cardinality({a, b}) <= 2
  <2>1. IsFiniteSet({a} \cup {b}) /\ Cardinality({a} \cup {b}) <= 1 + 1  BY <1>2, OneMore
  <2>2. {a} \cup {b} = {a, b}  OBVIOUS
  <2> QED  BY <2>1, <2>2
<1>4. IsFiniteSet({a, b, c}) /\ Cardinality({a, b, c}) <= 3
  <2>1. IsFiniteSet({a, b} \cup {c}) /\ Cardinality({a, b} \cup {c}) <= 2 + 1  BY <1>3, OneMore
  <2>2. {a, b} \cup {c} = {a, b, c}  OBVIOUS
  <2> QED  BY <2>1, <2>2
<1>5. IsFiniteSet({a, b, c, d}) /\ Cardinality({a, b, c, d}) <= 4
  <2>1. IsFiniteSet({a, b, c} \cup {d}) /\ Cardinality({a, b, c} \cup {d}) <= 3 + 1
    BY <1>4, OneMore
  <2>2. {a, b, c} \cup {d} = {a, b, c, d}  OBVIOUS
  <2> QED  BY <2>1, <2>2
<1>6. IsFiniteSet({a, b, c, d, e}) /\ Cardinality({a, b, c, d, e}) <= 5
  <2>1. IsFiniteSet({a, b, c, d} \cup {e}) /\ Cardinality({a, b, c, d} \cup {e}) <= 4 + 1
    BY <1>5, OneMore
  <2>2. {a, b, c, d} \cup {e} = {a, b, c, d, e}  OBVIOUS
  <2> QED  BY <2>1, <2>2
<1>7. IsFiniteSet({a, b, c, d, e, f}) /\ Cardinality({a, b, c, d, e, f}) <= 6
  <2>1. IsFiniteSet({a, b, c, d, e} \cup {f}) /\ Cardinality({a, b, c, d, e} \cup {f}) <= 5 + 1
    BY <1>6, OneMore
  <2>2. {a, b, c, d, e} \cup {f} = {a, b, c, d, e, f}  OBVIOUS
  <2> QED  BY <2>1, <2>2
<1>8. IsFiniteSet({a, b, c, d, e, f, g}) /\ Cardinality({a, b, c, d, e, f, g}) <= 7
  <2>1. /\ IsFiniteSet({a, b, c, d, e, f} \cup {g})
        /\ Cardinality({a, b, c, d, e, f} \cup {g}) <= 6 + 1
    BY <1>7, OneMore
  <2>2. {a, b, c, d, e, f} \cup {g} = {a, b, c, d, e, f, g}  OBVIOUS
  <2> QED  BY <2>1, <2>2
<1>9. IsFiniteSet({a, b, c, d, e, f, g, h}) /\ Cardinality({a, b, c, d, e, f, g, h}) <= 8
  <2>1. /\ IsFiniteSet({a, b, c, d, e, f, g} \cup {h})
        /\ Cardinality({a, b, c, d, e, f, g} \cup {h}) <= 7 + 1
    BY <1>8, OneMore
  <2>2. {a, b, c, d, e, f, g} \cup {h} = {a, b, c, d, e, f, g, h}  OBVIOUS
  <2> QED  BY <2>1, <2>2
<1>10. IsFiniteSet(S) /\ Cardinality(S) <= Cardinality({a, b, c, d, e, f, g, h})
  BY <1>9, FS_Subset
<1>11. Cardinality(S) \in Nat /\ Cardinality({a, b, c, d, e, f, g, h}) \in Nat
  BY <1>9, <1>10, FS_CardinalityType
<1> QED  BY <1>9, <1>10, <1>11

\* A day on which a state rests and that the feature does not know is one of that state's
\* own days, or Corpus Christi.
LEMMA OwnDay ==
    ASSUME NEW t \in Dates, ~ HolidayFeature(t), NEW state, t \in GermanHolidays(t.y, state)
    PROVE  \/ MonthDay(t) \in StateFixed(state)
           \/ t = Feast(t.y, "corpus_christi") /\ "corpus_christi" \in StateFeasts(state)
<1>1. t \notin GermanHolidays(t.y, "HE")  BY DEF HolidayFeature
<1>2. StateFixed("HE") = {} /\ StateFeasts("HE") = {}  BY DEF StateFixed, StateFeasts
<1>3. CASE t \in Fixed(t.y, GermanNational \cup StateFixed(state))
  <2>1. GermanNational \cup StateFixed(state) \in SUBSET (Int \X Int)
    BY DEF GermanNational, StateFixed
  <2>2. MonthDay(t) \in GermanNational \cup StateFixed(state)  BY <1>3, <2>1, FixedIs
  <2>3. MonthDay(t) \notin GermanNational
    <3>1. ASSUME MonthDay(t) \in GermanNational PROVE FALSE
      <4>1. MonthDay(t) \in GermanNational \cup StateFixed("HE")  BY <3>1
      <4>2. t \in Fixed(t.y, GermanNational \cup StateFixed("HE"))  BY <4>1, IsFixed
      <4> QED  BY <1>1, <4>2 DEF GermanHolidays
    <3> QED  BY <3>1
  <2> QED  BY <2>2, <2>3
<1>4. CASE t \in Feasts(t.y, FourFeasts \cup StateFeasts(state))
  <2>1. PICK key \in (FourFeasts \cup StateFeasts(state)) \cap DOMAIN EasterOffsets :
            t = Feast(t.y, key)
    BY <1>4 DEF Feasts
  <2>2. key \notin FourFeasts
    <3>1. ASSUME key \in FourFeasts PROVE FALSE
      <4>1. t \in Feasts(t.y, FourFeasts \cup StateFeasts("HE"))  BY <2>1, <3>1 DEF Feasts
      <4> QED  BY <1>1, <4>1 DEF GermanHolidays
    <3> QED  BY <3>1
  <2>3. key \in StateFeasts(state)  BY <2>1, <2>2
  <2>4. key = "corpus_christi"  BY <2>3 DEF StateFeasts
  <2> QED  BY <2>1, <2>3, <2>4
<1> QED  BY <1>3, <1>4 DEF GermanHolidays

LEMMA CorpusChristiIsInSpring ==
    ASSUME NEW t \in Dates, t = Feast(t.y, "corpus_christi")
    PROVE  t.m \in 3 .. 6
<1>1. "corpus_christi" \in DOMAIN EasterOffsets  BY DEF EasterOffsets
<1>2. t.y \in Nat \ {0}  BY DatesAre
<1> QED  BY <1>1, <1>2, FeastFalls DEF FeastOn

LEMMA MostStatesAreCovered ==
    ASSUME NEW t \in Dates, Cardinality({s \in States : t \in GermanHolidays(t.y, s)}) > 8
    PROVE  HolidayFeature(t)
<1> DEFINE Resting == {s \in States : t \in GermanHolidays(t.y, s)}
<1> SUFFICES ASSUME ~ HolidayFeature(t) PROVE FALSE  OBVIOUS
<1>0. Cardinality(Resting) > 8  OBVIOUS
<1>1. ASSUME NEW s \in Resting
      PROVE  \/ MonthDay(t) \in StateFixed(s)
             \/ t = Feast(t.y, "corpus_christi") /\ "corpus_christi" \in StateFeasts(s)
  <2>1. s \in States /\ t \in GermanHolidays(t.y, s)  OBVIOUS
  <2> HIDE DEF Resting
  <2> QED  BY <2>1, OwnDay
<1>2. Resting \subseteq States  OBVIOUS
<1> HIDE DEF Resting
<1>3. CASE t = Feast(t.y, "corpus_christi")
  <2>1. t.m \in 3 .. 6  BY <1>3, CorpusChristiIsInSpring
  <2>2. ASSUME NEW s \in Resting PROVE s \in {"BW", "BY", "NW", "RP", "SL", "SN", "TH"}
    <3>1. MonthDay(t) \notin StateFixed(s)  BY <2>1 DEF MonthDay, StateFixed
    <3> QED  BY <1>1, <3>1 DEF StateFeasts
  <2>3. Resting \subseteq {"BW", "BY", "NW", "RP", "SL", "SN", "TH", "TH"}  BY <2>2
  <2>4. Cardinality(Resting) \in Nat /\ Cardinality(Resting) <= 8  BY <2>3, EightAtMost
  <2> QED  BY <1>0, <2>4
<1>4. CASE t # Feast(t.y, "corpus_christi")
  <2>1. ASSUME NEW s \in Resting PROVE MonthDay(t) \in StateFixed(s)  BY <1>1, <1>4
  <2>2. CASE MonthDay(t) = <<10, 31>>
    <3>1. ASSUME NEW s \in Resting PROVE s \in {"BB", "MV", "SN", "ST", "TH", "HB", "SH", "HH"}
      BY <2>1, <2>2 DEF StateFixed
    <3>2. Resting \subseteq {"BB", "MV", "SN", "ST", "TH", "HB", "SH", "HH"}  BY <3>1
    <3>3. Cardinality(Resting) \in Nat /\ Cardinality(Resting) <= 8  BY <3>2, EightAtMost
    <3> QED  BY <1>0, <3>3
  <2>3. CASE MonthDay(t) # <<10, 31>>
    <3>1. ASSUME NEW s \in Resting PROVE s \in {"BY", "BW", "NW", "RP", "SL"}
      BY <2>1, <2>3 DEF StateFixed
    <3>2. Resting \subseteq {"BY", "BW", "NW", "RP", "SL", "SL", "SL", "SL"}  BY <3>1
    <3>3. Cardinality(Resting) \in Nat /\ Cardinality(Resting) <= 8  BY <3>2, EightAtMost
    <3> QED  BY <1>0, <3>3
  <2> QED  BY <2>2, <2>3
<1> QED  BY <1>3, <1>4

-----------------------------------------------------------------------------
(* The calendar *)

\* o is the last business day of place p before day t: no day between them is one.
Since(o, t, p, k) ==
    /\ t = Ahead(o.day, k)
    /\ \A j \in 1 .. k - 1 : Closed(Ahead(o.day, j), p)

LastOpen(o, t, p) ==
    /\ o.day \in Dates /\ o.weekday = Weekday(o.day) /\ o.weekday < 5
    /\ \E k \in 1 .. 7 : Since(o, t, p, k)

CalendarIInv ==
    /\ today \in Dates /\ today.y \in Years
    /\ weekday = Weekday(today)
    /\ \A p \in Places : open[p] # NoDay => LastOpen(open[p], today, p)

LEMMA CalendarStarts == CalendarInit => CalendarIInv
<1> SUFFICES ASSUME CalendarInit PROVE CalendarIInv  OBVIOUS
<1>1. PICK y \in Years : today = Date(y, 1, 1) /\ weekday = NewYear(y)  BY DEF CalendarInit
<1>2. y \in Nat \ {0}
  <2>1. y \in 1 .. 9999  BY <1>1, CalendarAssumption
  <2> QED  BY <2>1
<1>3. today \in Dates /\ weekday = Weekday(today)  BY <1>1, <1>2, NewYearIs
<1>4. today.y \in Years  BY <1>1 DEF Date
<1>5. \A p \in Places : open[p] = NoDay  BY DEF CalendarInit
<1> QED  BY <1>3, <1>4, <1>5 DEF CalendarIInv

\* At midnight a business day becomes the last one, and a day that is none joins the gap,
\* which the week closes.
LEMMA LastOpenStep ==
    ASSUME NEW t \in Dates, NEW p, NEW o, LastOpen(o, t, p), Closed(t, p)
    PROVE  LastOpen(o, Tomorrow(t), p)
<1>1. o.day \in Dates /\ o.weekday = Weekday(o.day) /\ o.weekday < 5  BY DEF LastOpen
<1>2. PICK k \in 1 .. 7 : Since(o, t, p, k)  BY DEF LastOpen
<1>3. t = Ahead(o.day, k) /\ \A j \in 1 .. k - 1 : Closed(Ahead(o.day, j), p)
  BY <1>2 DEF Since
<1>4. \A j \in 1 .. k : Closed(Ahead(o.day, j), p)
  <2>1. \A j \in 1 .. k : j \in 1 .. k - 1 \/ j = k  BY <1>2
  <2> QED  BY <1>3, <2>1
<1>5. k # 7
  <2>1. \E j \in 1 .. 7 : ~ Closed(Ahead(o.day, j), p)  BY <1>1, WeekIsOpen
  <2> QED  BY <1>4, <2>1
<1>6. k + 1 \in 1 .. 7 /\ k \in Nat /\ (k + 1) - 1 = k  BY <1>2, <1>5
<1>7. Tomorrow(t) = Ahead(o.day, k + 1)  BY <1>1, <1>3, <1>6, AheadStep
<1>8. Since(o, Tomorrow(t), p, k + 1)  BY <1>4, <1>6, <1>7 DEF Since
<1> QED  BY <1>1, <1>6, <1>8 DEF LastOpen

LEMMA OpenToday ==
    ASSUME NEW t \in Dates, NEW p, ~ Closed(t, p)
    PROVE  LastOpen([day |-> t, weekday |-> Weekday(t)], Tomorrow(t), p)
<1> DEFINE o == [day |-> t, weekday |-> Weekday(t)]
<1>1. o.day = t /\ o.weekday = Weekday(t)  OBVIOUS
<1>2. Weekday(t) < 5  BY DEF Closed, BusinessDay
<1>3. Tomorrow(t) = Ahead(t, 1)
  <2>1. 0 \in Nat /\ 0 + 1 = 1  OBVIOUS
  <2>2. Ahead(t, 0 + 1) = Tomorrow(Ahead(t, 0))  BY <2>1, AheadStep
  <2> QED  BY <2>1, <2>2, AheadZero
<1>4. 1 \in 1 .. 7 /\ 1 .. (1 - 1) = {}  OBVIOUS
<1> HIDE DEF o
<1>5. Since(o, Tomorrow(t), p, 1)  BY <1>1, <1>3, <1>4 DEF Since
<1>6. LastOpen(o, Tomorrow(t), p)  BY <1>1, <1>2, <1>4, <1>5 DEF LastOpen
<1> QED  BY <1>6 DEF o

LEMMA CalendarStep == CalendarIInv /\ [Midnight]_calendar => CalendarIInv'
<1> SUFFICES ASSUME CalendarIInv, [Midnight]_calendar PROVE CalendarIInv'  OBVIOUS
<1>1. CASE Midnight
  <2>1. today' = Tomorrow(today) /\ today'.y \in Years /\ today \in Dates
    BY <1>1 DEF Midnight, CalendarIInv
  <2>2. today' \in Dates  BY <2>1, TomorrowIs
  <2>3. weekday' = Weekday(today')
    <3>1. PICK n \in Int : n = Ordinal(today)  BY <2>1, OrdinalType
    <3>2. Ordinal(today') = n + 1  BY <2>1, <3>1, TomorrowIs
    <3>3. weekday = (n + 6) % 7  BY <3>1 DEF CalendarIInv, Weekday
    <3>4. weekday' = (weekday + 1) % 7  BY <1>1 DEF Midnight
    <3>5. (((n + 6) % 7) + 1) % 7 = (n + 1 + 6) % 7  BY <3>1
    <3> QED  BY <3>2, <3>3, <3>4, <3>5 DEF Weekday
  <2>4. ASSUME NEW p \in Places, open'[p] # NoDay PROVE LastOpen(open'[p], today', p)
    <3>1. open'[p] = IF BusinessDay(today, weekday, p)
                     THEN [day |-> today, weekday |-> weekday] ELSE open[p]
      BY <1>1 DEF Midnight
    <3>2. Closed(today, p) <=> ~ BusinessDay(today, weekday, p)  BY DEF CalendarIInv, Closed
    <3>3. CASE Closed(today, p)
      <4>1. open'[p] = open[p]  BY <3>1, <3>2, <3>3
      <4>2. LastOpen(open[p], today, p)  BY <2>4, <4>1 DEF CalendarIInv
      <4> QED  BY <2>1, <3>3, <4>1, <4>2, LastOpenStep
    <3>4. CASE ~ Closed(today, p)
      <4>1. open'[p] = [day |-> today, weekday |-> Weekday(today)]
        BY <3>1, <3>2, <3>4 DEF CalendarIInv
      <4> QED  BY <2>1, <3>4, <4>1, OpenToday
    <3> QED  BY <3>3, <3>4
  <2> QED  BY <2>1, <2>2, <2>3, <2>4 DEF CalendarIInv
<1>2. CASE UNCHANGED calendar  BY <1>2 DEF CalendarIInv, calendar
<1> QED  BY <1>1, <1>2

LEMMA NextIs == CalendarIInv => NextIsNext
<1> SUFFICES ASSUME CalendarIInv, NEW p \in Places, BusinessDay(today, weekday, p),
                    open[p] # NoDay
             PROVE  NextBusinessDay(open[p].day, open[p].weekday, p) = today
  BY DEF NextIsNext
<1>1. PICK o : o = open[p]  OBVIOUS
<1>2. LastOpen(o, today, p)  BY <1>1 DEF CalendarIInv
<1>3. o.day \in Dates /\ o.weekday = Weekday(o.day)  BY <1>2 DEF LastOpen
<1>4. PICK k \in 1 .. 7 : Since(o, today, p, k)  BY <1>2 DEF LastOpen
<1> DEFINE opens == {j \in 1 .. 7 : BusinessDay(Ahead(o.day, j), (o.weekday + j) % 7, p)}
<1>5. ASSUME NEW j \in 1 .. 7 PROVE j \in opens <=> ~ Closed(Ahead(o.day, j), p)
  <2>1. j \in Nat  OBVIOUS
  <2>2. (o.weekday + j) % 7 = Weekday(Ahead(o.day, j))  BY <1>3, <2>1, WeekdayAhead
  <2> QED  BY <2>2 DEF Closed
<1>6. k \in opens
  <2>1. ~ Closed(Ahead(o.day, k), p)  BY <1>4 DEF Since, Closed, CalendarIInv
  <2> HIDE DEF opens
  <2> QED  BY <1>4, <1>5, <2>1
<1>7. ASSUME NEW j \in opens PROVE k <= j
  <2>1. j \in 1 .. 7  OBVIOUS
  <2> HIDE DEF opens
  <2>2. j \notin 1 .. k - 1  BY <1>4, <1>5, <1>7, <2>1 DEF Since
  <2> QED  BY <1>4, <2>1, <2>2
<1>8. opens \subseteq 1 .. 7  OBVIOUS
<1>9. NextBusinessDay(o.day, o.weekday, p) =
          Ahead(o.day, CHOOSE i \in opens : \A j \in opens : i <= j)
  BY DEF NextBusinessDay
<1> HIDE DEF opens
<1>10. (CHOOSE i \in opens : \A j \in opens : i <= j) = k
  <2> DEFINE i == CHOOSE i \in opens : \A j \in opens : i <= j
  <2>1. i \in opens /\ \A j \in opens : i <= j  BY <1>6, <1>7
  <2> HIDE DEF i
  <2>2. i <= k /\ k <= i /\ i \in 1 .. 7  BY <1>6, <1>7, <1>8, <2>1
  <2>3. i = k  BY <1>4, <2>2
  <2> QED  BY <2>3 DEF i
<1> QED  BY <1>1, <1>4, <1>9, <1>10 DEF Since

LEMMA EasterIs == CalendarIInv => EasterIsRight
<1> SUFFICES ASSUME CalendarIInv PROVE Easter(today.y) = Clavius(today.y)  BY DEF EasterIsRight
<1>1. today.y \in Nat \ {0}  BY DatesAre DEF CalendarIInv
<1>2. PICK s \in 22 .. 56 : EasterOn(today.y, s)  BY <1>1, EasterFalls
<1> QED  BY <1>2 DEF EasterOn

LEMMA FeastsAre == CalendarIInv => FeastsFallRight
<1> SUFFICES ASSUME CalendarIInv, NEW key \in DOMAIN EasterOffsets, today = Feast(today.y, key)
             PROVE  weekday = CASE key = "good_friday" -> 4
                                [] key \in {"easter_monday", "whit_monday"} -> 0
                                [] key \in {"ascension", "corpus_christi"} -> 3
                                [] OTHER -> 6
  BY DEF FeastsFallRight
<1>1. today.y \in Nat \ {0} /\ weekday = Weekday(today)  BY DatesAre DEF CalendarIInv
<1>2. weekday = (6 + EasterOffsets[key]) % 7  BY <1>1, FeastWeekday
<1> QED  BY <1>2, OffsetsAre

LEMMA FeatureIs == CalendarIInv => FeatureCovers
BY SixIsCovered, MostStatesAreCovered DEF FeatureCovers, CalendarIInv

LEMMA CalendarTypes == CalendarIInv => CalendarTypeOK
<1> SUFFICES ASSUME CalendarIInv PROVE CalendarTypeOK  OBVIOUS
<1>1. today.m \in 1 .. 12 /\ today.d \in 1 .. DaysIn(today.y, today.m)
  BY DatesAre DEF CalendarIInv
<1>2. weekday \in 0 .. 6
  <2>1. 0 \in Nat /\ today \in Dates /\ weekday = Weekday(today)  BY DEF CalendarIInv
  <2> QED  BY <2>1, WeekdayAhead
<1>3. \A p \in Places : open[p] # NoDay => open[p].weekday < 5  BY DEF CalendarIInv, LastOpen
<1> QED  BY <1>1, <1>2, <1>3 DEF CalendarTypeOK, CalendarIInv

\* For every set of years and of places: Easter is the Sunday of the reform's rule, every
\* feast has its weekday, next_business_day names the next business day met, and the holiday
\* feature covers the exchange and most states (_easter, _easter_offsets, next_business_day,
\* AnomalyDetector._is_bank_holiday).
THEOREM CalendarIsRight == CalendarSpec => []CalendarInvariant
<1>1. CalendarIInv => CalendarInvariant
  BY CalendarTypes, EasterIs, FeastsAre, NextIs, FeatureIs DEF CalendarInvariant
<1> QED  BY CalendarStarts, CalendarStep, <1>1, PTL DEF CalendarSpec

-----------------------------------------------------------------------------
(* The IBAN: the checksum *)

LEMMA CharactersAre ==
    ASSUME NEW v \in Characters
    PROVE  v \in 0 .. 35 /\ (v \in Digits <=> v <= 9)
BY DEF Characters, Digits, Letters

LEMMA ReadType ==
    ASSUME NEW rest \in Int, NEW v \in Characters
    PROVE  Read(rest, v) \in 0 .. 96
<1>1. v \in Int  BY CharactersAre
<1>2. Base(v) * rest + v \in Int
  <2>1. 10 * rest + v \in Int /\ 100 * rest + v \in Int  BY <1>1
  <2> QED  BY <2>1 DEF Base
<1> QED  BY <1>2 DEF Read

LEMMA Congruent ==
    ASSUME NEW x \in Int, NEW y \in Int, x % 97 = y % 97
    PROVE  \E k \in Int : x - y = 97 * k
<1>1. x = 97 * (x \div 97) + (x % 97)  OBVIOUS
<1>2. y = 97 * (y \div 97) + (y % 97)  OBVIOUS
<1>3. x - y = 97 * ((x \div 97) - (y \div 97))  BY <1>1, <1>2
<1> QED  BY <1>3

\* Running is what its recursion says.
LEMMA RunningIs ==
    ASSUME NEW s \in Seq(Characters)
    PROVE  /\ Running(s)[0] = 0
           /\ \A n \in 1 .. Len(s) : Running(s)[n] = Read(Running(s)[n - 1], s[n])
           /\ \A n \in 0 .. Len(s) : Running(s)[n] \in 0 .. 96
<1>0. PICK m \in Nat : m = Len(s)  OBVIOUS
<1> DEFINE F == [n \in Nat |-> [r \in 0 .. 96 |-> IF n \in 1 .. m THEN Read(r, s[n]) ELSE 0]]
           Is(f) == f = [n \in 0 .. m |-> IF n = 0 THEN 0 ELSE Read(f[n - 1], s[n])]
<1>1. \E f : Is(f)
  <2>1. F \in [Nat -> [0 .. 96 -> 0 .. 96]]
    <3>1. ASSUME NEW n \in 1 .. m, NEW r \in 0 .. 96 PROVE Read(r, s[n]) \in 0 .. 96
      <4>1. s[n] \in Characters /\ r \in Int  BY <1>0
      <4> QED  BY <4>1, ReadType
    <3>2. ASSUME NEW n \in Nat
          PROVE  [r \in 0 .. 96 |-> IF n \in 1 .. m THEN Read(r, s[n]) ELSE 0] \in [0 .. 96 -> 0 .. 96]
      <4>1. 0 \in 0 .. 96  OBVIOUS
      <4> HIDE DEF F, Is
      <4> QED  BY <3>1, <4>1
    <3> HIDE DEF Is
    <3> QED  BY <3>2, Zenon
  <2>2. PICK f : Follows(f, 0 .. 96, 0, F, m)
    <3> HIDE DEF F
    <3>1. 0 \in 0 .. 96  OBVIOUS
    <3> QED  BY <2>1, <3>1, Recursion, Zenon
  <2>3. ASSUME NEW n \in 0 .. m PROVE f[n] = IF n = 0 THEN 0 ELSE Read(f[n - 1], s[n])
    <3> USE DEF Follows
    <3>1. CASE n = 0  BY <2>2, <3>1
    <3>2. CASE n \in 1 .. m
      <4>1. n - 1 \in 0 .. m /\ n \in Nat  BY <3>2
      <4>2. f[n - 1] \in 0 .. 96  BY <2>2, <4>1
      <4>3. F[n][f[n - 1]] = Read(f[n - 1], s[n])  BY <3>2, <4>1, <4>2
      <4>4. f[n] = F[n][f[n - 1]]  BY <3>2, <2>2
      <4> QED  BY <4>3, <4>4, <3>2
    <3> QED  BY <3>1, <3>2
  <2>4. f = [n \in 0 .. m |-> f[n]]  BY <2>2 DEF Follows
  <2>5. Is(f)  BY <2>3, <2>4
  <2> HIDE DEF Is
  <2> QED  BY <2>5
<1>2. Is(Running(s))
  <2>1. Running(s) = CHOOSE f : Is(f)  BY <1>0 DEF Running
  <2> HIDE DEF Is
  <2> QED  BY <1>1, <2>1
<1>3. /\ Running(s)[0] = 0
      /\ \A n \in 1 .. m : Running(s)[n] = Read(Running(s)[n - 1], s[n])
  BY <1>2
<1> HIDE DEF F, Is
<1> DEFINE T == {n \in 0 .. m : Running(s)[n] \in 0 .. 96}
<1>4. 0 .. m \subseteq T
  <2>1. 0 \in T  BY <1>3
  <2>2. ASSUME NEW n \in 0 .. m - 1, n \in T PROVE n + 1 \in T
    <3>1. n + 1 \in 1 .. m /\ (n + 1) - 1 = n  OBVIOUS
    <3>2. Running(s)[n + 1] = Read(Running(s)[n], s[n + 1])  BY <1>3, <3>1
    <3>3. s[n + 1] \in Characters  BY <1>0, <3>1
    <3>4. Running(s)[n] \in 0 .. 96  BY <2>2
    <3>5. Running(s)[n + 1] \in 0 .. 96
      <4>1. \A r \in 0 .. 96 : r \in Int  OBVIOUS
      <4> QED  BY <3>2, <3>3, <3>4, <4>1, ReadType
    <3> QED  BY <3>1, <3>5
  <2> HIDE DEF T
  <2> QED  BY <2>1, <2>2, UpTo
<1> QED  BY <1>0, <1>3, <1>4

\* Nothing is lost in reading on: the remainder before a character can be told from after it.
LEMMA ReadIsInjective ==
    ASSUME NEW q \in 0 .. 96, NEW r \in 0 .. 96, NEW v \in Characters, Read(q, v) = Read(r, v)
    PROVE  q = r
<1>0. v \in 0 .. 35  BY CharactersAre
<1>1. PICK k \in Int : (Base(v) * q + v) - (Base(v) * r + v) = 97 * k
  <2>1. Base(v) * q + v \in Int /\ Base(v) * r + v \in Int  BY <1>0 DEF Base
  <2> QED  BY <2>1, Congruent DEF Read
<1>2. CASE v \in Digits
  <2>1. 10 * (q - r) = 97 * k  BY <1>0, <1>1, <1>2 DEF Base
  <2> QED  BY <2>1
<1>3. CASE v \notin Digits
  <2>1. 100 * (q - r) = 97 * k  BY <1>0, <1>1, <1>3 DEF Base
  <2> QED  BY <2>1
<1> QED  BY <1>2, <1>3

LEMMA SamePrefix ==
    ASSUME NEW s \in Seq(Characters), NEW t \in Seq(Characters),
           NEW k \in Nat, k <= Len(s), k <= Len(t), \A i \in 1 .. k : s[i] = t[i]
    PROVE  Running(s)[k] = Running(t)[k]
<1> DEFINE T == {n \in 0 .. k : Running(s)[n] = Running(t)[n]}
<1>1. 0 \in T  BY RunningIs
<1>2. ASSUME NEW n \in 0 .. k - 1, n \in T PROVE n + 1 \in T
  <2>1. Running(s)[n + 1] = Read(Running(s)[n], s[n + 1])  BY RunningIs
  <2>2. Running(t)[n + 1] = Read(Running(t)[n], t[n + 1])  BY RunningIs
  <2> QED  BY <2>1, <2>2, <1>2
<1>3. 0 .. k \subseteq T
  <2> HIDE DEF T
  <2> QED  BY <1>1, <1>2, UpTo
<1> QED  BY <1>3

LEMMA SameEnd ==
    ASSUME NEW s \in Seq(Characters), NEW t \in Seq(Characters), Len(s) = Len(t),
           NEW k \in 0 .. Len(s), \A i \in k + 1 .. Len(s) : s[i] = t[i],
           Remainder(s) = Remainder(t)
    PROVE  Running(s)[k] = Running(t)[k]
<1> DEFINE m == Len(s)
           T == {n \in 0 .. m - k : Running(s)[m - n] = Running(t)[m - n]}
<1>0. m \in Nat /\ m = Len(t)  OBVIOUS
<1>1. 0 \in T  BY <1>0 DEF Remainder
<1>2. ASSUME NEW n \in 0 .. m - k - 1, n \in T PROVE n + 1 \in T
  <2>0. m - n \in 1 .. m /\ m - n \in k + 1 .. m /\ m - n - 1 \in 0 .. m  BY <1>0
  <2>1. Running(s)[m - n] = Read(Running(s)[m - n - 1], s[m - n])  BY <2>0, RunningIs
  <2>2. Running(t)[m - n] = Read(Running(t)[m - n - 1], s[m - n])  BY <2>0, <1>0, RunningIs
  <2>3. Running(s)[m - n - 1] \in 0 .. 96 /\ Running(t)[m - n - 1] \in 0 .. 96
    BY <2>0, <1>0, RunningIs
  <2>4. s[m - n] \in Characters  BY <2>0
  <2>5. Running(s)[m - n - 1] = Running(t)[m - n - 1]
    BY <2>1, <2>2, <2>3, <2>4, <1>2, ReadIsInjective
  <2>6. m - (n + 1) = m - n - 1  OBVIOUS
  <2> QED  BY <2>5, <2>6, <1>0
<1>3. 0 .. m - k \subseteq T
  <2>1. m - k \in Nat  BY <1>0
  <2> HIDE DEF T, m
  <2> QED  BY <1>1, <1>2, <2>1, UpTo
<1>4. m - k \in 0 .. m - k /\ m - (m - k) = k  BY <1>0
<1> QED  BY <1>3, <1>4

-----------------------------------------------------------------------------
(* One slip, as the checksum sees it *)

LEMMA RunningStep ==
    ASSUME NEW s \in Seq(Characters), NEW n \in 1 .. Len(s)
    PROVE  Running(s)[n] = Read(Running(s)[n - 1], s[n]) /\ Running(s)[n - 1] \in 0 .. 96
BY RunningIs

LEMMA ReplacementDiffers ==
    ASSUME NEW r \in 0 .. 96, NEW v \in Characters, NEW w \in Characters, v # w, Alike(v, w)
    PROVE  Read(r, v) # Read(r, w)
<1>1. v \in 0 .. 35 /\ w \in 0 .. 35  BY CharactersAre
<1>2. CASE v \in Digits
  <2>1. Read(r, v) = (10 * r + v) % 97 /\ Read(r, w) = (10 * r + w) % 97
    BY <1>2 DEF Read, Base, Alike
  <2> QED  BY <1>1, <2>1
<1>3. CASE v \notin Digits
  <2>1. Read(r, v) = (100 * r + v) % 97 /\ Read(r, w) = (100 * r + w) % 97
    BY <1>3 DEF Read, Base, Alike
  <2> QED  BY <1>1, <2>1
<1> QED  BY <1>2, <1>3

\* t is s with the character at p replaced by another of its kind.
Replacement(s, t, p) ==
    /\ Len(s) = Len(t) /\ p \in 1 .. Len(s)
    /\ \A i \in 1 .. Len(s) : i # p => s[i] = t[i]
    /\ s[p] # t[p] /\ Alike(s[p], t[p])

LEMMA ReplacedIsSeen ==
    ASSUME NEW s \in Seq(Characters), NEW t \in Seq(Characters), NEW p, Replacement(s, t, p)
    PROVE  Remainder(s) # Remainder(t)
<1> USE DEF Replacement
<1> SUFFICES ASSUME Remainder(s) = Remainder(t) PROVE FALSE  OBVIOUS
<1>1. Running(s)[p] = Running(t)[p]
  <2>1. p \in 0 .. Len(s) /\ \A i \in p + 1 .. Len(s) : s[i] = t[i]  OBVIOUS
  <2> QED  BY <2>1, SameEnd
<1>2. PICK r \in 0 .. 96 : Running(s)[p] = Read(r, s[p]) /\ Running(t)[p] = Read(r, t[p])
  <2>1. Running(s)[p - 1] = Running(t)[p - 1]
    <3>1. p - 1 \in Nat /\ p - 1 <= Len(s) /\ p - 1 <= Len(t) /\ \A i \in 1 .. p - 1 : s[i] = t[i]
      OBVIOUS
    <3> QED  BY <3>1, SamePrefix
  <2>2. p \in 1 .. Len(t)  OBVIOUS
  <2> QED  BY <2>1, <2>2, RunningStep
<1>3. s[p] \in Characters /\ t[p] \in Characters  OBVIOUS
<1> QED  BY <1>1, <1>2, <1>3, ReplacementDiffers

\* The difference an exchange makes: nine or two times that of the characters, not a multiple
\* of 97.
LEMMA ExchangeDiffers ==
    ASSUME NEW r \in 0 .. 96, NEW v \in Characters, NEW w \in Characters,
           v # w, Alike(v, w)
    PROVE  Read(Read(r, v), w) # Read(Read(r, w), v)
<1> SUFFICES ASSUME Read(Read(r, v), w) = Read(Read(r, w), v) PROVE FALSE  OBVIOUS
<1>1. v \in 0 .. 35 /\ w \in 0 .. 35  BY CharactersAre
<1>2. CASE v \in Digits
  <2>1. v \in 0 .. 9 /\ w \in 0 .. 9 /\ w \in Digits  BY <1>2, CharactersAre DEF Alike
  <2>2. (10 * ((10 * r + v) % 97) + w) % 97 = (10 * ((10 * r + w) % 97) + v) % 97
    BY <2>1, <1>2 DEF Read, Base
  <2> QED  BY <2>1, <2>2
<1>3. CASE v \notin Digits
  <2>1. v \in 10 .. 35 /\ w \in 10 .. 35 /\ w \notin Digits  BY <1>1, <1>3, CharactersAre DEF Alike
  <2>2. (100 * ((100 * r + v) % 97) + w) % 97 = (100 * ((100 * r + w) % 97) + v) % 97
    BY <2>1, <1>3 DEF Read, Base
  <2> QED  BY <2>1, <2>2
<1> QED  BY <1>2, <1>3

\* t is s with the characters at p and p + 1 exchanged, two different ones of a kind.
Exchange(s, t, p) ==
    /\ Len(s) = Len(t) /\ p \in 1 .. Len(s) - 1
    /\ \A i \in 1 .. Len(s) : i \notin {p, p + 1} => s[i] = t[i]
    /\ t[p] = s[p + 1] /\ t[p + 1] = s[p] /\ s[p] # s[p + 1] /\ Alike(s[p], s[p + 1])

LEMMA ExchangedIsSeen ==
    ASSUME NEW s \in Seq(Characters), NEW t \in Seq(Characters), NEW p, Exchange(s, t, p)
    PROVE  Remainder(s) # Remainder(t)
<1> USE DEF Exchange
<1> SUFFICES ASSUME Remainder(s) = Remainder(t) PROVE FALSE  OBVIOUS
<1>1. Running(s)[p + 1] = Running(t)[p + 1]
  <2>1. p + 1 \in 0 .. Len(s) /\ \A i \in (p + 1) + 1 .. Len(s) : s[i] = t[i]  OBVIOUS
  <2> QED  BY <2>1, SameEnd
<1>2. Running(s)[p - 1] = Running(t)[p - 1]
  <2>1. p - 1 \in Nat /\ p - 1 <= Len(s) /\ p - 1 <= Len(t) /\ \A i \in 1 .. p - 1 : s[i] = t[i]
    OBVIOUS
  <2> QED  BY <2>1, SamePrefix
<1>3. /\ p \in 1 .. Len(s) /\ p + 1 \in 1 .. Len(s) /\ (p + 1) - 1 = p
      /\ p \in 1 .. Len(t) /\ p + 1 \in 1 .. Len(t)
  OBVIOUS
<1>4. /\ Running(s)[p + 1] = Read(Read(Running(s)[p - 1], s[p]), s[p + 1])
      /\ Running(t)[p + 1] = Read(Read(Running(s)[p - 1], s[p + 1]), s[p])
      /\ Running(s)[p - 1] \in 0 .. 96
  BY <1>2, <1>3, RunningStep
<1>5. s[p] \in Characters /\ s[p + 1] \in Characters  BY <1>3
<1> QED  BY <1>1, <1>4, <1>5, ExchangeDiffers

\* The powers of ten modulo 97, up to the number of digits an IBAN can have.
Tens == <<1, 10, 3, 30, 9, 90, 27, 76, 81, 34, 49, 5, 50, 15, 53, 45, 62, 38,
          89, 17, 73, 51, 25, 56, 75, 71, 31, 19, 93, 57, 85, 74, 61, 28, 86, 84,
          64, 58, 95, 77, 91, 37, 79, 14, 43, 42, 32, 29, 96, 87, 94, 67, 88>>

LEMMA TensAre ==
    /\ Tens[1] = 1
    /\ \A e \in 1 .. 52 : Tens[e + 1] = (10 * Tens[e]) % 97 /\ Tens[e + 1] \in 2 .. 96
<1>1. \A e \in 1 .. 18 : Tens[e + 1] = (10 * Tens[e]) % 97 /\ Tens[e + 1] \in 2 .. 96
  BY DEF Tens
<1>2. \A e \in 19 .. 36 : Tens[e + 1] = (10 * Tens[e]) % 97 /\ Tens[e + 1] \in 2 .. 96
  BY DEF Tens
<1>3. \A e \in 37 .. 52 : Tens[e + 1] = (10 * Tens[e]) % 97 /\ Tens[e + 1] \in 2 .. 96
  BY DEF Tens
<1>4. Tens[1] = 1  BY DEF Tens
<1> HIDE DEF Tens
<1> QED  BY <1>1, <1>2, <1>3, <1>4

LEMMA TensShift ==
    ASSUME NEW d \in Int, NEW e \in 1 .. 52
    PROVE  \E k \in Int : 10 * (d * Tens[e]) = d * Tens[e + 1] + 97 * k
<1>1. Tens[e] \in Int /\ Tens[e + 1] \in Int
  <2>1. e = 1 \/ (e - 1 \in 1 .. 52 /\ (e - 1) + 1 = e)  OBVIOUS
  <2> QED  BY <2>1, TensAre
<1>2. PICK q \in Int : 10 * Tens[e] = 97 * q + Tens[e + 1]
  <2>1. 10 * Tens[e] = 97 * ((10 * Tens[e]) \div 97) + ((10 * Tens[e]) % 97)  BY <1>1
  <2>2. Tens[e + 1] = (10 * Tens[e]) % 97  BY TensAre
  <2> DEFINE q == (10 * Tens[e]) \div 97
  <2>3. q \in Int  BY <1>1
  <2>4. 10 * Tens[e] = 97 * q + Tens[e + 1]  BY <2>1, <2>2
  <2> HIDE DEF q
  <2> QED  BY <2>3, <2>4
<1>3. 10 * (d * Tens[e]) = d * (10 * Tens[e])  BY <1>1
<1>4. d * (97 * q + Tens[e + 1]) = d * Tens[e + 1] + 97 * (d * q)  BY <1>1
<1>5. d * q \in Int  OBVIOUS
<1> QED  BY <1>2, <1>3, <1>4, <1>5

DiffersBy(q, r, v, w, x) ==
    \E j \in Int : Read(q, v) - Read(r, w) = Base(v) * x + (v - w) + 97 * j

LEMMA ReadDifference ==
    ASSUME NEW q \in 0 .. 96, NEW r \in 0 .. 96, NEW v \in Characters, NEW w \in Characters,
           Alike(v, w), NEW x \in Int, x = q - r
    PROVE  DiffersBy(q, r, v, w, x)
<1> USE DEF DiffersBy
<1>1. v \in 0 .. 35 /\ w \in 0 .. 35  BY CharactersAre
<1>2. CASE v \in Digits
  <2>1. Base(v) = 10 /\ Base(w) = 10  BY <1>2 DEF Base, Alike
  <2>2. /\ Read(q, v) = 10 * q + v - 97 * ((10 * q + v) \div 97)
        /\ Read(r, w) = 10 * r + w - 97 * ((10 * r + w) \div 97)
    BY <1>1, <2>1 DEF Read
  <2>3. PICK a \in Int, b \in Int : Read(q, v) = 10 * q + v - 97 * a /\ Read(r, w) = 10 * r + w - 97 * b
    BY <1>1, <2>2
  <2> DEFINE j == b - a
  <2>4. j \in Int /\ Read(q, v) - Read(r, w) = 10 * x + (v - w) + 97 * j  BY <1>1, <2>3
  <2> HIDE DEF j
  <2> QED  BY <2>1, <2>4
<1>3. CASE v \notin Digits
  <2>1. Base(v) = 100 /\ Base(w) = 100  BY <1>3 DEF Base, Alike
  <2>2. /\ Read(q, v) = 100 * q + v - 97 * ((100 * q + v) \div 97)
        /\ Read(r, w) = 100 * r + w - 97 * ((100 * r + w) \div 97)
    BY <1>1, <2>1 DEF Read
  <2>3. PICK a \in Int, b \in Int : Read(q, v) = 100 * q + v - 97 * a /\ Read(r, w) = 100 * r + w - 97 * b
    BY <1>1, <2>2
  <2> DEFINE j == b - a
  <2>4. j \in Int /\ Read(q, v) - Read(r, w) = 100 * x + (v - w) + 97 * j  BY <1>1, <2>3
  <2> HIDE DEF j
  <2> QED  BY <2>1, <2>4
<1> QED  BY <1>2, <1>3

\* 97 is prime.
LEMMA NoMultiple ==
    ASSUME NEW d \in -9 .. 9, d # 0, NEW y \in 1 .. 95, NEW k \in Int
    PROVE  d * y # 97 * k
<1>1. CASE d \in 1 .. 5  BY <1>1
<1>2. CASE d \in 6 .. 9  BY <1>2
<1>3. CASE d \in -5 .. -1  BY <1>3
<1>4. CASE d \in -9 .. -6  BY <1>4
<1> QED  BY <1>1, <1>2, <1>3, <1>4

TensType == \A e \in 1 .. 53 : Tens[e] \in Int

LEMMA TensTyped == TensType
<1>1. \A e \in 2 .. 53 : e - 1 \in 1 .. 52 /\ (e - 1) + 1 = e  OBVIOUS
<1> QED  BY <1>1, TensAre DEF TensType

\* x is d times a power of ten, up to multiples of 97.
Carried(x, d, e) == \E k \in Int : x = d * Tens[e] + 97 * k

LEMMA CarryOne ==
    ASSUME NEW x \in Int, NEW d \in Int, NEW e \in 1 .. 52, Carried(x, d, e), NEW j \in Int
    PROVE  Carried(10 * x + 97 * j, d, e + 1)
<1>3. PICK y \in Int, z \in Int : y = d * Tens[e] /\ z = d * Tens[e + 1]
  <2>1. e \in 1 .. 53 /\ e + 1 \in 1 .. 53  OBVIOUS
  <2>2. Tens[e] \in Int /\ Tens[e + 1] \in Int  BY <2>1, TensTyped DEF TensType
  <2> QED  BY <2>2
<1>1. PICK k \in Int : x = y + 97 * k  BY <1>3 DEF Carried
<1>2. PICK a \in Int : 10 * y = z + 97 * a
  <2>1. PICK a \in Int : 10 * (d * Tens[e]) = d * Tens[e + 1] + 97 * a  BY TensShift
  <2> QED  BY <2>1, <1>3
<1>4. PICK b \in Int : b = a + 10 * k + j  OBVIOUS
<1>5. 10 * x + 97 * j = z + 97 * b
  BY <1>1, <1>2, <1>4
<1> QED  BY <1>3, <1>5 DEF Carried

CarriedOn(q, r, v, d, e) ==
    \E g \in {e + 1, e + 2} : Carried(Read(q, v) - Read(r, v), d, g)

LEMMA CarryOn ==
    ASSUME NEW q \in 0 .. 96, NEW r \in 0 .. 96, NEW v \in Characters, NEW d \in Int,
           NEW e \in 1 .. 51, Carried(q - r, d, e)
    PROVE  CarriedOn(q, r, v, d, e)
<1> USE DEF CarriedOn
<1>1. PICK x \in Int : x = q - r  OBVIOUS
<1>0. Carried(x, d, e)  BY <1>1
<1>2. PICK j \in Int : Read(q, v) - Read(r, v) = Base(v) * x + 97 * j
  <2>1. Alike(v, v) /\ v - v = 0  BY CharactersAre DEF Alike
  <2>2. PICK j \in Int : Read(q, v) - Read(r, v) = Base(v) * x + (v - v) + 97 * j
    <3>1. DiffersBy(q, r, v, v, x)  BY <1>1, <2>1, ReadDifference
    <3> QED  BY <3>1 DEF DiffersBy
  <2>3. PICK y \in Int : y = Base(v) * x  BY DEF Base
  <2>4. Read(q, v) - Read(r, v) = y + 97 * j  BY <2>1, <2>2, <2>3
  <2> QED  BY <2>3, <2>4
<1>3. CASE v \in Digits
  <2>1. e \in 1 .. 52 /\ Base(v) = 10  BY <1>3 DEF Base
  <2>2. Carried(10 * x + 97 * j, d, e + 1)  BY <1>0, <2>1, CarryOne
  <2> QED  BY <1>2, <2>1, <2>2
<1>4. CASE v \notin Digits
  <2>1. e \in 1 .. 52 /\ e + 1 \in 1 .. 52 /\ (e + 1) + 1 = e + 2 /\ Base(v) = 100  BY <1>4 DEF Base
  <2>3. PICK y \in Int : y = 10 * x  OBVIOUS
  <2>2. Carried(y, d, e + 1)
    <3>1. 0 \in Int /\ 10 * x + 97 * 0 = y  BY <2>3
    <3>2. Carried(10 * x + 97 * 0, d, e + 1)
      <4>1. e \in 1 .. 52 /\ 0 \in Int  OBVIOUS
      <4> QED  BY <1>0, <1>1, <4>1, CarryOne, Zenon
    <3> QED  BY <3>1, <3>2
  <2>4. Carried(10 * y + 97 * j, d, (e + 1) + 1)  BY <1>2, <2>1, <2>2, <2>3, CarryOne
  <2>5. 10 * y + 97 * j = 100 * x + 97 * j  BY <2>3
  <2> QED  BY <1>2, <2>1, <2>4, <2>5
<1> QED  BY <1>3, <1>4

LEMMA EndsDiffer ==
    ASSUME NEW q \in 0 .. 96, NEW r \in 0 .. 96, NEW v \in Digits, NEW w \in Digits, v # w,
           NEW e \in 1 .. 51, Carried(q - r, w - v, e)
    PROVE  Read(q, v) # Read(r, w)
<1> SUFFICES ASSUME Read(q, v) = Read(r, w) PROVE FALSE  OBVIOUS
<1>0. PICK d \in -9 .. 9 : d = w - v /\ d # 0  BY DEF Digits
<1>1. PICK x \in Int : x = q - r  OBVIOUS
<1>2. PICK j \in Int : Read(q, v) - Read(r, w) = 10 * x - d + 97 * j
  <2>1. v \in Characters /\ w \in Characters /\ Alike(v, w) /\ Base(v) = 10
    BY DEF Characters, Digits, Alike, Base
  <2>2. PICK j \in Int : Read(q, v) - Read(r, w) = Base(v) * x + (v - w) + 97 * j
    <3>1. DiffersBy(q, r, v, w, x)  BY <1>1, <2>1, ReadDifference
    <3> QED  BY <3>1 DEF DiffersBy
  <2>3. v - w = -d  BY <1>0 DEF Digits
  <2> QED  BY <2>1, <2>2, <2>3
<1>3. Carried(10 * x + 97 * j, d, e + 1)
  <2>1. e \in 1 .. 52 /\ d \in Int  OBVIOUS
  <2>2. Carried(x, d, e)  BY <1>0, <1>1
  <2> QED  BY <2>1, <2>2, CarryOne
<1>4. PICK y \in 1 .. 95 : Tens[e + 1] = y + 1
  <2>1. e \in 1 .. 52  OBVIOUS
  <2>2. PICK u \in 2 .. 96 : u = Tens[e + 1]  BY <2>1, TensAre
  <2>3. u - 1 \in 1 .. 95 /\ u = (u - 1) + 1  OBVIOUS
  <2> QED  BY <2>2, <2>3
<1>5. PICK k \in Int : 10 * x + 97 * j = d * (y + 1) + 97 * k  BY <1>3, <1>4 DEF Carried
<1>6. PICK z \in Int : z = d * y  OBVIOUS
<1>7. d * (y + 1) = z + d  BY <1>6
<1>8. Read(q, v) - Read(r, w) = 0
  <2>1. v \in Characters  BY DEF Characters
  <2>2. Read(q, v) \in 0 .. 96  BY <2>1, ReadType
  <2> QED  BY <2>2
<1>9. PICK i \in Int : i = -k  OBVIOUS
<1>10. z = 97 * i  BY <1>2, <1>5, <1>7, <1>8, <1>9
<1> QED  BY <1>0, <1>6, <1>10, NoMultiple

\* The last check digit and the first digit of the account stand at the two ends of what is
\* read: the difference between them is carried through all that lies between.
EndsExchanged(s, t, m) ==
    /\ Len(s) = m /\ Len(t) = m /\ \A i \in 2 .. m - 1 : s[i] = t[i]
    /\ t[1] = s[m] /\ t[m] = s[1] /\ s[1] # s[m] /\ s[1] \in Digits /\ s[m] \in Digits

LEMMA EndsExchangedAreSeen ==
    ASSUME NEW s \in Seq(Characters), NEW t \in Seq(Characters), NEW m \in 2 .. 27,
           EndsExchanged(s, t, m)
    PROVE  Remainder(s) # Remainder(t)
<1> USE DEF EndsExchanged
<1>0. PICK v \in Digits, w \in Digits : v = s[1] /\ w = s[m] /\ v # w  OBVIOUS
<1>1. PICK d \in Int : d = w - v  BY DEF Digits
<1> DEFINE T == {n \in 0 .. m - 2 :
                     \E e \in 1 .. 2 * n + 1 : Carried(Running(t)[n + 1] - Running(s)[n + 1], d, e)}
<1>2. 0 \in T
  <2>1. 1 \in 1 .. Len(s) /\ 1 \in 1 .. Len(t) /\ 1 - 1 = 0
    <3> HIDE DEF T
    <3> QED  OBVIOUS
  <2>2. Running(s)[1] = Read(0, v) /\ Running(t)[1] = Read(0, w)
    BY <1>0, <2>1, RunningIs
  <2>3. Read(0, v) = v /\ Read(0, w) = w  BY DEF Read, Base, Digits
  <2>4. w - v = d * 1 + 97 * 0 /\ Tens[1] = 1 /\ 0 \in Int
    <3>1. w - v = d * 1 + 97 * 0
      <4> HIDE DEF T
      <4> QED  BY <1>1
    <3> QED  BY <3>1, TensAre
  <2>5. Carried(w - v, d, 1)
    <3> HIDE DEF T
    <3> QED  BY <2>4 DEF Carried
  <2>6. 0 \in 0 .. m - 2 /\ 1 \in 1 .. 2 * 0 + 1 /\ 0 + 1 = 1  OBVIOUS
  <2> QED  BY <2>2, <2>3, <2>5, <2>6
<1>3. ASSUME NEW n \in 0 .. (m - 2) - 1, n \in T PROVE n + 1 \in T
  <2>1. PICK e \in 1 .. 2 * n + 1 : Carried(Running(t)[n + 1] - Running(s)[n + 1], d, e)
    BY <1>3
  <2>2. /\ n + 2 \in 1 .. Len(s) /\ n + 2 \in 1 .. Len(t) /\ n + 2 \in 2 .. m - 1
        /\ (n + 2) - 1 = n + 1 /\ (n + 1) + 1 = n + 2
    OBVIOUS
  <2>3. PICK u \in Characters : u = s[n + 2] /\ u = t[n + 2]  BY <2>2
  <2>4. /\ Running(t)[n + 2] = Read(Running(t)[n + 1], u) /\ Running(t)[n + 1] \in 0 .. 96
        /\ Running(s)[n + 2] = Read(Running(s)[n + 1], u) /\ Running(s)[n + 1] \in 0 .. 96
    <3>1. Running(t)[n + 2] = Read(Running(t)[n + 1], u) /\ Running(t)[n + 1] \in 0 .. 96
      BY <2>2, <2>3, RunningStep
    <3>2. Running(s)[n + 2] = Read(Running(s)[n + 1], u) /\ Running(s)[n + 1] \in 0 .. 96
      BY <2>2, <2>3, RunningStep
    <3> QED  BY <3>1, <3>2
  <2>5. e \in 1 .. 51  OBVIOUS
  <2>6. PICK g \in {e + 1, e + 2} : Carried(Running(t)[n + 2] - Running(s)[n + 2], d, g)
    <3>1. PICK q \in 0 .. 96, r \in 0 .. 96 : q = Running(t)[n + 1] /\ r = Running(s)[n + 1]
      BY <2>4
    <3>2. Carried(q - r, d, e)  BY <2>1, <3>1
    <3>3. CarriedOn(q, r, u, d, e)
      <4> HIDE DEF T
      <4> QED  BY <1>1, <2>3, <2>5, <3>1, <3>2, CarryOn
    <3> QED  BY <3>1, <3>3, <2>4 DEF CarriedOn
  <2>7. g \in 1 .. 2 * (n + 1) + 1 /\ n + 1 \in 0 .. m - 2
    <3> HIDE DEF T
    <3>1. n \in 0 .. (m - 2) - 1 /\ e \in 1 .. 2 * n + 1 /\ g \in {e + 1, e + 2}
      BY <2>1, <2>6
    <3>2. n + 1 \in 0 .. m - 2  BY <3>1
    <3>3. g \in 1 .. 2 * (n + 1) + 1  BY <3>1
    <3> QED  BY <3>2, <3>3
  <2> QED  BY <2>2, <2>6, <2>7
<1>4. PICK e \in 1 .. 51 : Carried(Running(t)[m - 1] - Running(s)[m - 1], d, e)
  <2>1. m - 2 \in Nat  OBVIOUS
  <2>2. 0 .. m - 2 \subseteq T
    <3> HIDE DEF T
    <3> QED  BY <1>2, <1>3, <2>1, UpTo
  <2>3. m - 2 \in T
    <3> HIDE DEF T
    <3> QED  BY <2>1, <2>2
  <2>4. (m - 2) + 1 = m - 1 /\ 1 .. 2 * (m - 2) + 1 \subseteq 1 .. 51  OBVIOUS
  <2> QED  BY <2>3, <2>4
<1> HIDE DEF T
<1>5. PICK q \in 0 .. 96, r \in 0 .. 96 :
          /\ Running(t)[m] = Read(q, v) /\ Running(t)[m - 1] = q
          /\ Running(s)[m] = Read(r, w) /\ Running(s)[m - 1] = r
  <2>1. m \in 1 .. Len(s) /\ m \in 1 .. Len(t)  OBVIOUS
  <2>2. Running(t)[m] = Read(Running(t)[m - 1], v) /\ Running(t)[m - 1] \in 0 .. 96
    BY <1>0, <2>1, RunningStep
  <2>3. Running(s)[m] = Read(Running(s)[m - 1], w) /\ Running(s)[m - 1] \in 0 .. 96
    BY <1>0, <2>1, RunningStep
  <2> QED  BY <2>2, <2>3
<1>6. Carried(q - r, w - v, e)  BY <1>1, <1>4, <1>5
<1>7. Read(q, v) # Read(r, w)  BY <1>0, <1>6, EndsDiffer
<1> QED  BY <1>5, <1>7 DEF Remainder

-----------------------------------------------------------------------------
(* Structure *)

LEMMA CountriesAre ==
    /\ \A cc \in DOMAIN Country :
          /\ Country[cc] \in Seq(Letters) /\ Len(Country[cc]) = 2
          /\ Country[cc][1] \in Letters /\ Country[cc][2] \in Letters
          /\ Country[cc][1] # Country[cc][2]
          /\ Length[cc] \in 18 .. 27
    /\ \A cc, dd \in DOMAIN Country : Country[cc] = Country[dd] => cc = dd
<1>1. \A cc \in DOMAIN Country : Country[cc] = <<Country[cc][1], Country[cc][2]>>
  BY DEF Country
<1>2. \A cc \in DOMAIN Country :
          /\ Country[cc][1] \in Letters /\ Country[cc][2] \in Letters
          /\ Country[cc][1] # Country[cc][2]
  BY DEF Country, Letters
<1>3. DOMAIN Country = {"CH", "DE", "AT", "LI", "FR", "NL", "GB", "LU"}  BY DEF Country
<1>4. \A cc \in DOMAIN Country : Length[cc] \in 18 .. 27  BY DEF Country, Length
<1>5. \A cc, dd \in DOMAIN Country :
          Country[cc][1] = Country[dd][1] /\ Country[cc][2] = Country[dd][2] => cc = dd
  BY DEF Country
<1> HIDE DEF Country
<1>6. ASSUME NEW cc \in DOMAIN Country
      PROVE  Country[cc] \in Seq(Letters) /\ Len(Country[cc]) = 2
  <2>1. PICK a \in Letters, b \in Letters : Country[cc] = <<a, b>>  BY <1>1, <1>2
  <2> QED  BY <2>1
<1> QED  BY <1>2, <1>4, <1>5, <1>6

LEMMA RearrangedIs ==
    ASSUME NEW s \in Seq(Characters), NEW m \in 18 .. 27, Len(s) = m
    PROVE  /\ Rearranged(s) \in Seq(Characters) /\ Len(Rearranged(s)) = m
           /\ \A i \in 1 .. m - 4 : Rearranged(s)[i] = s[i + 4]
           /\ \A i \in m - 3 .. m : Rearranged(s)[i] = s[i - (m - 4)]
<1>1. PICK a : a = SubSeq(s, 5, m)  OBVIOUS
<1>2. PICK b : b = SubSeq(s, 1, 4)  OBVIOUS
<1>3. a \in Seq(Characters) /\ Len(a) = m - 4 /\ \A i \in 1 .. m - 4 : a[i] = s[i + 4]
  BY <1>1
<1>4. b \in Seq(Characters) /\ Len(b) = 4 /\ \A i \in 1 .. 4 : b[i] = s[i]
  BY <1>2
<1>5. Rearranged(s) = a \o b  BY <1>1, <1>2 DEF Rearranged
<1>6. \A i \in m - 3 .. m : i - (m - 4) \in 1 .. 4  OBVIOUS
<1>7. /\ a \o b \in Seq(Characters)
      /\ Len(a \o b) = Len(a) + Len(b)
      /\ \A i \in 1 .. Len(a) + Len(b) : (a \o b)[i] = IF i <= Len(a) THEN a[i] ELSE b[i - Len(a)]
  BY <1>3, <1>4, ConcatProperties
<1>8. PICK c : c = a \o b  OBVIOUS
<1>9. /\ c \in Seq(Characters) /\ Len(c) = m
      /\ \A i \in 1 .. m : c[i] = IF i <= m - 4 THEN a[i] ELSE b[i - (m - 4)]
  <2>1. Len(a) + Len(b) = m  BY <1>3, <1>4
  <2>2. c \in Seq(Characters) /\ Len(c) = m  BY <1>7, <1>8, <2>1
  <2>3. ASSUME NEW i \in 1 .. m PROVE c[i] = IF i <= m - 4 THEN a[i] ELSE b[i - (m - 4)]
    <3>1. c[i] = IF i <= Len(a) THEN a[i] ELSE b[i - Len(a)]  BY <1>7, <1>8, <2>1
    <3>2. Len(a) = m - 4  BY <1>3
    <3> QED  BY <3>1, <3>2
  <2> QED  BY <2>2, <2>3
<1>10. \A i \in 1 .. m - 4 : c[i] = s[i + 4]
  <2> SUFFICES ASSUME NEW i \in 1 .. m - 4 PROVE c[i] = s[i + 4]  OBVIOUS
  <2>1. i \in 1 .. m /\ i <= m - 4  OBVIOUS
  <2>2. c[i] = a[i]  BY <1>9, <2>1
  <2> QED  BY <2>2, <1>3
<1>11. ASSUME NEW i \in m - 3 .. m PROVE c[i] = s[i - (m - 4)]
  <2>1. i \in 1 .. m /\ ~(i <= m - 4)  OBVIOUS
  <2>2. c[i] = b[i - (m - 4)]  BY <1>9, <2>1
  <2> QED  BY <2>2, <1>4, <1>6
<1> QED  BY <1>5, <1>8, <1>9, <1>10, <1>11

-----------------------------------------------------------------------------
(* The slips *)

\* Where a character of the IBAN stands in what the checksum reads.
Place(i, m) == IF i <= 4 THEN m - 4 + i ELSE i - 4

LEMMA PlaceIs ==
    ASSUME NEW s \in Seq(Characters), NEW m \in 18 .. 27, Len(s) = m, NEW i \in 1 .. m
    PROVE  Place(i, m) \in 1 .. m /\ Rearranged(s)[Place(i, m)] = s[i]
<1>1. CASE i <= 4
  <2>1. Place(i, m) = m - 4 + i /\ m - 4 + i \in m - 3 .. m /\ (m - 4 + i) - (m - 4) = i
    BY <1>1 DEF Place
  <2>2. \A k \in m - 3 .. m : Rearranged(s)[k] = s[k - (m - 4)]  BY RearrangedIs
  <2>3. m - 4 + i \in 1 .. m  BY <1>1
  <2>4. Rearranged(s)[m - 4 + i] = s[(m - 4 + i) - (m - 4)]  BY <2>1, <2>2
  <2> QED  BY <2>1, <2>3, <2>4
<1>2. CASE i > 4
  <2>1. Place(i, m) = i - 4 /\ i - 4 \in 1 .. m - 4 /\ (i - 4) + 4 = i
    BY <1>2 DEF Place
  <2>2. \A k \in 1 .. m - 4 : Rearranged(s)[k] = s[k + 4]  BY RearrangedIs
  <2>3. i - 4 \in 1 .. m  BY <1>2
  <2> QED  BY <2>1, <2>2, <2>3
<1> QED  BY <1>1, <1>2

\* Every place is that of a character.
LEMMA EveryPlace ==
    ASSUME NEW m \in 18 .. 27, NEW p \in 1 .. m
    PROVE  \E i \in 1 .. m : p = Place(i, m)
<1>1. CASE p <= m - 4
  <2>1. p + 4 \in 1 .. m /\ ~(p + 4 <= 4) /\ (p + 4) - 4 = p  BY <1>1
  <2> QED  BY <2>1 DEF Place
<1>2. CASE p > m - 4
  <2>1. p - (m - 4) \in 1 .. m /\ p - (m - 4) <= 4 /\ m - 4 + (p - (m - 4)) = p  BY <1>2
  <2> QED  BY <2>1 DEF Place
<1> QED  BY <1>1, <1>2

LEMMA ReplacedIsInvalid ==
    ASSUME NEW s \in Seq(Characters), NEW m \in 18 .. 27, Len(s) = m, ChecksumValid(s),
           NEW i \in 1 .. m, NEW v \in Characters, v # s[i], Alike(s[i], v)
    PROVE  ~ChecksumValid([s EXCEPT ![i] = v])
<1>1. PICK t : t = [s EXCEPT ![i] = v]  OBVIOUS
<1>2. t \in Seq(Characters) /\ Len(t) = m /\ t[i] = v /\ \A k \in 1 .. m : k # i => t[k] = s[k]
  BY <1>1
<1>3. PICK a \in Seq(Characters), b \in Seq(Characters), p \in 1 .. m :
          /\ a = Rearranged(s) /\ b = Rearranged(t) /\ p = Place(i, m)
          /\ Len(a) = m /\ Len(b) = m
  BY <1>2, RearrangedIs, PlaceIs
<1>4. a[p] = s[i] /\ b[p] = v  BY <1>2, <1>3, PlaceIs
<1>5. ASSUME NEW k \in 1 .. m, k # p PROVE a[k] = b[k]
  <2>1. PICK j \in 1 .. m : k = Place(j, m)  BY EveryPlace
  <2>2. j # i  BY <1>3, <1>5, <2>1
  <2>3. a[k] = s[j] /\ b[k] = t[j]  BY <1>2, <1>3, <2>1, PlaceIs
  <2> QED  BY <1>2, <2>2, <2>3
<1>6. Remainder(a) # Remainder(b)
  <2>1. Replacement(a, b, p)  BY <1>3, <1>4, <1>5 DEF Replacement
  <2> QED  BY <1>3, <2>1, ReplacedIsSeen
<1> QED  BY <1>1, <1>3, <1>6 DEF ChecksumValid

LEMMA ExchangedIsInvalid ==
    ASSUME NEW s \in Seq(Characters), NEW m \in 18 .. 27, Len(s) = m, ChecksumValid(s),
           NEW i \in 1 .. m - 1, s[i] # s[i + 1], Alike(s[i], s[i + 1]), s[4] \in Digits
    PROVE  ~ChecksumValid(Exchanged(s, i))
<1>1. PICK t : t = Exchanged(s, i)  OBVIOUS
<1>2. /\ t \in Seq(Characters) /\ Len(t) = m
      /\ t[i] = s[i + 1] /\ t[i + 1] = s[i]
      /\ \A k \in 1 .. m : k \notin {i, i + 1} => t[k] = s[k]
  <2>1. i \in 1 .. m /\ i + 1 \in 1 .. m /\ i # i + 1  OBVIOUS
  <2> QED  BY <1>1, <2>1 DEF Exchanged
<1>3. PICK a \in Seq(Characters), b \in Seq(Characters) :
          a = Rearranged(s) /\ b = Rearranged(t) /\ Len(a) = m /\ Len(b) = m
  BY <1>2, RearrangedIs
<1>4. i \in 1 .. m /\ i + 1 \in 1 .. m  OBVIOUS
<1>5. PICK p \in 1 .. m, q \in 1 .. m : p = Place(i, m) /\ q = Place(i + 1, m)
  BY <1>4, PlaceIs
<1>6. a[p] = s[i] /\ a[q] = s[i + 1] /\ b[p] = s[i + 1] /\ b[q] = s[i]
  <2>1. a[p] = s[i] /\ a[q] = s[i + 1]  BY <1>3, <1>4, <1>5, PlaceIs
  <2>2. b[p] = t[i] /\ b[q] = t[i + 1]  BY <1>2, <1>3, <1>4, <1>5, PlaceIs
  <2> QED  BY <2>1, <2>2, <1>2
<1>7. ASSUME NEW k \in 1 .. m, k \notin {p, q} PROVE a[k] = b[k]
  <2>1. PICK j \in 1 .. m : k = Place(j, m)  BY EveryPlace
  <2>2. j \notin {i, i + 1}  BY <1>5, <1>7, <2>1
  <2>3. a[k] = s[j] /\ b[k] = t[j]  BY <1>2, <1>3, <2>1, PlaceIs
  <2> QED  BY <1>2, <2>2, <2>3
<1>8. CASE i # 4
  <2>1. p \in 1 .. m - 1 /\ q = p + 1  BY <1>5, <1>8 DEF Place
  <2>2. \A k \in 1 .. Len(a) : k \notin {p, p + 1} => a[k] = b[k]  BY <1>3, <1>7, <2>1
  <2>3. a[p] # a[p + 1] /\ Alike(a[p], a[p + 1]) /\ b[p] = a[p + 1] /\ b[p + 1] = a[p]
    BY <1>6, <2>1
  <2>4. p \in 1 .. Len(a) - 1 /\ Len(a) = Len(b)  BY <1>3, <2>1
  <2>5. Exchange(a, b, p)  BY <2>2, <2>3, <2>4 DEF Exchange
  <2>6. Remainder(a) # Remainder(b)  BY <1>3, <2>5, ExchangedIsSeen
  <2> QED  BY <1>1, <1>3, <2>6 DEF ChecksumValid
<1>9. CASE i = 4
  <2>1. p = m /\ q = 1  BY <1>5, <1>9 DEF Place
  <2>2. a[1] \in Digits /\ a[m] \in Digits  BY <1>6, <1>9, <2>1 DEF Alike
  <2>3. m \in 2 .. 27 /\ \A k \in 2 .. m - 1 : a[k] = b[k]  BY <1>7, <2>1
  <2>4. Remainder(a) # Remainder(b)
    <3>1. EndsExchanged(a, b, m)  BY <1>3, <1>6, <2>1, <2>2, <2>3 DEF EndsExchanged
    <3> QED  BY <1>3, <2>3, <3>1, EndsExchangedAreSeen
  <2> QED  BY <1>1, <1>3, <2>4 DEF ChecksumValid
<1> QED  BY <1>8, <1>9

LEMMA StructureIs ==
    ASSUME NEW t \in Seq(Characters), Len(t) >= 2
    PROVE  StructureValid(t) <=>
               \E cc \in DOMAIN Country :
                   t[1] = Country[cc][1] /\ t[2] = Country[cc][2] /\ Len(t) = Length[cc]
<1>1. PICK h : h = SubSeq(t, 1, 2)  OBVIOUS
<1>2. h \in Seq(Characters) /\ Len(h) = 2 /\ h[1] = t[1] /\ h[2] = t[2]  BY <1>1
<1>3. ASSUME NEW cc \in DOMAIN Country
      PROVE  h = Country[cc] <=> t[1] = Country[cc][1] /\ t[2] = Country[cc][2]
  <2>1. PICK c \in Seq(Letters) : c = Country[cc] /\ Len(c) = 2  BY CountriesAre
  <2>2. h = c <=> h[1] = c[1] /\ h[2] = c[2]
    <3>1. h = <<h[1], h[2]>> /\ c = <<c[1], c[2]>>  BY <1>2, <2>1
    <3> QED  BY <3>1
  <2> QED  BY <1>2, <2>1, <2>2
<1> QED  BY <1>1, <1>3 DEF StructureValid

Appended(c, a, b, x, y) ==
    /\ c \in Seq(Characters) /\ Len(c) = x + y
    /\ \A k \in 1 .. x + y : c[k] = IF k <= x THEN a[k] ELSE b[k - x]

LEMMA Single ==
    ASSUME NEW v \in Characters
    PROVE  <<v>> \in Seq(Characters) /\ Len(<<v>>) = 1 /\ <<v>>[1] = v
OBVIOUS

LEMMA Joined ==
    ASSUME NEW a \in Seq(Characters), NEW b \in Seq(Characters), NEW x \in Nat, NEW y \in Nat,
           Len(a) = x, Len(b) = y
    PROVE  Appended(a \o b, a, b, x, y)
BY ConcatProperties DEF Appended

LEMMA NoDigitIsALetter == Digits \cap Letters = {}
BY DEF Digits, Letters

\* The length of the country would have to change without its letters.
LEMMA RemovedIsInvalid ==
    ASSUME NEW s \in Seq(Characters), NEW cc \in DOMAIN Country, Len(s) = Length[cc],
           s[1] = Country[cc][1], s[2] = Country[cc][2], s[3] \in Digits,
           NEW i \in 1 .. Len(s)
    PROVE  ~StructureValid(RemoveAt(s, i))
<1>1. PICK m \in 18 .. 27 : m = Len(s)  BY CountriesAre
<1>2. PICK t : t = RemoveAt(s, i)  OBVIOUS
<1>3. PICK a \in Seq(Characters), b \in Seq(Characters) :
          /\ a = SubSeq(s, 1, i - 1) /\ b = SubSeq(s, i + 1, m)
          /\ Len(a) = i - 1 /\ Len(b) = m - i
          /\ \A k \in 1 .. i - 1 : a[k] = s[k]
          /\ \A k \in 1 .. m - i : b[k] = s[i + k]
  <2>1. /\ SubSeq(s, 1, i - 1) \in Seq(Characters) /\ Len(SubSeq(s, 1, i - 1)) = i - 1
        /\ \A k \in 1 .. i - 1 : SubSeq(s, 1, i - 1)[k] = s[k]
    BY <1>1
  <2>2. /\ SubSeq(s, i + 1, m) \in Seq(Characters) /\ Len(SubSeq(s, i + 1, m)) = m - i
        /\ \A k \in 1 .. m - i : SubSeq(s, i + 1, m)[k] = s[i + k]
    BY <1>1
  <2> QED  BY <2>1, <2>2
<1>4. t = a \o b  BY <1>1, <1>2, <1>3 DEF RemoveAt
<1>5. /\ t \in Seq(Characters) /\ Len(t) = m - 1
      /\ \A k \in 1 .. m - 1 : t[k] = IF k <= i - 1 THEN a[k] ELSE b[k - (i - 1)]
  <2>0. PICK x \in Nat, y \in Nat : x = i - 1 /\ y = m - i
    <3>1. i - 1 \in Nat /\ m - i \in Nat  BY <1>1
    <3> QED  BY <3>1
  <2>1. x = i - 1 /\ y = m - i /\ x + y = m - 1  BY <1>1, <2>0
  <2>2. Len(a) = x /\ Len(b) = y  BY <1>3, <2>1
  <2>3. Appended(t, a, b, x, y)  BY <1>3, <1>4, <2>0, <2>2, Joined
  <2> QED  BY <2>1, <2>3 DEF Appended
<1>6. SUFFICES ASSUME NEW dd \in DOMAIN Country,
                      t[1] = Country[dd][1], t[2] = Country[dd][2], m - 1 = Length[dd]
               PROVE  FALSE
  <2>1. Len(t) >= 2  BY <1>5
  <2> QED  BY <1>2, <1>5, <2>1, StructureIs
<1>7. CASE i <= 2
  <2>1. t[2] = b[2 - (i - 1)]  BY <1>5, <1>7
  <2>2. i \in {1, 2}  BY <1>1, <1>7
  <2>3. t[2] = s[3]
    <3>1. CASE i = 1
      <4>1. 2 - (i - 1) = 2 /\ i + 2 = 3 /\ 2 \in 1 .. m - i  BY <1>1, <3>1
      <4> QED  BY <1>3, <2>1, <4>1
    <3>2. CASE i = 2
      <4>1. 2 - (i - 1) = 1 /\ i + 1 = 3 /\ 1 \in 1 .. m - i  BY <1>1, <3>2
      <4> QED  BY <1>3, <2>1, <4>1
    <3> QED  BY <2>2, <3>1, <3>2
  <2>4. s[3] \in Letters  BY <1>6, <2>3, CountriesAre
  <2> QED  BY <2>4, NoDigitIsALetter
<1>8. CASE i >= 3
  <2>1. t[1] = a[1] /\ t[2] = a[2]  BY <1>5, <1>8
  <2>2. t[1] = s[1] /\ t[2] = s[2]  BY <1>3, <1>8, <2>1
  <2>3. Country[cc] = Country[dd]
    <3>1. PICK c \in Seq(Letters), d \in Seq(Letters) :
              c = Country[cc] /\ d = Country[dd] /\ Len(c) = 2 /\ Len(d) = 2
      BY CountriesAre
    <3>2. c[1] = d[1] /\ c[2] = d[2]  BY <1>6, <2>2, <3>1
    <3>3. c = <<c[1], c[2]>> /\ d = <<d[1], d[2]>>  BY <3>1
    <3> QED  BY <3>1, <3>2, <3>3
  <2> QED  BY <1>1, <1>6, <2>3, CountriesAre
<1> QED  BY <1>1, <1>7, <1>8

LEMMA DoubledIsInvalid ==
    ASSUME NEW s \in Seq(Characters), NEW cc \in DOMAIN Country, Len(s) = Length[cc],
           s[1] = Country[cc][1], s[2] = Country[cc][2],
           NEW i \in 1 .. Len(s)
    PROVE  ~StructureValid(InsertAt(s, i, s[i]))
<1>1. PICK m \in 18 .. 27 : m = Len(s)  BY CountriesAre
<1>2. PICK t : t = InsertAt(s, i, s[i])  OBVIOUS
<1>3. PICK a \in Seq(Characters), b \in Seq(Characters), c \in Seq(Characters) :
          /\ a = SubSeq(s, 1, i - 1) /\ b = SubSeq(s, i, m) /\ c = a \o <<s[i]>>
          /\ Len(a) = i - 1 /\ Len(b) = m - i + 1 /\ Len(c) = i
          /\ \A k \in 1 .. i : c[k] = s[k]
          /\ \A k \in 1 .. m - i + 1 : b[k] = s[i + k - 1]
  <2>1. PICK a \in Seq(Characters) :
            a = SubSeq(s, 1, i - 1) /\ Len(a) = i - 1 /\ \A k \in 1 .. i - 1 : a[k] = s[k]
    <3>1. /\ SubSeq(s, 1, i - 1) \in Seq(Characters) /\ Len(SubSeq(s, 1, i - 1)) = i - 1
          /\ \A k \in 1 .. i - 1 : SubSeq(s, 1, i - 1)[k] = s[k]
      BY <1>1
    <3> QED  BY <3>1
  <2>2. PICK b \in Seq(Characters) :
            b = SubSeq(s, i, m) /\ Len(b) = m - i + 1 /\ \A k \in 1 .. m - i + 1 : b[k] = s[i + k - 1]
    <3>1. /\ SubSeq(s, i, m) \in Seq(Characters) /\ Len(SubSeq(s, i, m)) = m - i + 1
          /\ \A k \in 1 .. m - i + 1 : SubSeq(s, i, m)[k] = s[i + k - 1]
      BY <1>1
    <3> QED  BY <3>1
  <2>3. s[i] \in Characters /\ i \in Nat  BY <1>1
  <2>4. PICK c : c = a \o <<s[i]>>  OBVIOUS
  <2>5. c \in Seq(Characters) /\ Len(c) = i /\ c[i] = s[i] /\ \A k \in 1 .. i - 1 : c[k] = a[k]
    <3>1. PICK one \in Seq(Characters) : one = <<s[i]>> /\ Len(one) = 1 /\ one[1] = s[i]
      <4>1. /\ <<s[i]>> \in Seq(Characters) /\ Len(<<s[i]>>) = 1
            /\ <<s[i]>>[1] = s[i]
        BY <2>3, Single
      <4> QED  BY <4>1
    <3>2. i - 1 \in Nat /\ 1 \in Nat /\ (i - 1) + 1 = i  BY <2>3
    <3>3. Appended(c, a, one, i - 1, 1)  BY <2>1, <2>4, <3>1, <3>2, Joined
    <3>4. i \in 1 .. (i - 1) + 1 /\ ~(i <= i - 1) /\ i - (i - 1) = 1  BY <2>3
    <3>5. \A k \in 1 .. i - 1 : k \in 1 .. (i - 1) + 1 /\ k <= i - 1  BY <2>3
    <3> QED  BY <3>1, <3>2, <3>3, <3>4, <3>5 DEF Appended
  <2>6. \A k \in 1 .. i : k = i \/ k \in 1 .. i - 1  BY <2>3
  <2>7. \A k \in 1 .. i : c[k] = s[k]  BY <2>1, <2>5, <2>6
  <2> QED  BY <2>1, <2>2, <2>4, <2>5, <2>7
<1>4. t = c \o b  BY <1>1, <1>2, <1>3 DEF InsertAt
<1>5. /\ t \in Seq(Characters) /\ Len(t) = m + 1
      /\ \A k \in 1 .. m + 1 : t[k] = IF k <= i THEN c[k] ELSE b[k - i]
  <2>0. PICK x \in Nat, y \in Nat : x = i /\ y = m - i + 1
    <3>1. i \in Nat /\ m - i + 1 \in Nat  BY <1>1
    <3> QED  BY <3>1
  <2>1. x = i /\ y = m - i + 1 /\ x + y = m + 1  BY <1>1, <2>0
  <2>2. Len(c) = x /\ Len(b) = y  BY <1>3, <2>1
  <2>3. Appended(t, c, b, x, y)  BY <1>3, <1>4, <2>0, <2>2, Joined
  <2> QED  BY <2>1, <2>3 DEF Appended
<1>6. SUFFICES ASSUME NEW dd \in DOMAIN Country,
                      t[1] = Country[dd][1], t[2] = Country[dd][2], m + 1 = Length[dd]
               PROVE  FALSE
  <2>1. Len(t) >= 2  BY <1>5
  <2> QED  BY <1>2, <1>5, <2>1, StructureIs
<1>7. CASE i = 1
  <2>0. 1 \in 1 .. m + 1 /\ 2 \in 1 .. m + 1 /\ 1 <= i /\ ~(2 <= i)  BY <1>7
  <2>1. t[1] = c[1] /\ t[2] = b[2 - 1]  BY <1>5, <1>7, <2>0
  <2>2. t[1] = t[2]  BY <1>1, <1>3, <1>7, <2>1
  <2> QED  BY <1>6, <2>2, CountriesAre
<1>8. CASE i >= 2
  <2>1. t[1] = c[1] /\ t[2] = c[2]  BY <1>5, <1>8
  <2>2. t[1] = s[1] /\ t[2] = s[2]  BY <1>3, <1>8, <2>1
  <2>3. Country[cc] = Country[dd]
    <3>1. PICK e \in Seq(Letters), d \in Seq(Letters) :
              e = Country[cc] /\ d = Country[dd] /\ Len(e) = 2 /\ Len(d) = 2
      BY CountriesAre
    <3>2. e[1] = d[1] /\ e[2] = d[2]  BY <1>6, <2>2, <3>1
    <3>3. e = <<e[1], e[2]>> /\ d = <<d[1], d[2]>>  BY <3>1
    <3> QED  BY <3>1, <3>2, <3>3
  <2> QED  BY <1>1, <1>6, <2>3, CountriesAre
<1> QED  BY <1>1, <1>7, <1>8

-----------------------------------------------------------------------------
(* Issuing *)

\* How much a character counts in front of one that counts w.
InFront(v, w) == ((IF v > 9 THEN 100 ELSE 10) * w) % 97

LEMMA InFrontIs ==
    ASSUME NEW v \in Characters, NEW w \in 0 .. 96
    PROVE  InFront(v, w) = (Base(v) * w) % 97 /\ InFront(v, w) \in 0 .. 96
<1>1. v \in 0 .. 35 /\ (v > 9 <=> v \notin Digits)  BY CharactersAre
<1>2. CASE v > 9
  <2>1. InFront(v, w) = (100 * w) % 97 /\ Base(v) = 100  BY <1>1, <1>2 DEF InFront, Base
  <2> QED  BY <2>1
<1>3. CASE ~(v > 9)
  <2>1. InFront(v, w) = (10 * w) % 97 /\ Base(v) = 10  BY <1>1, <1>3 DEF InFront, Base
  <2> QED  BY <2>1
<1> QED  BY <1>2, <1>3

LEMMA WeightsAre ==
    ASSUME NEW s \in Seq(Characters), NEW m \in Nat, Len(s) = m
    PROVE  /\ Weights(s)[m] = 1
           /\ \A n \in 0 .. m - 1 : Weights(s)[n] = InFront(s[n + 1], Weights(s)[n + 1])
           /\ \A n \in 0 .. m : Weights(s)[n] \in 0 .. 96
<1> DEFINE F == [n \in Nat |-> [w \in 0 .. 96 |->
                     IF n \in 1 .. m THEN InFront(s[m - n + 1], w) ELSE 0]]
           Is(f) == f = [n \in 0 .. m |-> IF n = m THEN 1 ELSE InFront(s[n + 1], f[n + 1])]
<1>1. PICK f : Is(f) /\ \A n \in 0 .. m : f[n] \in 0 .. 96
  <2>1. F \in [Nat -> [0 .. 96 -> 0 .. 96]]
    <3>1. ASSUME NEW n \in 1 .. m, NEW w \in 0 .. 96 PROVE InFront(s[m - n + 1], w) \in 0 .. 96
      <4>1. m - n + 1 \in 1 .. m  OBVIOUS
      <4>2. s[m - n + 1] \in Characters  BY <4>1
      <4> QED  BY <4>2, InFrontIs
    <3>2. \A n \in Nat : [w \in 0 .. 96 |->
               IF n \in 1 .. m THEN InFront(s[m - n + 1], w) ELSE 0] \in [0 .. 96 -> 0 .. 96]
      <4> SUFFICES ASSUME NEW n \in Nat
                   PROVE  [w \in 0 .. 96 |->
                              IF n \in 1 .. m THEN InFront(s[m - n + 1], w) ELSE 0]
                          \in [0 .. 96 -> 0 .. 96]
        OBVIOUS
      <4> HIDE DEF F, Is
      <4>1. CASE n \in 1 .. m  BY <3>1, <4>1
      <4>2. CASE n \notin 1 .. m
        <5>1. 0 \in 0 .. 96  OBVIOUS
        <5> QED  BY <4>2, <5>1, Zenon
      <4> QED  BY <4>1, <4>2
    <3> HIDE DEF Is
    <3> QED  BY <3>2, Zenon
  <2>2. PICK g : Follows(g, 0 .. 96, 1, F, m)
    <3> HIDE DEF F
    <3>1. 1 \in 0 .. 96  OBVIOUS
    <3> QED  BY <2>1, <3>1, Recursion, Zenon
  <2>3. PICK f : f = [n \in 0 .. m |-> g[m - n]]  OBVIOUS
  <2>4. ASSUME NEW n \in 0 .. m PROVE f[n] = g[m - n] /\ f[n] \in 0 .. 96
    <3>1. m - n \in 0 .. m  OBVIOUS
    <3> QED  BY <2>2, <2>3, <3>1 DEF Follows
  <2>5. ASSUME NEW n \in 0 .. m PROVE f[n] = IF n = m THEN 1 ELSE InFront(s[n + 1], f[n + 1])
    <3>1. CASE n = m
      <4>1. m - n = 0  BY <3>1
      <4> QED  BY <2>2, <2>4, <3>1, <4>1 DEF Follows
    <3>2. CASE n # m
      <4>1. n + 1 \in 0 .. m /\ m - n \in 1 .. m /\ m - (n + 1) = (m - n) - 1 /\ m - (m - n) + 1 = n + 1
        BY <3>2
      <4>2. g[m - n] = F[m - n][g[(m - n) - 1]]  BY <2>2, <4>1 DEF Follows
      <4>3. f[n + 1] = g[(m - n) - 1] /\ f[n + 1] \in 0 .. 96  BY <2>4, <4>1
      <4>4. F[m - n][f[n + 1]] = InFront(s[n + 1], f[n + 1])  BY <4>1, <4>3
      <4> HIDE DEF F
      <4> QED  BY <2>4, <3>2, <4>2, <4>3, <4>4
    <3> QED  BY <3>1, <3>2
  <2>6. f = [n \in 0 .. m |-> f[n]]  BY <2>3
  <2>7. Is(f)  BY <2>5, <2>6
  <2> HIDE DEF Is
  <2> QED  BY <2>4, <2>7
<1>2. \A g : Is(g) => \A n \in 0 .. m : g[n] = f[n]
  <2> SUFFICES ASSUME NEW g, Is(g) PROVE \A n \in 0 .. m : g[n] = f[n]
    <3> HIDE DEF Is
    <3> QED  OBVIOUS
  <2> DEFINE T == {k \in 0 .. m : g[m - k] = f[m - k]}
  <2>1. 0 \in T  BY <1>1
  <2>2. ASSUME NEW k \in 0 .. m - 1, k \in T PROVE k + 1 \in T
    <3>1. m - (k + 1) \in 0 .. m /\ m - (k + 1) # m /\ m - (k + 1) + 1 = m - k  OBVIOUS
    <3> QED  BY <1>1, <2>2, <3>1
  <2>3. 0 .. m \subseteq T
    <3> HIDE DEF T
    <3> QED  BY <2>1, <2>2, UpTo
  <2> SUFFICES ASSUME NEW n \in 0 .. m PROVE g[n] = f[n]
    <3> HIDE DEF Is
    <3> QED  OBVIOUS
  <2>4. m - n \in 0 .. m /\ m - (m - n) = n  OBVIOUS
  <2>5. m - n \in T
    <3> HIDE DEF T
    <3> QED  BY <2>3, <2>4
  <2> HIDE DEF Is
  <2> QED  BY <2>4, <2>5
<1>3. Is(Weights(s))
  <2>1. Weights(s) = CHOOSE g : Is(g)  BY DEF Weights, InFront
  <2> HIDE DEF Is
  <2> QED  BY <1>1, <2>1
<1>4. \A n \in 0 .. m : Weights(s)[n] \in 0 .. 96
  <2> HIDE DEF Is
  <2> QED  BY <1>1, <1>2, <1>3
<1>5. Weights(s)[m] = 1 /\ \A n \in 0 .. m - 1 : Weights(s)[n] = InFront(s[n + 1], Weights(s)[n + 1])
  BY <1>3
<1> QED  BY <1>4, <1>5

LEMMA TotalsAre ==
    ASSUME NEW s \in Seq(Characters), NEW m \in Nat, Len(s) = m
    PROVE  /\ Totals(s)[0] = 0
           /\ \A n \in 1 .. m : Totals(s)[n] = Totals(s)[n - 1] + s[n] * Weights(s)[n]
           /\ \A n \in 0 .. m : Totals(s)[n] \in Int
<1>0. PICK w : w = Weights(s) /\ \A n \in 0 .. m : w[n] \in 0 .. 96  BY WeightsAre
<1>1. \A n \in 1 .. m : s[n] * w[n] \in Int
  <2> SUFFICES ASSUME NEW n \in 1 .. m PROVE s[n] * w[n] \in Int  OBVIOUS
  <2>1. s[n] \in Characters /\ n \in 0 .. m  OBVIOUS
  <2>2. PICK x \in 0 .. 35 : x = s[n]  BY <2>1, CharactersAre
  <2>3. PICK y \in 0 .. 96 : y = w[n]  BY <1>0, <2>1
  <2> QED  BY <2>2, <2>3
<1> DEFINE F == [n \in Nat |-> [t \in Int |-> IF n \in 1 .. m THEN t + s[n] * w[n] ELSE 0]]
           Is(f) == f = [n \in 0 .. m |-> IF n = 0 THEN 0 ELSE f[n - 1] + s[n] * w[n]]
<1>2. PICK f : Is(f)
  <2>1. F \in [Nat -> [Int -> Int]]  BY <1>1
  <2>2. PICK f : Follows(f, Int, 0, F, m)
    <3> HIDE DEF F
    <3>1. 0 \in Int  OBVIOUS
    <3> QED  BY <2>1, <3>1, Recursion, Zenon
  <2>3. ASSUME NEW n \in 0 .. m PROVE f[n] = IF n = 0 THEN 0 ELSE f[n - 1] + s[n] * w[n]
    <3> USE DEF Follows
    <3>1. CASE n = 0  BY <2>2, <3>1
    <3>2. CASE n \in 1 .. m
      <4>1. n - 1 \in 0 .. m /\ n \in Nat  BY <3>2
      <4>2. f[n - 1] \in Int  BY <2>2, <4>1
      <4>3. F[n][f[n - 1]] = f[n - 1] + s[n] * w[n]  BY <3>2, <4>1, <4>2
      <4>4. f[n] = F[n][f[n - 1]]  BY <3>2, <2>2
      <4> QED  BY <4>3, <4>4, <3>2
    <3> QED  BY <3>1, <3>2
  <2>4. f = [n \in 0 .. m |-> f[n]]  BY <2>2 DEF Follows
  <2>5. Is(f)  BY <2>3, <2>4
  <2> HIDE DEF Is
  <2> QED  BY <2>5
<1>3. Is(Totals(s))
  <2>1. Totals(s) = CHOOSE g : Is(g)  BY <1>0 DEF Totals
  <2> HIDE DEF Is
  <2> QED  BY <1>2, <2>1
<1>4. Totals(s)[0] = 0 /\ \A n \in 1 .. m : Totals(s)[n] = Totals(s)[n - 1] + s[n] * w[n]
  BY <1>3
<1> HIDE DEF F, Is
<1> DEFINE T == {n \in 0 .. m : Totals(s)[n] \in Int}
<1>5. 0 .. m \subseteq T
  <2>1. 0 \in T  BY <1>4
  <2>2. ASSUME NEW n \in 0 .. m - 1, n \in T PROVE n + 1 \in T
    <3>1. n + 1 \in 1 .. m /\ (n + 1) - 1 = n  OBVIOUS
    <3>2. PICK y \in Int : y = s[n + 1] * w[n + 1]  BY <1>1, <3>1
    <3>3. Totals(s)[n + 1] = Totals(s)[n] + y  BY <1>4, <3>1, <3>2
    <3> QED  BY <2>2, <3>1, <3>2, <3>3
  <2> HIDE DEF T
  <2> QED  BY <2>1, <2>2, UpTo
<1> QED  BY <1>0, <1>4, <1>5

\* What the remainder so far stands for is the total so far.
Balanced(r, w, t) == \E k \in Int : r * w = t + 97 * k

LEMMA BalanceStep ==
    ASSUME NEW r \in 0 .. 96, NEW v \in Characters, NEW w \in 0 .. 96, NEW t \in Int,
           Balanced(r, InFront(v, w), t)
    PROVE  Balanced(Read(r, v), w, t + v * w)
<1>1. v \in 0 .. 35  BY CharactersAre
<1>2. PICK b \in Int : b = Base(v) /\ b \in {10, 100}  BY DEF Base
<1>3. PICK x \in 0 .. 96, y \in 0 .. 96 : x = InFront(v, w) /\ y = Read(r, v)
  <2>1. \A q \in 0 .. 96 : q \in Int  OBVIOUS
  <2> QED  BY <2>1, InFrontIs, ReadType
<1>4. PICK a \in Int : x = b * w - 97 * a
  <2>1. x = (b * w) % 97  BY <1>2, <1>3, InFrontIs
  <2>2. b * w \in Int  OBVIOUS
  <2>3. b * w = 97 * ((b * w) \div 97) + x  BY <2>1, <2>2
  <2> QED  BY <2>2, <2>3
<1>5. PICK c \in Int : y = b * r + v - 97 * c
  <2>1. y = (b * r + v) % 97  BY <1>2, <1>3 DEF Read
  <2>2. PICK z \in Int : z = b * r + v  BY <1>1
  <2>3. z = 97 * (z \div 97) + (z % 97)  BY <2>2
  <2>4. PICK c \in Int : c = z \div 97  BY <2>2
  <2>5. y = z % 97  BY <2>1, <2>2
  <2>6. y = z - 97 * c  BY <2>2, <2>3, <2>4, <2>5
  <2>7. y = b * r + v - 97 * c  BY <1>1, <1>2, <1>3, <2>2, <2>4, <2>6
  <2> QED  BY <2>4, <2>7
<1>6. PICK k \in Int : r * x = t + 97 * k  BY <1>3 DEF Balanced
<1>7. PICK ra \in Int, cw \in Int, brw \in Int, vw \in Int :
          ra = r * a /\ cw = c * w /\ brw = (b * r) * w /\ vw = v * w
  BY <1>1
<1>8. r * x = brw - 97 * ra  BY <1>4, <1>7
<1>9. y * w = brw + vw - 97 * cw  BY <1>1, <1>5, <1>7
<1>10. PICK j \in Int : j = k + ra - cw  OBVIOUS
<1>11. y * w = (t + vw) + 97 * j  BY <1>6, <1>8, <1>9, <1>10
<1> QED  BY <1>3, <1>7, <1>11 DEF Balanced

LEMMA AllBalanced ==
    ASSUME NEW s \in Seq(Characters), NEW m \in Nat, Len(s) = m
    PROVE  Balanced(Remainder(s), 1, Totals(s)[m])
<1> DEFINE T == {n \in 0 .. m : Balanced(Running(s)[n], Weights(s)[n], Totals(s)[n])}
<1>1. 0 \in T
  <2>1. Running(s)[0] = 0 /\ Totals(s)[0] = 0  BY RunningIs, TotalsAre
  <2>2. PICK w \in 0 .. 96 : w = Weights(s)[0]  BY WeightsAre
  <2>3. 0 * w = 0 + 97 * 0 /\ 0 \in Int  OBVIOUS
  <2>4. Balanced(0, w, 0)  BY <2>2, <2>3 DEF Balanced
  <2> QED  BY <2>1, <2>2, <2>4
<1>2. ASSUME NEW n \in 0 .. m - 1, n \in T PROVE n + 1 \in T
  <2>1. n + 1 \in 1 .. m /\ (n + 1) - 1 = n  OBVIOUS
  <2>2. PICK v \in Characters : v = s[n + 1]  BY <2>1
  <2>3. PICK r \in 0 .. 96 : r = Running(s)[n] /\ Running(s)[n + 1] = Read(r, v)
    BY <2>1, <2>2, RunningStep
  <2>4. PICK w \in 0 .. 96 : w = Weights(s)[n + 1] /\ Weights(s)[n] = InFront(v, w)
    <3> HIDE DEF T
    <3>1. n + 1 \in 0 .. m  OBVIOUS
    <3>2. Weights(s)[n + 1] \in 0 .. 96  BY <3>1, WeightsAre
    <3>3. Weights(s)[n] = InFront(s[n + 1], Weights(s)[n + 1])  BY WeightsAre
    <3> QED  BY <2>2, <3>2, <3>3
  <2>5. PICK t \in Int : t = Totals(s)[n] /\ Totals(s)[n + 1] = t + v * w
    <3> HIDE DEF T
    <3>1. n \in 0 .. m  OBVIOUS
    <3>2. Totals(s)[n] \in Int  BY <3>1, TotalsAre
    <3>3. Totals(s)[n + 1] = Totals(s)[n] + s[n + 1] * Weights(s)[n + 1]  BY <2>1, TotalsAre
    <3> QED  BY <2>2, <2>4, <3>2, <3>3
  <2>6. Balanced(r, InFront(v, w), t)  BY <1>2, <2>3, <2>4, <2>5
  <2>7. Balanced(Read(r, v), w, t + v * w)
    <3> HIDE DEF T
    <3> QED  BY <2>2, <2>3, <2>4, <2>5, <2>6, BalanceStep
  <2> QED  BY <2>1, <2>3, <2>4, <2>5, <2>7
<1>3. m \in T
  <2>1. 0 .. m \subseteq T
    <3> HIDE DEF T
    <3> QED  BY <1>1, <1>2, UpTo
  <2> HIDE DEF T
  <2> QED  BY <2>1
<1> QED  BY <1>3, WeightsAre DEF Remainder

\* The validator's way to the remainder and the reference's lead to the same number.
LEMMA RemainderIsOfTotal ==
    ASSUME NEW s \in Seq(Characters), NEW m \in Nat, Len(s) = m
    PROVE  Remainder(s) = Totals(s)[m] % 97 /\ Remainder(s) \in 0 .. 96
<1>1. PICK r \in 0 .. 96 : r = Remainder(s)
  <2>1. m \in 0 .. Len(s)  OBVIOUS
  <2>2. Running(s)[m] \in 0 .. 96  BY <2>1, RunningIs
  <2> QED  BY <2>2 DEF Remainder
<1>2. PICK t \in Int : t = Totals(s)[m]  BY TotalsAre
<1>3. PICK k \in Int : r * 1 = t + 97 * k  BY <1>1, <1>2, AllBalanced DEF Balanced
<1>4. r = t % 97  BY <1>3
<1> QED  BY <1>1, <1>2, <1>4

LEMMA CheckedIsOne ==
    ASSUME NEW r \in 0 .. 96, NEW c \in 2 .. 98, Read(Read(r, 0), 0) = 98 - c
    PROVE  Read(Read(r, c \div 10), c % 10) = 1
<1>1. PICK d \in 0 .. 9, e \in 0 .. 9 : d = c \div 10 /\ e = c % 10 /\ 10 * d + e = c  OBVIOUS
<1>2. /\ Read(Read(r, 0), 0) = (10 * ((10 * r + 0) % 97) + 0) % 97
      /\ Read(Read(r, d), e) = (10 * ((10 * r + d) % 97) + e) % 97
  BY DEF Read, Base, Digits
<1> QED  BY <1>1, <1>2

LEMMA Pair ==
    ASSUME NEW v \in Characters, NEW w \in Characters
    PROVE  <<v, w>> \in Seq(Characters) /\ Len(<<v, w>>) = 2 /\ <<v, w>>[1] = v /\ <<v, w>>[2] = w
OBVIOUS

LEMMA TwoDigits ==
    ASSUME NEW c \in 2 .. 98
    PROVE  c \div 10 \in 0 .. 9 /\ c % 10 \in 0 .. 9
OBVIOUS

LEMMA LastFour ==
    ASSUME NEW m \in 18 .. 27
    PROVE  /\ (m - 3) - (m - 4) = 1 /\ (m - 2) - (m - 4) = 2 /\ (m - 1) - (m - 4) = 3 /\ m - (m - 4) = 4
           /\ m - 3 \in m - 3 .. m /\ m - 2 \in m - 3 .. m /\ m - 1 \in m - 3 .. m /\ m \in m - 3 .. m
OBVIOUS

LEMMA Complement ==
    ASSUME NEW q \in 0 .. 96
    PROVE  98 - q \in 2 .. 98 /\ q = 98 - (98 - q)
OBVIOUS

LEMMA IssuedIs ==
    ASSUME NEW cc \in DOMAIN Country, NEW bban \in Seq(Characters),
           Len(bban) = Length[cc] - 4
    PROVE  LET s == Issue(cc, bban)
           IN  /\ s \in Seq(Characters) /\ Len(s) = Length[cc]
               /\ s[1] = Country[cc][1] /\ s[2] = Country[cc][2]
               /\ s[3] \in Digits /\ s[4] \in Digits
               /\ Valid(s)
<1>1. PICK m \in 18 .. 27 : m = Length[cc] /\ Len(bban) = m - 4  BY CountriesAre
<1>2. PICK C \in Seq(Characters) :
          C = Country[cc] /\ Len(C) = 2 /\ C[1] \in Characters /\ C[2] \in Characters
  <2>1. Country[cc] \in Seq(Letters) /\ Len(Country[cc]) = 2  BY CountriesAre
  <2>2. Letters \subseteq Characters  BY DEF Characters
  <2> QED  BY <2>1, <2>2
<1>3. PICK z \in Seq(Characters) : z = <<0, 0>> /\ Len(z) = 2 /\ z[1] = 0 /\ z[2] = 0
  <2>1. 0 \in Characters  BY DEF Characters, Digits
  <2> QED  BY <2>1, Pair
<1>4. PICK x \in Nat : x = m - 4
  <2>1. m - 4 \in Nat  OBVIOUS
  <2> QED  BY <2>1
<1>5. PICK y \in Nat : y = m - 2 /\ y = x + 2
  <2>1. m - 2 \in Nat /\ m - 2 = x + 2  BY <1>4
  <2> QED  BY <2>1
<1>6. PICK b0 \in Seq(Characters) : b0 = bban \o C /\ Appended(b0, bban, C, x, 2)
  <2>1. Len(bban) = x /\ 2 \in Nat  BY <1>1, <1>4
  <2>2. Appended(bban \o C, bban, C, x, 2)  BY <1>2, <1>4, <2>1, Joined
  <2>3. bban \o C \in Seq(Characters)  BY <2>2 DEF Appended
  <2> QED  BY <2>2, <2>3
<1>7. PICK s0 \in Seq(Characters) : s0 = b0 \o z /\ Appended(s0, b0, z, y, 2)
  <2>1. Len(b0) = y /\ 2 \in Nat  BY <1>5, <1>6 DEF Appended
  <2>2. Appended(b0 \o z, b0, z, y, 2)  BY <1>3, <1>5, <1>6, <2>1, Joined
  <2>3. b0 \o z \in Seq(Characters)  BY <2>2 DEF Appended
  <2> QED  BY <2>2, <2>3
<1>8. PICK c \in 2 .. 98 : c = CheckDigits(cc, bban) /\ Remainder(s0) = 98 - c
  <2>0. Len(s0) = y + 2  BY <1>7 DEF Appended
  <2>1. Len(s0) = m  BY <1>5, <2>0
  <2>2. CheckDigits(cc, bban) = 98 - (Totals(s0)[Len(s0)] % 97)
    BY <1>2, <1>3, <1>6, <1>7 DEF CheckDigits
  <2>3. Remainder(s0) = Totals(s0)[m] % 97 /\ Remainder(s0) \in 0 .. 96
    <3>1. m \in Nat  OBVIOUS
    <3> QED  BY <1>7, <2>1, <3>1, RemainderIsOfTotal
  <2>4. PICK q \in 0 .. 96 : q = Remainder(s0) /\ CheckDigits(cc, bban) = 98 - q
    BY <2>1, <2>2, <2>3
  <2>5. 98 - q \in 2 .. 98 /\ q = 98 - (98 - q)  BY <2>4, Complement
  <2> QED  BY <2>4, <2>5
<1>9. PICK d \in Digits, e \in Digits : d = c \div 10 /\ e = c % 10
  <2>1. c \div 10 \in 0 .. 9 /\ c % 10 \in 0 .. 9  BY TwoDigits
  <2> QED  BY <2>1 DEF Digits
<1>10. PICK k \in Seq(Characters) : k = <<d, e>> /\ Len(k) = 2 /\ k[1] = d /\ k[2] = e
  <2>1. d \in Characters /\ e \in Characters  BY DEF Characters
  <2> QED  BY <2>1, Pair
<1>11. PICK h \in Seq(Characters) : h = C \o k /\ Appended(h, C, k, 2, 2)
  <2>1. 2 \in Nat  OBVIOUS
  <2>2. Appended(C \o k, C, k, 2, 2)  BY <1>2, <1>10, <2>1, Joined
  <2>3. C \o k \in Seq(Characters)  BY <2>2 DEF Appended
  <2> QED  BY <2>2, <2>3
<1>12. PICK s \in Seq(Characters) : s = Issue(cc, bban) /\ Appended(s, h, bban, 4, x)
  <2>1. Len(h) = 4 /\ 4 \in Nat /\ Len(bban) = x  BY <1>1, <1>4, <1>11 DEF Appended
  <2>2. Issue(cc, bban) = h \o bban  BY <1>2, <1>8, <1>9, <1>10, <1>11 DEF Issue
  <2>3. Appended(h \o bban, h, bban, 4, x)  BY <1>4, <1>11, <2>1, Joined
  <2>4. h \o bban \in Seq(Characters)  BY <2>3 DEF Appended
  <2> QED  BY <2>2, <2>3, <2>4
<1>13. /\ Len(s) = m /\ s[1] = C[1] /\ s[2] = C[2] /\ s[3] = d /\ s[4] = e
       /\ \A i \in 1 .. x : s[i + 4] = bban[i]
  <2>1. h[1] = C[1] /\ h[2] = C[2] /\ h[3] = d /\ h[4] = e  BY <1>10, <1>11 DEF Appended
  <2>2. Len(s) = m /\ x >= 14  BY <1>4, <1>12 DEF Appended
  <2>3. s[1] = h[1] /\ s[2] = h[2] /\ s[3] = h[3] /\ s[4] = h[4]
    <3>1. \A i \in 1 .. 4 : i \in 1 .. 4 + x /\ i <= 4  OBVIOUS
    <3>2. \A i \in 1 .. 4 : s[i] = h[i]  BY <1>12, <3>1 DEF Appended
    <3> QED  BY <3>2
  <2>4. ASSUME NEW i \in 1 .. x PROVE s[i + 4] = bban[i]
    <3>1. i + 4 \in 1 .. 4 + x /\ ~(i + 4 <= 4) /\ (i + 4) - 4 = i  OBVIOUS
    <3> QED  BY <1>12, <3>1 DEF Appended
  <2> QED  BY <2>1, <2>2, <2>3, <2>4
<1>14. PICK t \in Seq(Characters) : t = Rearranged(s) /\ Len(t) = m
  <2>1. Rearranged(s) \in Seq(Characters) /\ Len(Rearranged(s)) = m  BY <1>12, <1>13, RearrangedIs
  <2> QED  BY <2>1
<1>15. /\ \A i \in 1 .. x : t[i] = bban[i]
       /\ t[m - 3] = C[1] /\ t[m - 2] = C[2] /\ t[m - 1] = d /\ t[m] = e
  <2>1. /\ \A i \in 1 .. m - 4 : t[i] = s[i + 4]
        /\ \A i \in m - 3 .. m : t[i] = s[i - (m - 4)]
    BY <1>13, <1>14, RearrangedIs
  <2>2. /\ (m - 3) - (m - 4) = 1 /\ (m - 2) - (m - 4) = 2 /\ (m - 1) - (m - 4) = 3 /\ m - (m - 4) = 4
        /\ m - 3 \in m - 3 .. m /\ m - 2 \in m - 3 .. m /\ m - 1 \in m - 3 .. m /\ m \in m - 3 .. m
    BY LastFour
  <2>3. t[m - 3] = s[1] /\ t[m - 2] = s[2] /\ t[m - 1] = s[3] /\ t[m] = s[4]  BY <2>1, <2>2
  <2> QED  BY <1>4, <1>13, <2>1, <2>3
<1>16. \A i \in 1 .. m - 2 : t[i] = s0[i]
  <2> SUFFICES ASSUME NEW i \in 1 .. m - 2 PROVE t[i] = s0[i]  OBVIOUS
  <2>1. s0[i] = b0[i]
    <3>1. i \in 1 .. y + 2 /\ i <= y  BY <1>5
    <3> QED  BY <1>7, <3>1 DEF Appended
  <2>2. i \in 1 .. x + 2 /\ (i <= x \/ i = x + 1 \/ i = x + 2)  BY <1>4
  <2>3. CASE i <= x
    <3>1. b0[i] = bban[i]  BY <1>6, <2>2, <2>3 DEF Appended
    <3>2. i \in 1 .. x  BY <2>2, <2>3
    <3> QED  BY <1>15, <2>1, <3>1, <3>2
  <2>4. CASE i = x + 1
    <3>1. ~(i <= x) /\ i - x = 1 /\ i = m - 3  BY <1>4, <2>4
    <3>2. b0[i] = C[1]  BY <1>6, <2>2, <3>1 DEF Appended
    <3> QED  BY <1>15, <2>1, <3>1, <3>2
  <2>5. CASE i = x + 2
    <3>1. ~(i <= x) /\ i - x = 2 /\ i = m - 2  BY <1>4, <2>5
    <3>2. b0[i] = C[2]  BY <1>6, <2>2, <3>1 DEF Appended
    <3> QED  BY <1>15, <2>1, <3>1, <3>2
  <2> QED  BY <2>2, <2>3, <2>4, <2>5
<1>17. Len(s0) = m /\ s0[m - 1] = 0 /\ s0[m] = 0
  <2>1. /\ m - 1 \in 1 .. y + 2 /\ ~(m - 1 <= y) /\ (m - 1) - y = 1
        /\ m \in 1 .. y + 2 /\ ~(m <= y) /\ m - y = 2 /\ y + 2 = m
    BY <1>5
  <2> QED  BY <1>3, <1>7, <2>1 DEF Appended
<1>18. PICK r \in 0 .. 96 : r = Running(s0)[m - 2] /\ r = Running(t)[m - 2]
  <2>1. m - 2 \in Nat /\ m - 2 <= Len(s0) /\ m - 2 <= Len(t) /\ m - 2 \in 0 .. Len(s0)
    <3>1. Len(s0) = m /\ Len(t) = m  BY <1>14, <1>17
    <3>2. m - 2 \in Nat /\ m - 2 <= m /\ m - 2 \in 0 .. m  BY <1>4
    <3> QED  BY <3>1, <3>2, Zenon
  <2>2. Running(t)[m - 2] = Running(s0)[m - 2]  BY <1>16, <2>1, SamePrefix
  <2> QED  BY <2>1, <2>2, RunningIs
<1>19. m - 1 \in 1 .. m /\ m \in 1 .. m /\ (m - 1) - 1 = m - 2  OBVIOUS
<1>20. Remainder(s0) = Read(Read(r, 0), 0)
  <2>1. Running(s0)[m - 1] = Read(Running(s0)[(m - 1) - 1], 0)
    <3>1. m - 1 \in 1 .. Len(s0)  BY <1>17, <1>19
    <3>2. Running(s0)[m - 1] = Read(Running(s0)[(m - 1) - 1], s0[m - 1])
      BY <1>7, <3>1, RunningStep
    <3> QED  BY <1>17, <3>2
  <2>3. Running(s0)[m - 1] = Read(r, 0)  BY <1>18, <1>19, <2>1
  <2>2. Running(s0)[m] = Read(Running(s0)[m - 1], 0)  BY <1>17, <1>19, RunningStep
  <2> QED  BY <1>17, <2>2, <2>3 DEF Remainder
<1>21. Remainder(t) = Read(Read(r, d), e)
  <2>1. Running(t)[m - 1] = Read(Running(t)[(m - 1) - 1], d)  BY <1>14, <1>15, <1>19, RunningStep
  <2>3. Running(t)[m - 1] = Read(r, d)  BY <1>18, <1>19, <2>1
  <2>2. Running(t)[m] = Read(Running(t)[m - 1], e)  BY <1>14, <1>15, <1>19, RunningStep
  <2> QED  BY <1>14, <2>2, <2>3 DEF Remainder
<1>22. Remainder(t) = 1  BY <1>8, <1>9, <1>20, <1>21, CheckedIsOne
<1>23. Valid(s)
  <2>1. StructureValid(s)
    <3>1. Len(s) >= 2  BY <1>13
    <3> QED  BY <1>1, <1>2, <1>13, <3>1, StructureIs
  <2> QED  BY <1>14, <1>22, <2>1 DEF Valid, ChecksumValid
<1> QED  BY <1>1, <1>2, <1>12, <1>13, <1>23

-----------------------------------------------------------------------------
(* The theorem *)

\* t is s with at most one slip.
OneSlip(s, t) ==
    \/ t = s
    \/ \E i \in DOMAIN s :
        \/ \E v \in Characters : t = [s EXCEPT ![i] = v]
        \/ i < Len(s) /\ t = Exchanged(s, i)
        \/ t = RemoveAt(s, i)
        \/ t = InsertAt(s, i, s[i])

TypingInvariant ==
    /\ \E i \in Issued : iban = Issue(i[1], i[2])
    /\ OneSlip(iban, typed)

LEMMA TypingInvariantHolds == IbanSpec => []TypingInvariant
<1>1. IbanInit => TypingInvariant  BY DEF IbanInit, TypingInvariant, OneSlip
<1>2. TypingInvariant /\ [Slip]_typing => TypingInvariant'
  BY DEF TypingInvariant, OneSlip, Slip, typing
<1> QED  BY <1>1, <1>2, PTL DEF IbanSpec

LEMMA SlipIsCaught ==
    ASSUME NEW s \in Seq(Characters), NEW cc \in DOMAIN Country, Len(s) = Length[cc],
           s[1] = Country[cc][1], s[2] = Country[cc][2],
           s[3] \in Digits, s[4] \in Digits, Valid(s),
           NEW t, OneSlip(s, t), t # s, ~MixesKinds(s, t)
    PROVE  ~Valid(t)
<1>1. PICK m \in 18 .. 27 : m = Len(s)  BY CountriesAre
<1>2. PICK i \in 1 .. m :
        \/ \E v \in Characters : t = [s EXCEPT ![i] = v]
        \/ i < m /\ t = Exchanged(s, i)
        \/ t = RemoveAt(s, i)
        \/ t = InsertAt(s, i, s[i])
  BY <1>1 DEF OneSlip
<1>3. ASSUME NEW v \in Characters, t = [s EXCEPT ![i] = v] PROVE ~Valid(t)
  <2>1. Len(t) = Len(s) /\ t[i] = v  BY <1>1, <1>3
  <2>2. v # s[i]
    <3>1. v = s[i] => t = s  BY <1>3
    <3> QED  BY <3>1
  <2>3. Alike(s[i], v)
    <3>1. i \in DOMAIN s  BY <1>1
    <3> QED  BY <2>1, <3>1 DEF MixesKinds
  <2> QED  BY <1>1, <1>3, <2>2, <2>3, ReplacedIsInvalid DEF Valid
<1>4. CASE i < m /\ t = Exchanged(s, i)
  <2>1. i \in 1 .. m - 1 /\ i \in 1 .. m /\ i + 1 \in 1 .. m /\ i # i + 1  BY <1>4
  <2>2. Len(t) = Len(s) /\ t[i] = s[i + 1]  BY <1>1, <1>4, <2>1 DEF Exchanged
  <2>3. s[i] # s[i + 1]
    <3>1. s[i] = s[i + 1] => t = s  BY <1>4 DEF Exchanged
    <3> QED  BY <3>1
  <2>4. Alike(s[i], s[i + 1])
    <3>1. i \in DOMAIN s  BY <1>1, <2>1
    <3> QED  BY <2>2, <3>1 DEF MixesKinds
  <2> QED  BY <1>1, <1>4, <2>1, <2>3, <2>4, ExchangedIsInvalid DEF Valid
<1>5. CASE t = RemoveAt(s, i)
  BY <1>1, <1>5, RemovedIsInvalid DEF Valid
<1>6. CASE t = InsertAt(s, i, s[i])
  BY <1>1, <1>6, DoubledIsInvalid DEF Valid
<1> QED  BY <1>2, <1>3, <1>4, <1>5, <1>6

\* An IBAN is accepted as it was issued, whatever the country and the account, and with no slip
\* of a kind: the only typed text that is accepted and puts no letter for a digit is the IBAN.
THEOREM SlipsAreCaught == IbanSpec => []OneSlipIsCaught
<1>1. TypingInvariant => OneSlipIsCaught
  <2> SUFFICES ASSUME TypingInvariant PROVE OneSlipIsCaught  OBVIOUS
  <2>1. PICK i \in Issued : iban = Issue(i[1], i[2])  BY DEF TypingInvariant
  <2>2. PICK cc \in DOMAIN Country, bban \in Seq(Characters) :
            cc = i[1] /\ bban = i[2] /\ Len(bban) = Length[cc] - 4
    BY <2>1, IssuedAssumption
  <2>3. PICK s \in Seq(Characters) :
            /\ s = iban /\ Len(s) = Length[cc]
            /\ s[1] = Country[cc][1] /\ s[2] = Country[cc][2]
            /\ s[3] \in Digits /\ s[4] \in Digits
            /\ Valid(s)
    BY <2>1, <2>2, IssuedIs
  <2>4. OneSlip(s, typed)  BY <2>3 DEF TypingInvariant
  <2>5. ~MixesKinds(s, s)  BY DEF MixesKinds, Alike
  <2>6. typed # s /\ ~MixesKinds(s, typed) => ~Valid(typed)
    BY <2>2, <2>3, <2>4, SlipIsCaught
  <2> QED  BY <2>3, <2>5, <2>6 DEF OneSlipIsCaught
<1> QED  BY <1>1, TypingInvariantHolds, PTL
================================================================================
