------------------------------ MODULE ModelProofs ------------------------------
(***************************************************************************)
(* Proofs about ModelTraining, for any number of executions, which may     *)
(* overlap and die, and about the two modules that extend it: the workers  *)
(* of ModelLoading, which load what the executions promote, and the        *)
(* evaluation of Drift, which starts one of them.                          *)
(***************************************************************************)
EXTENDS ModelLoading, Drift, WellFoundedInduction, TLAPS

\* The versions of an execution: only the one it logged last may lack its scaler, and none
\* that has one is better than best.
Graded ==
    \A t \in Trainings : \A v \in Of(t) :
        \/ registry[v].scaler /\ best[t] # 0 /\ registry[v].f1 <= registry[best[t]].f1
        \/ step[t] \in {"logged", "dead"} /\ \A w \in Of(t) : w <= v

\* best is a version of the execution itself, with its scaler; past the loop there is one.
BestOK ==
    \A t \in Trainings :
        /\ best[t] # 0 => best[t] \in Of(t) /\ registry[best[t]].scaler
        /\ step[t] = "logged" => Of(t) # {}
        /\ step[t] \in {"promote", "compare", "done"} =>
              best[t] # 0 /\ Cardinality(Of(t)) = GridSize
        /\ step[t] \in {"compare", "done"} => registry[best[t]].stage # "None"

\* What was ever promoted has its scaler, and its execution logs nothing more.
PromotedOK ==
    \A v \in Versions : registry[v].stage # "None" =>
        /\ registry[v].scaler
        /\ step[registry[v].by] \in {"compare", "done", "dead"}
        /\ Cardinality(Of(registry[v].by)) = GridSize

IInv == TypeOK /\ Graded /\ BestOK /\ PromotedOK /\ OneProduction

-----------------------------------------------------------------------------
\* A non-empty set of naturals has a smallest element.
LEMMA SmallestNat ==
    ASSUME NEW S, S \subseteq Nat, S # {}
    PROVE  \E x \in S : \A y \in S : x <= y
<1>1. IsWellFoundedOn(OpToRel(<, Nat), Nat)
  BY NatLessThanWellFounded
<1>2. PICK x \in S : \A y \in S : <<y, x>> \notin OpToRel(<, Nat)
  BY <1>1, WFMin
<1>3. \A y \in S : ~ (y < x)
  BY <1>2 DEF OpToRel
<1> QED
  BY <1>3

\* Max of a non-empty set of naturals with an upper bound is its greatest element.
LEMMA MaxOfBounded ==
    ASSUME NEW n \in Nat, NEW S, S \subseteq 0 .. n, S # {}
    PROVE  Max(S) \in S /\ \A y \in S : y <= Max(S)
<1> DEFINE U == {u \in Nat : \A x \in S : x <= u}
<1>1. U \subseteq Nat /\ n \in U
  OBVIOUS
<1>2. PICK m \in U : \A y \in U : m <= y
  BY <1>1, SmallestNat
<1>3. m \in Nat /\ \A x \in S : x <= m
  BY <1>2
<1>4. m \in S
  <2>1. SUFFICES ASSUME m \notin S PROVE FALSE
    OBVIOUS
  <2>2. m # 0
    <3>1. PICK x \in S : x \in 0 .. n
      OBVIOUS
    <3> QED
      BY <1>3, <2>1, <3>1
  <2>3. m - 1 \in U
    BY <1>3, <2>1, <2>2
  <2> QED
    BY <1>2, <1>3, <2>3
<1>5. \E x \in S : \A y \in S : x >= y
  BY <1>3, <1>4
<1> QED
  BY <1>5 DEF Max

\* The same for a set of versions.
LEMMA MaxInSet ==
    ASSUME NEW n \in Nat, NEW S, S \subseteq 1 .. n, S # {}
    PROVE  Max(S) \in S /\ \A y \in S : y <= Max(S)
<1>1. S \subseteq 0 .. n
  OBVIOUS
<1> QED
  BY <1>1, MaxOfBounded

\* Of, after a step that adds no version and changes nobody's author.
LEMMA SameAuthors ==
    ASSUME TypeOK, TypeOK', Len(registry') = Len(registry),
           \A v \in Versions : registry'[v].by = registry[v].by
    PROVE  Versions' = Versions /\ \A t \in Trainings : Of(t)' = Of(t)
BY DEF Versions, Of

\* The fields of a version.
LEMMA VersionFields ==
    ASSUME TypeOK, NEW v \in Versions
    PROVE  /\ registry[v] \in Version
           /\ registry[v].by \in Trainings /\ registry[v].f1 \in Nat
           /\ registry[v].scaler \in BOOLEAN /\ registry[v].stage \in Stages
<1>1. registry[v] \in Version
  BY DEF TypeOK, Versions
<1>2. registry[v].f1 \in F1Values /\ registry[v].by \in Trainings
      /\ registry[v].scaler \in BOOLEAN /\ registry[v].stage \in Stages
  BY <1>1 DEF Version
<1>3. registry[v].f1 \in Nat
  <2>1. \A f \in F1Values : f \in Nat
    BY TrainingAssumption
  <2> QED
    BY <1>2, <2>1, Zenon
<1> QED
  BY <1>1, <1>2, <1>3

\* Replacing one version by another.
LEMMA SetVersion ==
    ASSUME NEW s \in Seq(Version), NEW v \in 1 .. Len(s), NEW r \in Version
    PROVE  LET q == [s EXCEPT ![v] = r]
           IN  /\ q \in Seq(Version) /\ Len(q) = Len(s) /\ q[v] = r
               /\ \A w \in 1 .. Len(s) : w # v => q[w] = s[w]
OBVIOUS

-----------------------------------------------------------------------------
LEMMA InitIInv == TInit => IInv
<1> SUFFICES ASSUME TInit PROVE IInv
  OBVIOUS
<1>1. Versions = {}
  BY DEF TInit, Versions
<1>2. TypeOK
  BY DEF TInit, TypeOK, Steps, Verdicts
<1> QED
  BY <1>1, <1>2 DEF TInit, IInv, Graded, BestOK, PromotedOK, OneProduction, Of, InStage

LEMMA StepIInv == IInv /\ [TNext]_tvars => IInv'
<1> SUFFICES ASSUME IInv, [TNext]_tvars PROVE IInv'
  OBVIOUS
<1> USE DEF IInv
<1>0. Len(registry) \in Nat /\ Versions \subseteq 1 .. Len(registry) /\ \A t \in Trainings : Of(t) \subseteq Versions
  BY DEF TypeOK, Versions, Of
<1>v. \A v \in Versions :
        /\ registry[v] \in Version
        /\ registry[v].by \in Trainings /\ registry[v].f1 \in Nat
        /\ registry[v].scaler \in BOOLEAN /\ registry[v].stage \in Stages
  BY VersionFields
\* A step that touches neither the registry nor best.
<1>f. ASSUME UNCHANGED <<registry, best>>, TypeOK',
             \A t \in Trainings :
                /\ step'[t] = "logged" => step[t] = "logged"
                /\ step[t] = "logged" => step'[t] \in {"logged", "dead"}
                /\ step[t] = "dead" => step'[t] = "dead"
                /\ step'[t] \in {"promote", "compare", "done"} => step[t] = step'[t] \/ (step[t] = "compare" /\ step'[t] = "done")
                /\ step[t] \in {"compare", "done", "dead"} => step'[t] \in {"compare", "done", "dead"}
      PROVE  IInv'
  <2>1. Versions' = Versions /\ \A t \in Trainings : Of(t)' = Of(t)
    BY <1>f, SameAuthors
  <2>2. Graded'
    BY <1>f, <2>1 DEF Graded
  <2>3. BestOK'
    BY <1>f, <2>1 DEF BestOK
  <2>4. PromotedOK'
    BY <1>f, <1>v, <2>1 DEF PromotedOK
  <2>5. OneProduction'
    BY <1>f, <2>1 DEF OneProduction, InStage
  <2> QED
    BY <1>f, <2>2, <2>3, <2>4, <2>5
<1>1. ASSUME NEW t \in Trainings, Start(t) PROVE IInv'
  <2>1. TypeOK'
    BY <1>1 DEF TypeOK, Start, Steps, Versions
  <2> QED
    BY <1>1, <1>f, <2>1 DEF Start, TypeOK
<1>2. ASSUME NEW t \in Trainings, LogModel(t) PROVE IInv'
  <2> DEFINE n == Len(registry) + 1
  <2>1. PICK f \in F1Values :
            registry' = Append(registry, [by |-> t, f1 |-> f, scaler |-> FALSE, stage |-> "None"])
    BY <1>2 DEF LogModel
  <2>2. /\ Len(registry') = n /\ \A v \in Versions : registry'[v] = registry[v]
        /\ registry'[n] = [by |-> t, f1 |-> f, scaler |-> FALSE, stage |-> "None"]
    BY <2>1 DEF TypeOK, Versions
  <2>3. TypeOK'
    <3>1. registry' \in Seq(Version)
      BY <2>1 DEF TypeOK, Version, Stages
    <3> QED
      BY <1>2, <2>2, <3>1 DEF LogModel, TypeOK, Steps, Versions
  <2>4. Versions' = Versions \cup {n}
    BY <2>2 DEF Versions, TypeOK
  <2>5. /\ Of(t)' = Of(t) \cup {n}
        /\ \A u \in Trainings : u # t => Of(u)' = Of(u)
    BY <2>2, <2>4 DEF Of
  <2>6. \A u \in Trainings : best[u] \in {0} \cup Versions
    BY DEF TypeOK
  <2>7. step[t] = "fit" /\ step' = [step EXCEPT ![t] = "logged"] /\ best' = best
    BY <1>2 DEF LogModel
  <2>8. Graded'
    <3>1. ASSUME NEW u \in Trainings, NEW v \in Of(u)', u # t
          PROVE  \/ registry'[v].scaler /\ best'[u] # 0 /\ registry'[v].f1 <= registry'[best'[u]].f1
                 \/ step'[u] \in {"logged", "dead"} /\ \A w \in Of(u)' : w <= v
      BY <3>1, <1>0, <2>2, <2>5, <2>6, <2>7 DEF Graded, TypeOK
    <3>2. ASSUME NEW v \in Of(t)'
          PROVE  \/ registry'[v].scaler /\ best'[t] # 0 /\ registry'[v].f1 <= registry'[best'[t]].f1
                 \/ step'[t] \in {"logged", "dead"} /\ \A w \in Of(t)' : w <= v
      <4>1. CASE v = n
        BY <4>1, <1>0, <2>5, <2>7 DEF TypeOK, Versions
      <4>2. CASE v # n
        BY <4>2, <1>0, <2>2, <2>5, <2>6, <2>7 DEF Graded, TypeOK
      <4> QED
        BY <4>1, <4>2
    <3> QED
      BY <3>1, <3>2 DEF Graded
  <2>9. BestOK'
    BY <1>0, <2>2, <2>5, <2>6, <2>7 DEF BestOK, TypeOK
  <2>10. PromotedOK'
    <3> SUFFICES ASSUME NEW v \in Versions', registry'[v].stage # "None"
                 PROVE  /\ registry'[v].scaler
                        /\ step'[registry'[v].by] \in {"compare", "done", "dead"}
                        /\ Cardinality(Of(registry[v].by))' = GridSize
      BY DEF PromotedOK
    <3>1. v \in Versions /\ registry'[v] = registry[v]
      BY <2>2, <2>4
    <3>2. step[registry[v].by] \in {"compare", "done", "dead"} /\ registry[v].by \in Trainings
      BY <1>v, <3>1 DEF PromotedOK
    <3> QED
      BY <3>1, <3>2, <2>5, <2>7 DEF PromotedOK, TypeOK
  <2>11. OneProduction'
    BY <2>2, <2>4 DEF OneProduction, InStage
  <2> QED
    BY <2>3, <2>8, <2>9, <2>10, <2>11
<1>3. ASSUME NEW t \in Trainings, LogScaler(t) PROVE IInv'
  <2> DEFINE v == Max(Of(t))
  <2>0. /\ step[t] = "logged"
        /\ registry' = [registry EXCEPT ![v].scaler = TRUE]
        /\ best' = [best EXCEPT ![t] = Better(t, v)]
        /\ step' = [step EXCEPT ![t] = IF Cardinality(Of(t)) = GridSize THEN "promote" ELSE "fit"]
        /\ UNCHANGED verdict
    BY <1>3 DEF LogScaler
  <2>1. v \in Of(t) /\ \A w \in Of(t) : w <= v
    <3>1. Of(t) # {}
      BY <2>0 DEF BestOK
    <3> QED
      BY <1>0, <3>1, MaxInSet DEF Versions
  <2>2. /\ Len(registry') = Len(registry)
        /\ \A w \in Versions : /\ registry'[w].by = registry[w].by /\ registry'[w].f1 = registry[w].f1
                               /\ registry'[w].stage = registry[w].stage
                               /\ registry[w].scaler => registry'[w].scaler
        /\ registry'[v].scaler
        /\ registry' \in Seq(Version)
    <3>1. v \in Versions /\ [registry[v] EXCEPT !.scaler = TRUE] \in Version
      <4>1. v \in Versions
        BY <1>0, <2>1
      <4>2. registry[v] \in Version
        BY <1>v, <4>1
      <4> QED
        BY <4>1, <4>2 DEF Version
    <3>2. registry' = [registry EXCEPT ![v] = [registry[v] EXCEPT !.scaler = TRUE]]
      BY <2>0
    <3>3. /\ Len(registry') = Len(registry) /\ registry' \in Seq(Version)
          /\ \A w \in Versions : w # v => registry'[w] = registry[w]
          /\ registry'[v] = [registry[v] EXCEPT !.scaler = TRUE]
      <4> DEFINE r == [registry[v] EXCEPT !.scaler = TRUE]
      <4>1. r \in Version /\ v \in 1 .. Len(registry) /\ registry \in Seq(Version)
        BY <3>1 DEF TypeOK, Versions
      <4>2. registry' = [registry EXCEPT ![v] = r]
        BY <3>2
      <4> HIDE DEF r, v
      <4>3. /\ registry' \in Seq(Version) /\ Len(registry') = Len(registry) /\ registry'[v] = r
            /\ \A w \in 1 .. Len(registry) : w # v => registry'[w] = registry[w]
        BY <4>1, <4>2, SetVersion
      <4> QED
        BY <4>3 DEF r, Versions
    <3>4. /\ registry'[v].scaler /\ registry'[v].by = registry[v].by
          /\ registry'[v].f1 = registry[v].f1 /\ registry'[v].stage = registry[v].stage
      BY <1>v, <3>1, <3>3 DEF Version
    <3> QED
      BY <3>1, <3>3, <3>4
  <2>3. Better(t, v) \in Of(t) /\ registry'[Better(t, v)].scaler
    BY <1>0, <2>1, <2>2 DEF Better, BestOK
  <2>4. TypeOK'
    BY <1>0, <2>0, <2>2, <2>3 DEF TypeOK, Steps, Versions
  <2>5. Versions' = Versions /\ \A u \in Trainings : Of(u)' = Of(u)
    BY <2>2, <2>4, SameAuthors
  <2>6. Graded'
    <3>1. ASSUME NEW u \in Trainings, u # t, NEW w \in Of(u)
          PROVE  \/ registry'[w].scaler /\ best'[u] # 0 /\ registry'[w].f1 <= registry'[best'[u]].f1
                 \/ step'[u] \in {"logged", "dead"} /\ \A x \in Of(u) : x <= w
      <4>1. best'[u] = best[u] /\ step'[u] = step[u] /\ best[u] \in {0} \cup Versions
        BY <2>0, <3>1 DEF TypeOK
      <4> QED
        BY <1>0, <2>2, <3>1, <4>1 DEF Graded
    <3>2. ASSUME NEW w \in Of(t)
          PROVE  registry'[w].scaler /\ best'[t] # 0 /\ registry'[w].f1 <= registry'[best'[t]].f1
      <4>1. best'[t] = Better(t, v) /\ best'[t] \in Of(t) /\ best'[t] # 0
        BY <1>0, <2>0, <2>3 DEF TypeOK, Versions
      <4>2. \A x \in Of(t) : registry[x].f1 \in Nat
        BY <1>0, <1>v
      <4>3. registry[v].f1 <= registry[Better(t, v)].f1 /\ (best[t] # 0 => registry[best[t]].f1 <= registry[Better(t, v)].f1)
        BY <1>0, <2>1, <2>3, <4>2 DEF Better, BestOK
      <4>4. CASE w = v
        BY <1>0, <2>2, <4>1, <4>3, <4>4
      <4>5. CASE w # v
        <5>1. ~ \A x \in Of(t) : x <= w
          BY <1>0, <2>1, <4>5 DEF Versions
        <5>2. registry[w].scaler /\ best[t] # 0 /\ registry[w].f1 <= registry[best[t]].f1
          BY <5>1 DEF Graded
        <5>3. best[t] \in Of(t)
          BY <5>2 DEF BestOK
        <5> QED
          <6>1. registry[w].f1 <= registry[Better(t, v)].f1
            BY <2>3, <4>2, <4>3, <5>2, <5>3
          <6> QED
            BY <1>0, <2>2, <2>3, <4>1, <5>2, <6>1
      <4> QED
        BY <4>4, <4>5
    <3> QED
      BY <2>5, <3>1, <3>2 DEF Graded
  <2>7. BestOK'
    <3>1. ASSUME NEW u \in Trainings, u # t
          PROVE  /\ best'[u] # 0 => best'[u] \in Of(u) /\ registry'[best'[u]].scaler
                 /\ step'[u] = "logged" => Of(u) # {}
                 /\ step'[u] \in {"promote", "compare", "done"} => best'[u] # 0 /\ Cardinality(Of(u)) = GridSize
                 /\ step'[u] \in {"compare", "done"} => registry'[best'[u]].stage # "None"
      <4>1. best'[u] = best[u] /\ step'[u] = step[u]
        BY <2>0, <3>1 DEF TypeOK
      <4> QED
        BY <1>0, <2>2, <4>1 DEF BestOK
    <3>2. best'[t] = Better(t, v) /\ best'[t] # 0 /\ step'[t] \in {"promote", "fit"} /\ (step'[t] = "promote" => Cardinality(Of(t)) = GridSize)
      BY <1>0, <2>0, <2>3 DEF TypeOK, Versions
    <3> QED
      BY <2>3, <2>5, <3>1, <3>2 DEF BestOK
  <2>8. PromotedOK'
    <3> SUFFICES ASSUME NEW w \in Versions, registry'[w].stage # "None"
                 PROVE  /\ registry'[w].scaler
                        /\ step'[registry'[w].by] \in {"compare", "done", "dead"}
                        /\ Cardinality(Of(registry[w].by))' = GridSize
      BY <2>5 DEF PromotedOK
    <3>1. registry[w].by \in Trainings
      BY <1>v
    <3>2. registry[w].by # t /\ step'[registry[w].by] = step[registry[w].by]
      BY <2>0, <2>2, <3>1 DEF PromotedOK, TypeOK
    <3> QED
      BY <2>2, <2>5, <3>1, <3>2 DEF PromotedOK
  <2>9. OneProduction'
    BY <2>2, <2>5 DEF OneProduction, InStage
  <2> QED
    BY <2>4, <2>6, <2>7, <2>8, <2>9
<1>4. ASSUME NEW t \in Trainings, Promote(t) PROVE IInv'
  <2> DEFINE b == best[t]
  <2>0. /\ step[t] = "promote" /\ step' = [step EXCEPT ![t] = "compare"]
        /\ registry' = Transition(b)
        /\ UNCHANGED <<best, verdict>>
    BY <1>4 DEF Promote, Candidate
  <2>1. b \in Of(t) /\ b \in Versions /\ registry[b].scaler /\ registry[b].by = t /\ Cardinality(Of(t)) = GridSize
    BY <1>0, <2>0 DEF BestOK, Of
  <2>2. /\ Len(registry') = Len(registry) /\ registry' \in Seq(Version)
        /\ \A w \in Versions :
              /\ registry'[w].by = registry[w].by /\ registry'[w].f1 = registry[w].f1
              /\ registry'[w].scaler = registry[w].scaler
              /\ registry'[w].stage = "Production" <=> w = b
              /\ registry'[w].stage = "None" <=> w # b /\ registry[w].stage = "None"
    <3>1. \A w \in Versions : registry[w] \in Version
      BY DEF TypeOK, Versions
    <3>2. \A w \in Versions : registry'[w] =
              IF w = b THEN [registry[w] EXCEPT !.stage = "Production"]
              ELSE IF registry[w].stage = "Production" THEN [registry[w] EXCEPT !.stage = "Archived"]
              ELSE registry[w]
      BY <2>0 DEF Transition
    <3>3. \A w \in Versions : registry'[w] \in Version
      <4>1. ASSUME NEW w \in Versions
            PROVE  /\ [registry[w] EXCEPT !.stage = "Production"] \in Version
                   /\ [registry[w] EXCEPT !.stage = "Archived"] \in Version
        BY <3>1 DEF Version, Stages
      <4> QED
        BY <3>1, <3>2, <4>1
    <3>4. registry' \in [1 .. Len(registry) -> Version]
      BY <2>0, <3>3 DEF Transition, Versions
    <3>5. registry' \in Seq(Version) /\ Len(registry') = Len(registry)
      BY <1>0, <3>4
    <3> QED
      BY <3>1, <3>2, <3>5 DEF Version, Stages
  <2>3. TypeOK'
    <3>1. Versions' = Versions
      BY <2>2 DEF Versions
    <3> QED
      BY <2>0, <2>2, <3>1 DEF TypeOK, Steps
  <2>4. Versions' = Versions /\ \A u \in Trainings : Of(u)' = Of(u)
    BY <2>2, <2>3, SameAuthors
  <2>5. \A u \in Trainings : (u # t => step'[u] = step[u]) /\ (u = t => step'[u] = "compare")
    BY <2>0 DEF TypeOK
  <2>6. \A u \in Trainings : best[u] \in {0} \cup Versions
    BY DEF TypeOK
  <2>7. Graded'
    <3> SUFFICES ASSUME NEW u \in Trainings, NEW v \in Of(u)
                 PROVE  \/ registry'[v].scaler /\ best[u] # 0 /\ registry'[v].f1 <= registry'[best[u]].f1
                        \/ step'[u] \in {"logged", "dead"} /\ \A w \in Of(u) : w <= v
      BY <2>0, <2>4 DEF Graded
    <3>1. \/ registry[v].scaler /\ best[u] # 0 /\ registry[v].f1 <= registry[best[u]].f1
          \/ step[u] \in {"logged", "dead"} /\ \A w \in Of(u) : w <= v
      BY DEF Graded
    <3>2. v \in Versions
      BY <1>0
    <3> QED
      BY <2>0, <2>2, <2>5, <2>6, <3>1, <3>2
  <2>8. BestOK'
    <3>1. ASSUME NEW u \in Trainings, u # t
          PROVE  /\ best[u] # 0 => best[u] \in Of(u) /\ registry'[best[u]].scaler
                 /\ step'[u] = "logged" => Of(u) # {}
                 /\ step'[u] \in {"promote", "compare", "done"} => best[u] # 0 /\ Cardinality(Of(u)) = GridSize
                 /\ step'[u] \in {"compare", "done"} => registry'[best[u]].stage # "None"
      BY <2>2, <2>5, <2>6, <3>1 DEF BestOK
    <3>2. b # 0 /\ registry'[b].scaler /\ registry'[b].stage # "None"
      BY <2>0, <2>1, <2>2 DEF BestOK
    <3> QED
      BY <2>0, <2>1, <2>4, <2>5, <3>1, <3>2 DEF BestOK
  <2>9. PromotedOK'
    <3> SUFFICES ASSUME NEW w \in Versions, registry'[w].stage # "None"
                 PROVE  /\ registry'[w].scaler
                        /\ step'[registry'[w].by] \in {"compare", "done", "dead"}
                        /\ Cardinality(Of(registry[w].by))' = GridSize
      BY <2>4 DEF PromotedOK
    <3>1. registry[w].by \in Trainings
      BY <1>v
    <3>2. CASE w = b
      BY <2>1, <2>2, <2>4, <2>5, <3>2
    <3>3. CASE w # b
      BY <2>2, <2>4, <2>5, <3>1, <3>3 DEF PromotedOK
    <3> QED
      BY <3>2, <3>3
  <2>10. OneProduction'
    BY <2>2, <2>4 DEF OneProduction, InStage
  <2> QED
    BY <2>3, <2>7, <2>8, <2>9, <2>10
<1>5. ASSUME NEW t \in Trainings, Compare(t) PROVE IInv'
  <2>1. TypeOK'
    <3>1. verdict' \in [Trainings -> Verdicts]
      BY <1>5 DEF Compare, TypeOK, Verdicts
    <3> QED
      BY <1>5, <3>1 DEF Compare, TypeOK, Steps, Versions
  <2> QED
    BY <1>5, <1>f, <2>1 DEF Compare, TypeOK
<1>6. ASSUME NEW t \in Trainings, CompareRaises(t) PROVE IInv'
  <2>1. TypeOK'
    BY <1>6 DEF TypeOK, CompareRaises, Steps, Versions
  <2> QED
    BY <1>6, <1>f, <2>1 DEF CompareRaises, TypeOK
<1>7. ASSUME NEW t \in Trainings, Die(t) PROVE IInv'
  <2>1. TypeOK'
    BY <1>7 DEF TypeOK, Die, Steps, Versions
  <2> QED
    BY <1>7, <1>f, <2>1 DEF Die, TypeOK
<1>8. CASE UNCHANGED tvars
  <2>1. TypeOK'
    BY <1>8 DEF TypeOK, tvars, notebook, Versions
  <2> QED
    BY <1>8, <1>f, <2>1 DEF tvars, notebook
<1> QED
  BY <1>1, <1>2, <1>3, <1>4, <1>5, <1>6, <1>7, <1>8 DEF TNext, Train

-----------------------------------------------------------------------------
LEMMA Invariance == TrainingSpec => []IInv
BY InitIInv, StepIInv, PTL DEF TrainingSpec

\* Every variable of the registry and of the notebook keeps its type.
THEOREM TrainingTypeCorrect == TrainingSpec => []TypeOK
<1>1. IInv => TypeOK
  BY DEF IInv
<1> QED
  BY Invariance, <1>1, PTL

\* archive_existing_versions: never two versions in Production.
THEOREM OneVersionServes == TrainingSpec => []OneProduction
<1>1. IInv => OneProduction
  BY DEF IInv
<1> QED
  BY Invariance, <1>1, PTL

\* Whatever overlaps or dies, a version in Production has its scaler and a whole grid behind it.
THEOREM ProductionHasScaler == TrainingSpec => []ProductionIsComplete
<1>1. IInv => ProductionIsComplete
  BY DEF IInv, ProductionIsComplete, PromotedOK, InStage
<1> QED
  BY Invariance, <1>1, PTL

\* An execution that ends unblocked has promoted the best of its runs.
THEOREM TheBestIsPromoted == TrainingSpec => []BestIsPromoted
<1>1. IInv => BestIsPromoted
  <2> SUFFICES ASSUME IInv, NEW t \in Trainings, step[t] = "done"
               PROVE  /\ registry[best[t]].stage \in {"Production", "Archived"}
                      /\ \A v \in Of(t) : registry[v].f1 <= registry[best[t]].f1
    BY DEF BestIsPromoted
  <2>1. best[t] \in Versions /\ registry[best[t]].stage # "None"
    BY DEF IInv, BestOK, Of
  <2>2. registry[best[t]].stage \in Stages
    <3>1. registry[best[t]] \in Version
      BY <2>1 DEF IInv, TypeOK, Versions
    <3> QED
      BY <3>1 DEF Version
  <2>3. \A v \in Of(t) : registry[v].f1 <= registry[best[t]].f1
    BY DEF IInv, Graded
  <2> QED
    BY <2>1, <2>2, <2>3 DEF Stages
<1> QED
  BY Invariance, <1>1, PTL

-----------------------------------------------------------------------------
(* What readers of the registry rely on *)

\* No step of the notebook takes a version away, changes who logged it, loses its scaler or
\* returns it to stage None; and once Production is taken it stays taken.
LEMMA RegistryGrows ==
    ASSUME IInv, NEW t \in Trainings, Train(t)
    PROVE  /\ Len(registry) <= Len(registry')
           /\ \A v \in Versions : /\ v \in Versions' /\ registry'[v].by = registry[v].by
                                  /\ registry[v].scaler => registry'[v].scaler
                                  /\ registry[v].stage # "None" => registry'[v].stage # "None"
           /\ InStage("Production") # {} => InStage("Production")' # {}
<1> USE DEF Versions, InStage
<1>1. IInv' /\ registry \in Seq(Version) /\ registry' \in Seq(Version) /\ Len(registry) \in Nat
  <2>1. IInv'
    BY StepIInv DEF TNext
  <2> QED
    BY <2>1 DEF IInv, TypeOK
<1>2. CASE UNCHANGED registry
  BY <1>1, <1>2
<1>3. CASE LogModel(t)
  <2>1. PICK f \in F1Values :
            registry' = Append(registry, [by |-> t, f1 |-> f, scaler |-> FALSE, stage |-> "None"])
    BY <1>3 DEF LogModel
  <2>2. Len(registry') = Len(registry) + 1 /\ \A v \in Versions : registry'[v] = registry[v]
    BY <1>1, <2>1
  <2> QED
    BY <1>1, <2>2
<1>4. CASE LogScaler(t)
  <2> DEFINE m == Max(Of(t))
  <2>1. registry' = [registry EXCEPT ![m].scaler = TRUE]
    BY <1>4 DEF LogScaler
  <2>2. DOMAIN registry' = DOMAIN registry
    BY <2>1
  <2>3. Len(registry') = Len(registry)
    BY <1>1, <2>2
  <2> HIDE DEF m
  <2>4. ASSUME NEW v \in Versions
        PROVE  /\ registry'[v].by = registry[v].by /\ registry'[v].stage = registry[v].stage
               /\ registry[v].scaler => registry'[v].scaler
    <3>1. registry[v] \in Version /\ v \in DOMAIN registry
      BY <1>1
    <3>2. CASE v = m
      <4>1. registry'[v] = [registry[v] EXCEPT !.scaler = TRUE]
        BY <2>1, <3>1, <3>2
      <4> QED
        BY <3>1, <4>1 DEF Version
    <3>3. CASE v # m
      <4>1. registry'[v] = registry[v]
        BY <2>1, <3>1, <3>3
      <4> QED
        BY <4>1
    <3> QED
      BY <3>2, <3>3
  <2> QED
    BY <1>1, <2>3, <2>4
<1>5. CASE Promote(t)
  <2> DEFINE b == best[t]
  <2>1. step[t] = "promote" /\ registry' = Transition(b)
    BY <1>5 DEF Promote, Candidate
  <2>2. b \in Versions
    BY <2>1 DEF IInv, BestOK, Of
  <2>3. DOMAIN registry' = Versions /\ DOMAIN registry = Versions
    BY <1>1, <2>1 DEF Transition
  <2>4. Len(registry') = Len(registry)
    BY <1>1, <2>3
  <2>5. ASSUME NEW v \in Versions
        PROVE  /\ registry'[v].by = registry[v].by /\ registry'[v].scaler = registry[v].scaler
               /\ registry[v].stage # "None" => registry'[v].stage # "None"
               /\ v = b => registry'[v].stage = "Production"
    <3>1. registry[v] \in Version
      BY <1>1
    <3>2. registry'[v] = IF v = b THEN [registry[v] EXCEPT !.stage = "Production"]
                         ELSE IF registry[v].stage = "Production"
                              THEN [registry[v] EXCEPT !.stage = "Archived"]
                              ELSE registry[v]
      BY <2>1 DEF Transition
    <3> QED
      BY <3>1, <3>2 DEF Version
  <2> QED
    BY <1>1, <2>2, <2>4, <2>5
<1> QED
  BY <1>2, <1>3, <1>4, <1>5 DEF Train, Start, Compare, CompareRaises, Die

\* Production is 0 exactly when no version has that stage, and such a version otherwise.
LEMMA ProductionIsInStage ==
    ASSUME TypeOK
    PROVE  IF InStage("Production") = {} THEN Production = 0
           ELSE Production \in InStage("Production") /\ Production # 0
<1>1. CASE InStage("Production") = {}
  BY <1>1 DEF Production
<1>2. CASE InStage("Production") # {}
  <2>1. Len(registry) \in Nat /\ InStage("Production") \subseteq 1 .. Len(registry)
    BY DEF TypeOK, InStage, Versions
  <2>2. Max(InStage("Production")) \in InStage("Production")
    BY <1>2, <2>1, MaxInSet
  <2> QED
    BY <1>2, <2>1, <2>2 DEF Production
<1> QED
  BY <1>1, <1>2

-----------------------------------------------------------------------------
(* The workers *)

\* A worker that found a version in Production when it began: there is one ever after.
SeenStays == \A w \in Workers : seen[w] # 0 => InStage("Production") # {}

\* What a load has read so far is there, with its scaler; what it leaves is of one kind.
LoadedSoFar ==
    \A w \in Workers :
        /\ load[w] = "run" => model[w] # 0
        /\ load[w] = "scaler" =>
              model[w] # 0 /\ run[w] # 0 /\ run[w] \in Versions /\ registry[run[w]].scaler
        /\ load[w] \in {"risk", "ready"} =>
              /\ model[w] = 0 <=> scaler[w] = 0
              /\ seen[w] # 0 /\ ~failed[w] => model[w] # 0

\* Without a promotion in between, each call of a load finds what the one before it found.
SameVersion ==
    \A w \in Workers : ~moved[w] =>
        /\ load[w] = "run" => model[w] = Production
        /\ load[w] = "scaler" => model[w] = run[w]
        /\ load[w] \in {"risk", "ready"} => model[w] = scaler[w] /\ run[w] = model[w]

LInv == IInv /\ LoadTypeOK /\ SeenStays /\ LoadedSoFar /\ SameVersion

LEMMA InitLInv == Init => LInv
<1> SUFFICES ASSUME Init PROVE LInv
  OBVIOUS
<1>1. IInv
  BY InitIInv DEF Init
<1>2. LoadTypeOK
  BY <1>1 DEF Init, LoadTypeOK, IInv, LoadStates, RiskStates
<1> QED
  BY <1>1, <1>2 DEF Init, LInv, SeenStays, LoadedSoFar, SameVersion

\* A step of the notebook leaves a load what it has, and tells it of a promotion.
LEMMA TrainKeepsLInv ==
    ASSUME LInv, NEW t \in Trainings, TrainStep(t)
    PROVE  LInv'
<1>1. Train(t) /\ UNCHANGED <<load, model, run, scaler, risk, seen, failed>>
  BY DEF TrainStep, memory
<1>2. IInv'
  BY <1>1, StepIInv DEF TNext, LInv
<1>3. /\ \A v \in Versions : /\ v \in Versions'
                             /\ registry[v].scaler => registry'[v].scaler
      /\ InStage("Production") # {} => InStage("Production")' # {}
  BY <1>1, RegistryGrows DEF LInv
<1>4. /\ moved' \in [Workers -> BOOLEAN]
      /\ \A w \in Workers : ~moved'[w] =>
            /\ ~moved[w]
            /\ load[w] \in {"model", "run", "scaler"} =>
                  InStage("Production")' = InStage("Production")
  BY DEF TrainStep, LInv, LoadTypeOK
<1>5. LoadTypeOK'
  BY <1>1, <1>2, <1>3, <1>4 DEF LInv, LoadTypeOK, IInv
<1>6. SeenStays'
  BY <1>1, <1>3 DEF LInv, SeenStays
<1>7. LoadedSoFar'
  BY <1>1, <1>3 DEF LInv, LoadedSoFar
<1>8. SameVersion'
  BY <1>1, <1>4 DEF LInv, SameVersion, Production
<1> QED
  BY <1>2, <1>5, <1>6, <1>7, <1>8 DEF LInv

\* A step of a worker: the registry does not change, nor does any other worker.
LEMMA WorkerKeepsLInv ==
    ASSUME LInv, NEW w \in Workers, LoadStep(w) \/ Restart(w)
    PROVE  LInv'
<1> USE DEF LoadStates, RiskStates
<1>1. UNCHANGED tvars
  BY DEF LoadStep, Boot, LoadModel, ReadRun, LoadScaler, LoadRaises, LoadRisk, Restart
<1>2. /\ IInv' /\ TypeOK' /\ Versions' = Versions /\ InStage("Production")' = InStage("Production")
      /\ Production' = Production /\ registry' = registry
  <2>1. IInv'
    BY <1>1, StepIInv DEF LInv
  <2>2. registry' = registry
    BY <1>1 DEF tvars
  <2> QED
    BY <2>1, <2>2 DEF IInv, Versions, InStage, Production
<1>3. /\ Production \in {0} \cup Versions
      /\ Production # 0 <=> InStage("Production") # {}
      /\ Production # 0 => registry[Production].scaler
  <2>1. IF InStage("Production") = {} THEN Production = 0
        ELSE Production \in InStage("Production") /\ Production # 0
    BY ProductionIsInStage DEF LInv, IInv
  <2> QED
    BY <2>1 DEF LInv, IInv, PromotedOK, InStage
<1>4. /\ load \in [Workers -> LoadStates] /\ model \in [Workers -> {0} \cup Versions]
      /\ run \in [Workers -> {0} \cup Versions] /\ scaler \in [Workers -> {0} \cup Versions]
      /\ seen \in [Workers -> {0} \cup Versions] /\ risk \in [Workers -> RiskStates]
      /\ moved \in [Workers -> BOOLEAN] /\ failed \in [Workers -> BOOLEAN]
  BY DEF LInv, LoadTypeOK
\* Types, and one step for each action.
<1>5. /\ load' \in [Workers -> LoadStates] /\ model' \in [Workers -> {0} \cup Versions]
      /\ run' \in [Workers -> {0} \cup Versions] /\ scaler' \in [Workers -> {0} \cup Versions]
      /\ seen' \in [Workers -> {0} \cup Versions] /\ risk' \in [Workers -> RiskStates]
      /\ moved' \in [Workers -> BOOLEAN] /\ failed' \in [Workers -> BOOLEAN]
      /\ \A x \in Workers : x # w =>
            /\ load'[x] = load[x] /\ model'[x] = model[x] /\ run'[x] = run[x]
            /\ scaler'[x] = scaler[x] /\ seen'[x] = seen[x] /\ moved'[x] = moved[x]
            /\ failed'[x] = failed[x]
  <2>1. CASE Boot(w)
    BY <2>1, <1>3, <1>4 DEF Boot
  <2>2. CASE LoadModel(w)
    BY <2>2, <1>3, <1>4 DEF LoadModel, history
  <2>3. CASE ReadRun(w)
    BY <2>3, <1>3, <1>4 DEF ReadRun, LatestVersion, history
  <2>4. CASE LoadScaler(w)
    BY <2>4, <1>4 DEF LoadScaler, history
  <2>5. CASE LoadRaises(w)
    <3>1. Missing(w) \in BOOLEAN
      BY DEF Missing, LInv, LoadedSoFar
    <3> QED
      BY <2>5, <3>1, <1>4 DEF LoadRaises, Baseline
  <2>6. CASE LoadRisk(w)
    BY <2>6, <1>4 DEF LoadRisk, history
  <2>7. CASE Restart(w)
    BY <2>7, <1>4 DEF Restart, history, memory
  <2> QED
    BY <2>1, <2>2, <2>3, <2>4, <2>5, <2>6, <2>7 DEF LoadStep
<1>6. LoadTypeOK'
  BY <1>2, <1>5 DEF LoadTypeOK
<1>7. \* what the invariants say of worker w itself
      /\ seen'[w] # 0 => InStage("Production") # {}
      /\ load'[w] = "run" => model'[w] # 0
      /\ load'[w] = "scaler" =>
            model'[w] # 0 /\ run'[w] # 0 /\ run'[w] \in Versions /\ registry[run'[w]].scaler
      /\ load'[w] \in {"risk", "ready"} =>
            /\ model'[w] = 0 <=> scaler'[w] = 0
            /\ seen'[w] # 0 /\ ~failed'[w] => model'[w] # 0
      /\ ~moved'[w] =>
            /\ load'[w] = "run" => model'[w] = Production
            /\ load'[w] = "scaler" => model'[w] = run'[w]
            /\ load'[w] \in {"risk", "ready"} => model'[w] = scaler'[w] /\ run'[w] = model'[w]
  <2>0. /\ seen[w] # 0 => InStage("Production") # {}
        /\ load[w] = "run" => model[w] # 0
        /\ load[w] = "scaler" =>
              model[w] # 0 /\ run[w] # 0 /\ run[w] \in Versions /\ registry[run[w]].scaler
        /\ load[w] \in {"risk", "ready"} =>
              /\ model[w] = 0 <=> scaler[w] = 0
              /\ seen[w] # 0 /\ ~failed[w] => model[w] # 0
        /\ ~moved[w] =>
              /\ load[w] = "run" => model[w] = Production
              /\ load[w] = "scaler" => model[w] = run[w]
              /\ load[w] \in {"risk", "ready"} => model[w] = scaler[w] /\ run[w] = model[w]
    BY DEF LInv, SeenStays, LoadedSoFar, SameVersion
  <2>1. CASE Boot(w)
    BY <2>1, <1>3, <1>4 DEF Boot
  <2>2. CASE LoadModel(w)
    BY <2>2, <2>0, <1>3, <1>4 DEF LoadModel, history
  <2>3. CASE ReadRun(w)
    BY <2>3, <2>0, <1>3, <1>4 DEF ReadRun, LatestVersion, history
  <2>4. CASE LoadScaler(w)
    BY <2>4, <2>0, <1>4 DEF LoadScaler, history
  <2>5. CASE LoadRaises(w)
    \* With a version in Production and its scaler, only a failed call ends here.
    <3>1. seen[w] # 0 => ~Missing(w)
      BY <2>0, <1>3 DEF Missing, LatestVersion
    <3>2. /\ load'[w] = "risk" /\ model'[w] = 0 /\ scaler'[w] = 0 /\ run'[w] = 0
          /\ seen' = seen /\ moved' = moved /\ failed'[w] = ~Missing(w)
      BY <2>5, <1>4 DEF LoadRaises, Baseline
    <3> QED
      BY <2>0, <3>1, <3>2
  <2>6. CASE LoadRisk(w)
    BY <2>6, <2>0, <1>4 DEF LoadRisk, history
  <2>7. CASE Restart(w)
    BY <2>7, <2>0, <1>4 DEF Restart, history, memory
  <2> QED
    BY <2>1, <2>2, <2>3, <2>4, <2>5, <2>6, <2>7 DEF LoadStep
<1>8. SeenStays'
  BY <1>2, <1>5, <1>7 DEF SeenStays, LInv
<1>9. LoadedSoFar'
  BY <1>2, <1>5, <1>7 DEF LoadedSoFar, LInv
<1>10. SameVersion'
  BY <1>2, <1>5, <1>7 DEF SameVersion, LInv
<1> QED
  BY <1>2, <1>6, <1>8, <1>9, <1>10 DEF LInv

LEMMA StepLInv == LInv /\ [Next]_vars => LInv'
<1> SUFFICES ASSUME LInv, [Next]_vars PROVE LInv'
  OBVIOUS
<1>1. CASE UNCHANGED vars
  <2>1. IInv'
    BY <1>1, StepIInv DEF LInv, vars
  <2>2. UNCHANGED <<registry, load, model, run, scaler, risk, seen, moved, failed>>
    BY <1>1 DEF vars, tvars, lvars, memory, history
  <2> QED
    BY <2>1, <2>2 DEF LInv, IInv, LoadTypeOK, SeenStays, LoadedSoFar, SameVersion, InStage, Versions,
                      Production
<1> QED
  BY <1>1, TrainKeepsLInv, WorkerKeepsLInv DEF Next

LEMMA LoadInvariance == Spec => []LInv
BY InitLInv, StepLInv, PTL DEF Spec

\* Whatever fails, restarts or is promoted while a worker loads: it never serves half of the
\* baseline, it serves one run unless a promotion came in between, and it falls back to the
\* baseline only when a call to MLflow failed or nothing was in Production.
THEOREM WorkersLoadSoundly == Spec => []LoadInvariant
<1>1. LInv => LoadInvariant
  BY DEF LInv, LoadInvariant, LoadedSoFar, SameVersion, NeverHalfBaseline, OneRunUnlessPromoted,
         ProductionIsServed, Ready
<1> QED
  BY LoadInvariance, <1>1, PTL

\* The workers only read the registry: what they run beside is an execution of the notebooks
\* alone, so that everything proved of TrainingSpec holds for them.
THEOREM LoadingOnlyReads == Spec => TrainingSpec
<1>1. Init => TInit
  BY DEF Init
<1>2. ASSUME [Next]_vars PROVE [TNext]_tvars
  <2>1. ASSUME NEW w \in Workers, LoadStep(w) \/ Restart(w) PROVE UNCHANGED tvars
    BY <2>1 DEF LoadStep, Boot, LoadModel, ReadRun, LoadScaler, LoadRaises, LoadRisk, Restart
  <2>2. ASSUME NEW t \in Trainings, TrainStep(t) PROVE TNext
    BY <2>2 DEF TrainStep, TNext
  <2>3. CASE UNCHANGED vars
    BY <2>3 DEF vars
  <2> QED
    BY <1>2, <2>1, <2>2, <2>3 DEF Next
<1> QED
  BY <1>1, <1>2, PTL DEF Spec, TrainingSpec

-----------------------------------------------------------------------------
(* The evaluation *)

\* A column beyond the threshold is enough to retrain.
LEMMA BeyondRetrains ==
    ASSUME NEW r \in Readings, NEW c \in DOMAIN r.psi, r.psi[c] > PsiThreshold
    PROVE  ShouldRetrain(r)
<1> DEFINE psi == r.psi
           S == {0} \cup {psi[d] : d \in DOMAIN psi}
           val(d) == IF d \in DOMAIN psi THEN psi[d] ELSE 0
           n == val("anomaly_score") + val("risk_score") + val("confidence")
<1>1. \A d \in DOMAIN psi : d \in ScoreColumns /\ psi[d] \in Nat
  BY DriftAssumption
<1>2. /\ val("anomaly_score") \in Nat /\ val("risk_score") \in Nat /\ val("confidence") \in Nat
      /\ \A d \in DOMAIN psi : psi[d] = val(d)
  BY <1>1
<1>3. n \in Nat /\ \A d \in DOMAIN psi : psi[d] <= n
  <2> HIDE DEF val
  <2> QED
    BY <1>1, <1>2 DEF ScoreColumns
<1>4. S \subseteq 0 .. n /\ S # {}
  <2> HIDE DEF n
  <2> QED
    BY <1>1, <1>3
<1>5. Max(S) \in S /\ \A y \in S : y <= Max(S)
  <2> HIDE DEF n, S
  <2> QED
    BY <1>3, <1>4, MaxOfBounded
<1>6. MaxPsi(psi) = Max(S) /\ psi[c] \in S
  BY DEF MaxPsi
<1>7. PsiThreshold \in Nat /\ Max(S) \in Nat /\ psi[c] \in Nat /\ psi[c] <= Max(S)
  <2>1. psi[c] <= Max(S) /\ Max(S) \in 0 .. n
    <3> HIDE DEF n, S
    <3> QED
      BY <1>4, <1>5, <1>6
  <2> HIDE DEF n, S
  <2> QED
    BY <1>1, <1>3, <2>1, DriftAssumption
<1> QED
  <2> HIDE DEF S
  <2>1. Max(S) > PsiThreshold
    BY <1>7
  <2> QED
    BY <1>6, <2>1 DEF ShouldRetrain

\* What the notebook knows where it stands: rows are its last act, and stand for what it had
\* measured and decided.
RowsAreLast ==
    \/ rows = NoRows
    \/ /\ evaluation = "done"
       /\ rows = [c \in DOMAIN metrics |->
                     [level |-> Level(metrics[c]), retrain_triggered |-> retrain]]

\* An evaluation that decided to retrain gets past its wait only by an execution that ended.
DecidedIsRun ==
    retrain /\ evaluation \in {"scoring", "writing", "done"} => step[Triggered] = "done"

\* The decision is about the metrics at hand.
DecidedOnMetrics ==
    /\ metrics \in {r.psi : r \in Readings} \cup {<<>>}
    /\ \A c \in DOMAIN metrics :
          metrics[c] \in Nat /\ (metrics[c] > PsiThreshold => retrain)

DInv ==
    /\ IInv
    /\ evaluation \in DriftSteps /\ retrain \in BOOLEAN
    /\ evaluation # "done" => rows = NoRows
    /\ RowsAreLast /\ DecidedIsRun /\ DecidedOnMetrics

LEMMA InitDInv == DriftInit => DInv
<1> SUFFICES ASSUME DriftInit PROVE DInv
  OBVIOUS
<1>1. IInv
  BY InitIInv DEF DriftInit
<1>2. metrics = <<>> /\ DOMAIN metrics = {}
  BY DEF DriftInit
<1> QED
  BY <1>1, <1>2 DEF DriftInit, DInv, DriftSteps, RowsAreLast, DecidedIsRun, DecidedOnMetrics

LEMMA StepDInv == DInv /\ [DriftNext]_driftVars => DInv'
<1> SUFFICES ASSUME DInv, [DriftNext]_driftVars PROVE DInv'
  OBVIOUS
<1> USE DEF DInv, DriftSteps
<1>0. Triggered \in Trainings /\ step \in [Trainings -> Steps]
  BY DriftAssumption DEF IInv, TypeOK
<1>1. ASSUME NEW r \in Readings, Evaluate(r) PROVE DInv'
  <2>1. evaluation = "idle" /\ UNCHANGED <<tvars, rows>> /\ rows = NoRows
    BY <1>1 DEF Evaluate
  <2>2. IInv'
    BY <2>1, StepIInv
  <2>3. CASE r.alerts = 0
    BY <1>1, <2>1, <2>2, <2>3 DEF Evaluate, RowsAreLast, DecidedIsRun, DecidedOnMetrics
  <2>4. CASE r.alerts # 0
    <3>1. /\ metrics' = r.psi /\ retrain' = ShouldRetrain(r)
          /\ evaluation' = IF retrain' THEN "decided" ELSE "writing"
      BY <1>1, <2>4 DEF Evaluate
    <3>2. ShouldRetrain(r) \in BOOLEAN
      BY DEF ShouldRetrain
    <3>3. DecidedOnMetrics'
      <4>1. \A c \in DOMAIN r.psi : r.psi[c] \in Nat /\ (r.psi[c] > PsiThreshold => ShouldRetrain(r))
        BY BeyondRetrains, DriftAssumption
      <4> QED
        BY <3>1, <4>1 DEF DecidedOnMetrics
    <3> QED
      BY <2>1, <2>2, <3>1, <3>2, <3>3 DEF RowsAreLast, DecidedIsRun
  <2> QED
    BY <2>3, <2>4
<1>2. CASE RunTraining
  <2>1. /\ evaluation = "decided" /\ evaluation' = "retraining" /\ Start(Triggered)
        /\ UNCHANGED <<metrics, retrain, rows>>
    BY <1>2 DEF RunTraining
  <2>2. IInv'
    BY <1>0, <2>1, StepIInv DEF TNext, Train
  <2> QED
    BY <2>1, <2>2 DEF RowsAreLast, DecidedIsRun, DecidedOnMetrics
<1>3. CASE TrainingEnded \/ RunScoring
  <2>1. /\ UNCHANGED <<tvars, metrics, retrain, rows>>
        /\ \/ evaluation' = "failed" /\ evaluation # "done"
           \/ evaluation = "retraining" /\ evaluation' = "scoring" /\ step[Triggered] = "done"
           \/ evaluation = "scoring" /\ evaluation' = "writing"
    BY <1>3 DEF TrainingEnded, RunScoring
  <2>2. IInv' /\ step' = step
    BY <2>1, StepIInv DEF tvars, notebook
  <2> QED
    BY <2>1, <2>2 DEF RowsAreLast, DecidedIsRun, DecidedOnMetrics
<1>4. CASE WriteRows
  <2>1. /\ evaluation = "writing" /\ evaluation' = "done" /\ UNCHANGED <<tvars, metrics, retrain>>
        /\ \/ rows' = NoRows
           \/ rows' = [c \in DOMAIN metrics |->
                          [level |-> Level(metrics[c]), retrain_triggered |-> retrain]]
    BY <1>4 DEF WriteRows
  <2>2. IInv' /\ step' = step
    BY <2>1, StepIInv DEF tvars, notebook
  <2>3. RowsAreLast'
    BY <2>1 DEF RowsAreLast, Level
  <2> QED
    BY <2>1, <2>2, <2>3 DEF DecidedIsRun, DecidedOnMetrics
<1>5. ASSUME NEW t \in Trainings, Training(t) PROVE DInv'
  <2>1. Train(t) /\ UNCHANGED <<evaluation, metrics, retrain, rows>>
    BY <1>5 DEF Training, dvars
  <2>2. IInv'
    BY <2>1, StepIInv DEF TNext
  <2>3. step[Triggered] = "done" => step'[Triggered] = "done"
    BY <1>0, <2>1 DEF Train, Start, LogModel, LogScaler, Promote, Compare, CompareRaises, Die
  <2> QED
    BY <2>1, <2>2, <2>3 DEF RowsAreLast, DecidedIsRun, DecidedOnMetrics, Level
<1>6. CASE UNCHANGED driftVars
  <2>1. UNCHANGED <<tvars, step, evaluation, metrics, retrain, rows>>
    BY <1>6 DEF driftVars, dvars, tvars, notebook
  <2>2. IInv'
    BY <2>1, StepIInv
  <2> QED
    BY <2>1, <2>2 DEF RowsAreLast, DecidedIsRun, DecidedOnMetrics, Level
<1> QED
  BY <1>1, <1>2, <1>3, <1>4, <1>5, <1>6 DEF DriftNext, Drifting

\* The drift table tells the truth: a row that announces a retraining stands for an execution
\* that went through its grid and promoted a version, and no column beyond the threshold is
\* reported by an evaluation that did not retrain.
THEOREM DriftTableIsTrue == DriftSpec => []DriftInvariant
<1>1. ASSUME DInv PROVE DriftInvariant
  <2> USE <1>1 DEF DInv
  <2>0. Triggered \in Trainings /\ PsiThreshold \in Nat
    BY DriftAssumption
  <2>1. CASE rows = NoRows
    BY <2>1 DEF DriftInvariant, DriftTypeOK, AnnouncedIsRetrained, CriticalIsRetrained, IInv,
                DecidedOnMetrics
  <2>2. CASE rows # NoRows
    <3>1. /\ evaluation = "done" /\ DOMAIN rows = DOMAIN metrics
          /\ \A c \in DOMAIN rows : /\ rows[c].level = Level(metrics[c])
                                    /\ rows[c].retrain_triggered = retrain
      BY <2>2 DEF RowsAreLast
    <3>2. DriftTypeOK
      BY <3>1 DEF DriftTypeOK, IInv, DecidedOnMetrics, Level, DriftLevels
    <3>3. ASSUME retrain
          PROVE  /\ step[Triggered] = "done"
                 /\ \E v \in Of(Triggered) : registry[v].stage \in {"Production", "Archived"}
      <4>1. step[Triggered] = "done"
        BY <3>1, <3>3 DEF DecidedIsRun
      <4>2. best[Triggered] \in Of(Triggered) /\ registry[best[Triggered]].stage # "None"
        BY <2>0, <4>1 DEF IInv, BestOK
      <4>3. registry[best[Triggered]].stage \in Stages
        BY <4>2, VersionFields DEF IInv, Of
      <4> QED
        BY <4>1, <4>2, <4>3 DEF Stages
    <3>4. AnnouncedIsRetrained
      BY <3>1, <3>3 DEF AnnouncedIsRetrained
    <3>5. CriticalIsRetrained
      <4> SUFFICES ASSUME NEW c \in DOMAIN rows,
                          rows[c].level = "CRITICAL", metrics[c] # PsiThreshold
                   PROVE  rows[c].retrain_triggered
        BY DEF CriticalIsRetrained
      <4>1. metrics[c] \in Nat /\ (metrics[c] > PsiThreshold => retrain)
        BY <3>1 DEF DecidedOnMetrics
      <4>2. metrics[c] >= PsiThreshold
        BY <3>1 DEF Level
      <4> QED
        BY <2>0, <3>1, <4>1, <4>2
    <3> QED
      BY <3>2, <3>4, <3>5 DEF DriftInvariant
  <2> QED
    BY <2>1, <2>2
<1>2. DriftSpec => []DInv
  BY InitDInv, StepDInv, PTL DEF DriftSpec
<1> QED
  BY <1>1, <1>2, PTL

\* The evaluation does nothing to the registry but start an execution: everything proved of
\* TrainingSpec holds beside it too.
THEOREM EvaluationOnlyStarts == DriftSpec => TrainingSpec
<1>1. DriftInit => TInit
  BY DEF DriftInit
<1>2. ASSUME [DriftNext]_driftVars PROVE [TNext]_tvars
  <2>1. ASSUME NEW r \in Readings, Evaluate(r) PROVE UNCHANGED tvars
    BY <2>1 DEF Evaluate
  <2>2. CASE RunTraining
    BY <2>2, DriftAssumption DEF RunTraining, TNext, Train
  <2>3. CASE TrainingEnded \/ RunScoring \/ WriteRows
    BY <2>3 DEF TrainingEnded, RunScoring, WriteRows
  <2>4. ASSUME NEW t \in Trainings, Training(t) PROVE TNext
    BY <2>4 DEF Training, TNext
  <2>5. CASE UNCHANGED driftVars
    BY <2>5 DEF driftVars
  <2> QED
    BY <1>2, <2>1, <2>2, <2>3, <2>4, <2>5 DEF DriftNext, Drifting
<1> QED
  BY <1>1, <1>2, PTL DEF DriftSpec, TrainingSpec
=============================================================================
