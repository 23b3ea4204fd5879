----------------------------- MODULE GateProofs -----------------------------
(***************************************************************************)
(* What a gate's verdict rests on, for any metrics, answers, spellings,    *)
(* sessions and floors: a promotion on measurements under both arms, a     *)
(* wave-off on evidence against the candidate, an offline promotion on     *)
(* survivors that are a fair sample and on a judge that was checked.       *)
(***************************************************************************)
EXTENDS MissingnessProofs

Exact == \A ref \in DOMAIN results : results[ref].as = "exact"

\* A scorer's answers are under the refs it was given, all spelled alike.
Answered ==
  \A ref \in DOMAIN results :
    /\ ref.item \in attempted /\ ref.arm \in Arms /\ ref = Ref(ref.item, ref.arm)
    /\ results[ref].error \in BOOLEAN
    /\ \A m \in DOMAIN results[ref].metrics : results[ref].metrics[m] \in Int
OneSpelling == \E as \in {"exact", "folded"} : \A ref \in DOMAIN results : results[ref].as = as

\* A pass begins without the answers of the last.
Afresh == phase = "watched" => DOMAIN results = {}

\* Nothing is scored offline before the judges passed.
JudgedFirst == stage = "offline" => judge \in Judges /\ (DOMAIN results # {} => JudgesPass)

\* Sessions of a running stage are recorded, and an offline one has none.
Kept == /\ recorded \in [DOMAIN recorded -> [arm : Arms, calls : SUBSET Tools]]
        /\ stage = "offline" => DOMAIN recorded = {}

\* What was lost to an arm, and the two tests of it that a promotion passed.
LostBy(a)  == {s \in attempted : ~Scored(Ref(s, a))}
OnlyBy(a, b) == Cardinality(LostBy(a) \ LostBy(b))
FairTest ==
  /\ ~(Cardinality(LostBy("candidate") \cup LostBy("incumbent")) * MaxRate.den
         > MaxRate.num * Cardinality(attempted))
  /\ ~(McNemar(OnlyBy("candidate", "incumbent"), OnlyBy("incumbent", "candidate")) * Alpha.den
         < Alpha.num * 2 ^ (OnlyBy("candidate", "incumbent") + OnlyBy("incumbent", "candidate")))
FairByTest == verdict.outcome = "promote" /\ stage = "offline" /\ analyzer = "bootstrap" => FairTest

Setting  == TypeOK /\ Answered /\ OneSpelling /\ JudgedFirst /\ Afresh /\ Kept
GateInv  == Setting /\ MeasuredPromotion /\ GuardrailsAreEstablished /\ WaveOffIsDemonstrated /\ FairByTest
-----------------------------------------------------------------------------
(* Sets of sessions are finite.                                            *)

LEMMA SessionsAreFinite ==
  ASSUME stage \in DOMAIN Analyzers
  PROVE  IsFiniteSet(Sessions)
<1>1. PICK k \in Nat : Sessions = 1..k
  BY GateAssumption DEF Sessions
<1>2. QED
  BY <1>1, FS_Interval

LEMMA AttemptedIsFinite ==
  ASSUME TypeOK, NEW T \in SUBSET attempted
  PROVE  /\ IsFiniteSet(attempted) /\ Cardinality(attempted) \in Nat
         /\ IsFiniteSet(T) /\ Cardinality(T) \in Nat /\ Cardinality(T) <= Cardinality(attempted)
         /\ Cardinality(T) = 0 <=> T = {}
<1>1. IsFiniteSet(Sessions)
  BY SessionsAreFinite DEF TypeOK
<1>2. attempted \in SUBSET Sessions
  BY DEF TypeOK
<1>3. IsFiniteSet(attempted)
  BY <1>1, <1>2, FS_Subset
<1>4. IsFiniteSet(T) /\ Cardinality(T) <= Cardinality(attempted)
  BY <1>3, FS_Subset
<1>5. Cardinality(T) \in Nat /\ Cardinality(attempted) \in Nat
  BY <1>3, <1>4, FS_CardinalityType
<1>6. Cardinality(T) = 0 <=> T = {}
  BY <1>4, FS_EmptySet
<1>7. QED
  BY <1>3, <1>4, <1>5, <1>6

LEMMA ObservedIsAttempted ==
  ASSUME Answered, NEW m, NEW s
  PROVE  /\ Items \subseteq attempted /\ Observed \subseteq Items
         /\ With(m, s) \subseteq attempted /\ Both(m) \subseteq attempted
<1>1. Items \subseteq attempted
  BY DEF Items, Answered
<1>2. Observed \subseteq Items
  BY DEF Observed, Paired
<1>3. With(m, s) \subseteq attempted
  BY <1>1, <1>2 DEF With
<1>4. Both(m) \subseteq attempted
  BY <1>1, <1>2 DEF Both, With
<1>5. QED
  BY <1>1, <1>2, <1>3, <1>4

\* The sample is a number, of no more than was attempted, and nought where one
\* side has nothing.
LEMMA SampleIsNumber ==
  ASSUME TypeOK, Answered, NEW m
  PROVE  /\ Sample(m) \in 0..Cardinality(attempted)
         /\ Sample(m) # 0 => Compared(m) # {}
         /\ Sample(m) # 0 => With(m, "incumbent") # {} /\ With(m, "candidate") # {}
<1> DEFINE A == With(m, "incumbent")
           B == With(m, "candidate")
<1>1. A \in SUBSET attempted /\ B \in SUBSET attempted /\ Both(m) \in SUBSET attempted
  BY ObservedIsAttempted
<1>2. /\ Cardinality(attempted) \in Nat
      /\ Cardinality(A) \in Nat /\ Cardinality(A) <= Cardinality(attempted) /\ (Cardinality(A) = 0 <=> A = {})
      /\ Cardinality(B) \in Nat /\ Cardinality(B) <= Cardinality(attempted) /\ (Cardinality(B) = 0 <=> B = {})
  BY <1>1, AttemptedIsFinite
<1>3. /\ Cardinality(Both(m)) \in Nat /\ Cardinality(Both(m)) <= Cardinality(attempted)
      /\ Cardinality(Both(m)) = 0 <=> Both(m) = {}
  BY <1>1, AttemptedIsFinite
<1>4. Both(m) = A \cap B
  BY DEF Both
<1> HIDE DEF A, B
<1>5. CASE Unpaired
  <2>1. Sample(m) = Smaller(Cardinality(A), Cardinality(B)) /\ Compared(m) = A \X B
    BY <1>5 DEF Sample, Compared, A, B
  <2>2. /\ Sample(m) \in 0..Cardinality(attempted)
        /\ Sample(m) # 0 => Cardinality(A) # 0 /\ Cardinality(B) # 0
    BY <1>2, <2>1 DEF Smaller
  <2>3. ASSUME A # {}, B # {} PROVE A \X B # {}
    <3>1. PICK a \in A, b \in B : TRUE
      BY <2>3
    <3>2. <<a, b>> \in A \X B
      OBVIOUS
    <3>3. QED
      BY <3>2
  <2>4. /\ Sample(m) \in 0..Cardinality(attempted)
        /\ Sample(m) # 0 => Compared(m) # {} /\ A # {} /\ B # {}
    BY <1>2, <2>1, <2>2, <2>3
  <2>5. QED
    BY <2>4 DEF A, B
<1>6. CASE ~Unpaired
  <2>1. Sample(m) = Cardinality(Both(m)) /\ Compared(m) = {<<i, i>> : i \in Both(m)}
    BY <1>6 DEF Sample, Compared
  <2>2. Both(m) # {} => A # {} /\ B # {}
    BY <1>4
  <2>3. Both(m) # {} => Compared(m) # {}
    BY <2>1
  <2>4. /\ Sample(m) \in 0..Cardinality(attempted)
        /\ Sample(m) # 0 => Compared(m) # {} /\ A # {} /\ B # {}
    BY <1>2, <1>3, <2>1, <2>2, <2>3
  <2>5. QED
    BY <2>4 DEF A, B
<1>7. QED
  BY <1>5, <1>6

-----------------------------------------------------------------------------
(* What is measured was scored.                                            *)

\* A folded spelling puts every answer of a running stage on the incumbent's
\* side: one on the candidate's is evidence that they are spelled exactly.
LEMMA CandidateSideIsExact ==
  ASSUME Answered, OneSpelling, NEW m, stage # "offline", With(m, "candidate") # {}
  PROVE  Exact
<1>1. PICK i \in Observed : m \in DOMAIN LiveMetrics(i, "candidate")
  BY DEF With, Measured
<1>2. OnSide(i, "candidate") # {}
  <2>1. DOMAIN Nothing = {}
    BY DEF Nothing
  <2>2. QED
    BY <1>1, <2>1 DEF LiveMetrics
<1>3. PICK ref \in DOMAIN results : SideOf(ref) = "candidate"
  BY <1>2 DEF OnSide
<1>4. results[ref].as = "exact"
  BY <1>3 DEF SideOf
<1>5. QED
  BY <1>4 DEF OneSpelling, Exact

\* A session an analyzer sees under an arm was scored under that arm.
LEMMA MeasuredWasScored ==
  ASSUME Answered, stage = "offline" \/ Exact, NEW m, NEW s \in Arms, NEW i \in With(m, s)
  PROVE  \E r \in Of(m, s) : r.item = i /\ Value(r, m) = Measured(i, s)[m]
<1>1. i \in Observed /\ m \in DOMAIN Measured(i, s)
  BY DEF With
<1>2. CASE stage = "offline"
  <2> DEFINE r == Ref(i, s)
  <2>1. Scored(r) /\ Measured(i, s) = results[r].metrics
    BY <1>1, <1>2 DEF Observed, Paired, Complete, Measured
  <2>2. r.item = i /\ r.arm = s
    BY DEF Ref
  <2>3. r \in DOMAIN results
    BY <2>1 DEF Scored
  <2> HIDE DEF r
  <2>4. QED
    BY <1>1, <2>1, <2>2, <2>3 DEF Of, Value
<1>3. CASE stage # "offline"
  <2> DEFINE r == CHOOSE ref \in OnSide(i, s) : TRUE
  <2>1. Measured(i, s) = LiveMetrics(i, s) /\ Exact
    BY <1>3 DEF Measured
  <2>2. OnSide(i, s) # {} /\ Measured(i, s) = results[r].metrics
    <3>1. DOMAIN Nothing = {}
      BY DEF Nothing
    <3>2. QED
      BY <1>1, <2>1, <3>1 DEF LiveMetrics
  <2>3. r \in OnSide(i, s)
    BY <2>2
  <2> HIDE DEF r
  <2>4. r \in DOMAIN results /\ r.item = i /\ Scored(r) /\ SideOf(r) = s
    BY <2>3 DEF OnSide
  <2>5. r.arm = s
    BY <2>1, <2>4 DEF SideOf, Exact, Answered, Arms
  <2>6. QED
    BY <1>1, <2>2, <2>4, <2>5 DEF Of, Value
<1>4. QED
  BY <1>2, <1>3

LEMMA ValuesAreNumbers ==
  ASSUME Answered, NEW m, NEW a, NEW r \in Of(m, a)
  PROVE  Value(r, m) \in Int
BY DEF Answered, Of, Value

\* What is compared is a score of the candidate and one of the incumbent that may
\* be compared.
LEMMA ComparedWereScored ==
  ASSUME TypeOK, Answered, OneSpelling, NEW m, NEW p \in Compared(m)
  PROVE  \E c \in Of(m, "candidate"), i \in Of(m, "incumbent") :
           /\ stage = "live" \/ c.item = i.item
           /\ Value(c, m) = Measured(p[2], "candidate")[m] /\ Value(c, m) \in Int
           /\ Value(i, m) = Measured(p[1], "incumbent")[m] /\ Value(i, m) \in Int
<1>1. p[1] \in With(m, "incumbent") /\ p[2] \in With(m, "candidate") /\ (Unpaired \/ p[1] = p[2])
  <2>1. CASE Unpaired
    BY <2>1 DEF Compared
  <2>2. CASE ~Unpaired
    BY <2>2 DEF Compared, Both
  <2>3. QED
    BY <2>1, <2>2
<1>2. stage = "offline" \/ Exact
  BY <1>1, CandidateSideIsExact
<1>3. PICK c \in Of(m, "candidate") :
        c.item = p[2] /\ Value(c, m) = Measured(p[2], "candidate")[m]
  BY <1>1, <1>2, MeasuredWasScored DEF Arms
<1>4. PICK i \in Of(m, "incumbent") :
        i.item = p[1] /\ Value(i, m) = Measured(p[1], "incumbent")[m]
  BY <1>1, <1>2, MeasuredWasScored DEF Arms
<1>5. stage = "live" \/ c.item = i.item
  BY <1>1, <1>3, <1>4 DEF Unpaired
<1>6. Value(c, m) \in Int /\ Value(i, m) \in Int
  BY ValuesAreNumbers
<1>7. QED
  BY <1>3, <1>4, <1>5, <1>6

-----------------------------------------------------------------------------
(* A reading is evidence.                                                  *)

LEMMA MetricFields ==
  ASSUME TypeOK, NEW m \in DOMAIN gate
  PROVE  gate[m].test \in {"interval", "threshold"} /\ gate[m].direction \in {"higher", "lower"}
         /\ gate[m].bound \in Int
BY GateAssumption DEF TypeOK

\* A reading is one of four, and "unmeasured" exactly where nothing is compared.
LEMMA ReadingType ==
  ASSUME NEW m, NEW f \in Readings(m)
  PROVE  /\ f \in {"acceptable", "worse", "straddles", "unmeasured"}
         /\ f = "unmeasured" <=> Sample(m) = 0
BY DEF Readings, Threshold, Percentile, ConfidenceSequence, Sides

\* What a reading says of the differences or, of a threshold, of every value.
LEMMA ReadingMeans ==
  ASSUME NEW m, NEW f \in Readings(m)
  PROVE  /\ Sample(m) # 0 /\ gate[m].test = "threshold" => f \in Threshold(m)
         /\ gate[m].test # "threshold" /\ f = "acceptable" => \E d \in Differences(m) : Acceptable(m, d)
         /\ gate[m].test # "threshold" /\ f = "worse" => \E d \in Differences(m) : Worse(m, d)
BY DEF Readings, Percentile, ConfidenceSequence, Sides

LEMMA DifferenceIsEvidence ==
  ASSUME TypeOK, Answered, OneSpelling, NEW m \in DOMAIN gate, gate[m].test # "threshold",
         NEW d \in Differences(m)
  PROVE  /\ Acceptable(m, d) => Evidence(m, TRUE)
         /\ Worse(m, d) => Evidence(m, FALSE)
<1>1. PICK p \in Compared(m) : d = Measured(p[2], "candidate")[m] - Measured(p[1], "incumbent")[m]
  BY DEF Differences
<1>2. PICK c \in Of(m, "candidate"), i \in Of(m, "incumbent") :
        /\ stage = "live" \/ c.item = i.item
        /\ d = Value(c, m) - Value(i, m) /\ d \in Int
  <2>1. PICK c \in Of(m, "candidate"), i \in Of(m, "incumbent") :
           /\ stage = "live" \/ c.item = i.item
           /\ Value(c, m) = Measured(p[2], "candidate")[m] /\ Value(c, m) \in Int
           /\ Value(i, m) = Measured(p[1], "incumbent")[m] /\ Value(i, m) \in Int
    BY ComparedWereScored
  <2>2. d = Value(c, m) - Value(i, m)
    BY <1>1, <2>1
  <2>3. d \in Int
    BY <2>1, <2>2
  <2>4. QED
    BY <2>1, <2>2, <2>3
<1>3. gate[m].direction \in {"higher", "lower"} /\ gate[m].bound \in Int
  BY MetricFields
<1> DEFINE t == gate[m].bound
           up == gate[m].direction = "higher"
<1>4. Acceptable(m, d) => Evidence(m, TRUE)
  <2>1. Acceptable(m, d) => IF up THEN d > t ELSE d < t
    BY <1>3 DEF Acceptable
  <2>2. QED
    BY <1>2, <2>1 DEF Evidence
<1>5. Worse(m, d) => Evidence(m, FALSE)
  <2>1. Worse(m, d) => ~(IF up THEN d > t ELSE d < t) /\ d # t
    BY <1>2, <1>3 DEF Worse
  <2>2. QED
    BY <1>2, <2>1 DEF Evidence
<1>6. QED
  BY <1>4, <1>5

LEMMA ThresholdIsEvidence ==
  ASSUME TypeOK, Answered, OneSpelling, NEW m \in DOMAIN gate, gate[m].test = "threshold",
         Compared(m) # {}
  PROVE  /\ "acceptable" \in Threshold(m) => Evidence(m, TRUE)
         /\ "worse" \in Threshold(m) => Evidence(m, FALSE)
<1> DEFINE t == gate[m].bound
           up == gate[m].direction = "higher"
           val(p) == Measured(p[2], "candidate")[m]
           within(v) == IF up THEN v >= t ELSE v <= t
<1>1. gate[m].direction \in {"higher", "lower"} /\ t \in Int
  BY MetricFields
<1>2. ASSUME NEW p \in Compared(m)
      PROVE  \E c \in Of(m, "candidate"), i \in Of(m, "incumbent") :
               (stage = "live" \/ c.item = i.item) /\ Value(c, m) = val(p) /\ val(p) \in Int
  <2>1. PICK c \in Of(m, "candidate"), i \in Of(m, "incumbent") :
           /\ stage = "live" \/ c.item = i.item
           /\ Value(c, m) = Measured(p[2], "candidate")[m] /\ Value(c, m) \in Int
           /\ Value(i, m) = Measured(p[1], "incumbent")[m] /\ Value(i, m) \in Int
    BY ComparedWereScored
  <2>2. QED
    BY <2>1
<1>3. /\ "acceptable" \in Threshold(m) => \A p \in Compared(m) : within(val(p))
      /\ "worse" \in Threshold(m) => \E p \in Compared(m) : ~within(val(p))
  BY <1>1 DEF Threshold
<1>4. ASSUME NEW p \in Compared(m), within(val(p)) PROVE Evidence(m, TRUE)
  <2>1. PICK c \in Of(m, "candidate"), i \in Of(m, "incumbent") :
               (stage = "live" \/ c.item = i.item) /\ Value(c, m) = val(p) /\ val(p) \in Int
    BY <1>2
  <2>2. IF up THEN Value(c, m) > t \/ Value(c, m) = t ELSE Value(c, m) < t \/ Value(c, m) = t
    BY <1>1, <1>4, <2>1
  <2>3. QED
    BY <2>1, <2>2 DEF Evidence
<1>5. ASSUME NEW p \in Compared(m), ~within(val(p)) PROVE Evidence(m, FALSE)
  <2>1. PICK c \in Of(m, "candidate"), i \in Of(m, "incumbent") :
               (stage = "live" \/ c.item = i.item) /\ Value(c, m) = val(p) /\ val(p) \in Int
    BY <1>2
  <2>2. ~(IF up THEN Value(c, m) > t ELSE Value(c, m) < t) /\ Value(c, m) # t
    BY <1>1, <1>5, <2>1
  <2>3. QED
    BY <2>1, <2>2 DEF Evidence
<1>6. QED
  BY <1>3, <1>4, <1>5

LEMMA ReadingIsEvidence ==
  ASSUME TypeOK, Answered, OneSpelling, NEW m \in DOMAIN gate, NEW f \in Readings(m)
  PROVE  /\ f = "acceptable" => Evidence(m, TRUE)
         /\ f = "worse" => Evidence(m, FALSE)
<1>1. CASE gate[m].test = "threshold"
  <2>1. f \in {"acceptable", "worse"} => Sample(m) # 0
    BY ReadingType
  <2>2. Sample(m) # 0 => Compared(m) # {} /\ f \in Threshold(m)
    BY <1>1, SampleIsNumber, ReadingMeans
  <2>3. QED
    BY <1>1, <2>1, <2>2, ThresholdIsEvidence
<1>2. CASE gate[m].test # "threshold"
  BY <1>2, ReadingMeans, DifferenceIsEvidence
<1>3. QED
  BY <1>1, <1>2

-----------------------------------------------------------------------------
(* The decisions.                                                          *)

LEMMA FindingIsReading ==
  ASSUME NEW f \in Findings, NEW m \in DOMAIN gate
  PROVE  f[m] \in Readings(m)
BY DEF Findings

\* The fixed-sample gate promotes on a large enough sample and acceptable metrics,
\* and waves off on a worse one; and the running gate nearly so.
LEMMA DecideMeans ==
  ASSUME TypeOK, NEW f \in Findings, NEW fair
  PROVE  /\ Decide(f, fair) \in Outcomes
         /\ Decide(f, fair) = "promote" =>
              /\ fair /\ Sample(Primary) # 0 /\ ~(Sample(Primary) < floor)
              /\ \A m \in DOMAIN gate : f[m] = "acceptable"
         /\ Decide(f, fair) = "wave-off" => \E m \in DOMAIN gate : f[m] = "worse"
<1>1. Primary \in DOMAIN gate
  BY GateAssumption DEF TypeOK
<1>2. f[Primary] \in {"acceptable", "worse", "straddles", "unmeasured"}
      /\ (f[Primary] = "unmeasured" <=> Sample(Primary) = 0)
  BY <1>1, FindingIsReading, ReadingType
<1>3. DOMAIN gate = Guardrails \cup {Primary}
  BY <1>1 DEF Guardrails
<1>4. Decide(f, fair) \in Outcomes
  BY DEF Decide, Outcomes
<1>5. ASSUME Decide(f, fair) = "promote"
      PROVE  /\ fair /\ Sample(Primary) # 0 /\ ~(Sample(Primary) < floor)
             /\ \A m \in DOMAIN gate : f[m] = "acceptable"
  <2>1. fair /\ Sample(Primary) # 0 /\ ~(Sample(Primary) < floor) /\ f[Primary] = "acceptable"
    BY <1>5 DEF Decide
  <2>2. \A g \in Guardrails : f[g] = "acceptable"
    BY <1>5 DEF Decide
  <2>3. QED
    BY <1>3, <2>1, <2>2
<1>6. ASSUME Decide(f, fair) = "wave-off" PROVE \E m \in DOMAIN gate : f[m] = "worse"
  <2>1. (\E g \in Guardrails : f[g] = "worse")
        \/ (Sample(Primary) # 0 /\ f[Primary] # "straddles" /\ f[Primary] # "acceptable")
    BY <1>6 DEF Decide
  <2>2. QED
    BY <1>1, <1>2, <1>3, <2>1
<1>7. QED
  BY <1>4, <1>5, <1>6

LEMMA DecideSequentialMeans ==
  ASSUME TypeOK, NEW f \in Findings, NEW fair
  PROVE  /\ DecideSequential(f, fair) \in Outcomes
         /\ DecideSequential(f, fair) = "promote" =>
              /\ \A g \in Guardrails : f[g] = "acceptable"
              /\ Sample(Primary) # 0 => f[Primary] = "acceptable"
         /\ DecideSequential(f, fair) = "wave-off" => \E m \in DOMAIN gate : f[m] = "worse"
<1>1. Primary \in DOMAIN gate
  BY GateAssumption DEF TypeOK
<1>2. f[Primary] \in {"acceptable", "worse", "straddles", "unmeasured"}
      /\ (f[Primary] = "unmeasured" <=> Sample(Primary) = 0)
  BY <1>1, FindingIsReading, ReadingType
<1>3. DecideSequential(f, fair) \in Outcomes
  BY DEF DecideSequential, Outcomes
<1>4. ASSUME DecideSequential(f, fair) = "promote"
      PROVE  /\ \A g \in Guardrails : f[g] = "acceptable"
             /\ Sample(Primary) # 0 => f[Primary] = "acceptable"
  <2>1. /\ \A m \in DOMAIN gate : f[m] # "worse"
        /\ f[Primary] # "straddles" /\ \A g \in Guardrails : f[g] = "acceptable"
    BY <1>4 DEF DecideSequential
  <2>2. QED
    BY <1>1, <1>2, <2>1
<1>5. DecideSequential(f, fair) = "wave-off" => \E m \in DOMAIN gate : f[m] = "worse"
  BY DEF DecideSequential
<1>6. QED
  BY <1>3, <1>4, <1>5

-----------------------------------------------------------------------------
(* What a bootstrap promotion counts.                                      *)

\* Under an exact spelling, or offline, a scored item is measured by its own score.
LEMMA ScoredIsMeasured ==
  ASSUME Answered, stage = "offline" \/ Exact, NEW i, NEW s \in Arms, Scored(Ref(i, s))
  PROVE  Measured(i, s) = results[Ref(i, s)].metrics
<1>1. CASE stage = "offline"
  BY <1>1 DEF Measured
<1>2. CASE stage # "offline"
  <2> DEFINE x == Ref(i, s)
  <2>1. \A ref \in DOMAIN results : SideOf(ref) = ref.arm
    BY <1>2 DEF SideOf, Exact, Answered, Arms
  <2>2. x \in DOMAIN results /\ x.item = i /\ x.arm = s
    BY DEF Scored, Ref
  <2>3. x \in OnSide(i, s)
    BY <2>1, <2>2 DEF OnSide
  <2>4. ASSUME NEW ref \in OnSide(i, s) PROVE ref = x
    <3>1. ref \in DOMAIN results /\ ref.item = i /\ ref.arm = s
      BY <2>1, <2>4 DEF OnSide
    <3>2. QED
      BY <3>1 DEF Answered
  <2> HIDE DEF x
  <2>5. OnSide(i, s) = {x}
    BY <2>3, <2>4
  <2>6. LiveMetrics(i, s) = results[x].metrics
    BY <2>5 DEF LiveMetrics
  <2>7. QED
    BY <1>2, <2>6 DEF Measured, x
<1>3. QED
  BY <1>1, <1>2

LEMMA BothIsPairs ==
  ASSUME Answered, stage = "offline" \/ Exact, NEW m
  PROVE  /\ Both(m) \subseteq Pairs(m)
         /\ Pairs(Primary) \cap Pairs(m) \subseteq Both(m)
<1>1. ASSUME NEW i \in Both(m) PROVE i \in Pairs(m)
  <2>1. ASSUME NEW s \in Arms PROVE Ref(i, s) \in Of(m, s)
    <3>1. i \in With(m, s)
      BY DEF Both, Arms
    <3>2. PICK r \in Of(m, s) : r.item = i
      BY <3>1, MeasuredWasScored
    <3>3. r \in DOMAIN results /\ r.arm = s
      BY DEF Of
    <3>4. r = Ref(i, s)
      BY <3>2, <3>3 DEF Answered
    <3>5. QED
      BY <3>4
  <2>2. i \in Items
    BY ObservedIsAttempted DEF Both, With
  <2>3. QED
    BY <2>1, <2>2 DEF Pairs
<1>2. ASSUME NEW i \in Pairs(Primary) \cap Pairs(m) PROVE i \in Both(m)
  <2>1. i \in Items /\ \A s \in Arms : Ref(i, s) \in Of(m, s) /\ Ref(i, s) \in Of(Primary, s)
    BY DEF Pairs
  <2>2. \A s \in Arms : /\ Scored(Ref(i, s)) /\ m \in DOMAIN results[Ref(i, s)].metrics
                        /\ Primary \in DOMAIN results[Ref(i, s)].metrics
    BY <2>1 DEF Of
  <2>3. i \in Observed
    <3>1. CASE stage = "offline"
      BY <2>1, <2>2, <3>1 DEF Observed, Paired, Complete
    <3>2. CASE stage # "offline"
      <4>1. "candidate" \in Arms
        BY DEF Arms
      <4>2. QED
        BY <2>1, <2>2, <3>2, <4>1 DEF Observed
    <3>3. QED
      BY <3>1, <3>2
  <2>4. ASSUME NEW s \in Arms PROVE i \in With(m, s)
    <3>1. Measured(i, s) = results[Ref(i, s)].metrics
      BY <2>2, ScoredIsMeasured
    <3>2. QED
      BY <2>2, <2>3, <3>1 DEF With
  <2>5. QED
    BY <2>4 DEF Both, Arms
<1>3. QED
  BY <1>1, <1>2

\* The bodies of the two properties of promotions, of what n measurements found.
Promotable(n) ==
  /\ n = Cardinality(Pairs(Primary)) /\ n >= floor /\ n > 0
  /\ \A m \in DOMAIN gate : Evidence(m, TRUE)
  /\ \A g \in Guardrails : gate[g].test = "threshold" =>
       \A i \in Pairs(Primary) \cap Pairs(g) :
         LET v == Value(Ref(i, "candidate"), g)
         IN  IF gate[g].direction = "higher" THEN v >= gate[g].bound ELSE v <= gate[g].bound
Established(n) == \A m \in DOMAIN gate : m \in Guardrails \/ n > 0 => Evidence(m, TRUE)

LEMMA BootstrapPromotion ==
  ASSUME Setting, analyzer = "bootstrap", NEW f \in Findings, NEW fair,
         Decide(f, fair) = "promote"
  PROVE  Promotable(Sample(Primary))
<1>1. stage # "live"
  BY GateAssumption DEF Setting, TypeOK
<1>2. /\ Sample(Primary) # 0 /\ ~(Sample(Primary) < floor)
      /\ \A m \in DOMAIN gate : f[m] = "acceptable"
  BY DecideMeans DEF Setting
<1>3. Sample(Primary) \in Nat /\ floor \in Nat
  <2>1. Sample(Primary) \in 0..Cardinality(attempted)
    BY SampleIsNumber DEF Setting
  <2>2. Cardinality(attempted) \in Nat
    BY AttemptedIsFinite DEF Setting
  <2>3. floor \in Nat
    BY GateAssumption DEF Setting, TypeOK
  <2>4. QED
    BY <2>1, <2>2, <2>3
<1>4. stage = "offline" \/ Exact
  BY <1>2, SampleIsNumber, CandidateSideIsExact DEF Setting
<1>5. Sample(Primary) = Cardinality(Pairs(Primary))
  <2>1. Both(Primary) \subseteq Pairs(Primary) /\ Pairs(Primary) \cap Pairs(Primary) \subseteq Both(Primary)
    BY <1>4, BothIsPairs DEF Setting
  <2>2. Both(Primary) = Pairs(Primary)
    BY <2>1
  <2>3. QED
    BY <1>1, <2>2 DEF Sample, Unpaired
<1>6. \A m \in DOMAIN gate : Evidence(m, TRUE)
  BY <1>2, FindingIsReading, ReadingIsEvidence DEF Setting
<1>7. ASSUME NEW g \in Guardrails, gate[g].test = "threshold",
             NEW i \in Pairs(Primary) \cap Pairs(g)
      PROVE  LET v == Value(Ref(i, "candidate"), g)
             IN  IF gate[g].direction = "higher" THEN v >= gate[g].bound ELSE v <= gate[g].bound
  <2>1. g \in DOMAIN gate /\ f[g] = "acceptable" /\ f[g] \in Readings(g)
    BY <1>2, FindingIsReading DEF Guardrails
  <2>2. "acceptable" \in Threshold(g)
    BY <1>7, <2>1, ReadingType, ReadingMeans
  <2>3. i \in Both(g)
    BY <1>4, BothIsPairs DEF Setting
  <2>4. <<i, i>> \in Compared(g)
    BY <1>1, <2>3 DEF Compared, Unpaired
  <2>5. Measured(i, "candidate")[g] = Value(Ref(i, "candidate"), g)
    <3>1. Scored(Ref(i, "candidate"))
      BY DEF Pairs, Of, Arms
    <3>2. QED
      BY <1>4, <3>1, ScoredIsMeasured DEF Setting, Value, Arms
  <2> DEFINE values == {Measured(p[2], "candidate")[g] : p \in Compared(g)}
  <2>6. \A v \in values : IF gate[g].direction = "lower" THEN v <= gate[g].bound ELSE v >= gate[g].bound
    BY <2>2 DEF Threshold
  <2>7. Measured(<<i, i>>[2], "candidate")[g] \in values
    BY <2>4
  <2>8. Value(Ref(i, "candidate"), g) \in values
    BY <2>5, <2>7
  <2>9. gate[g].direction \in {"higher", "lower"}
    BY <2>1, MetricFields DEF Setting
  <2>10. QED
    BY <2>6, <2>8, <2>9
<1>8. Sample(Primary) >= floor /\ Sample(Primary) > 0
  BY <1>2, <1>3
<1>9. QED
  BY <1>5, <1>6, <1>7, <1>8, Zenon DEF Promotable

-----------------------------------------------------------------------------
(* What a promotion lost.                                                  *)

LEMMA DisjointSum ==
  ASSUME NEW A, NEW B, IsFiniteSet(A), IsFiniteSet(B), A \cap B = {}
  PROVE  /\ IsFiniteSet(A \cup B) /\ Cardinality(A) \in Nat /\ Cardinality(B) \in Nat
         /\ Cardinality(A \cup B) = Cardinality(A) + Cardinality(B)
<1>1. IsFiniteSet(A \cup B) /\ Cardinality(A \cup B) = Cardinality(A) + Cardinality(B) - Cardinality(A \cap B)
  BY FS_Union
<1>2. Cardinality(A) \in Nat /\ Cardinality(B) \in Nat
  BY FS_CardinalityType
<1>3. Cardinality(A \cap B) = 0
  BY FS_EmptySet
<1>4. QED
  BY <1>1, <1>2, <1>3

\* Offline, with answers spelled exactly, the items dropped are the sessions lost
\* to either arm: unanswered, unscored, and those that never reached the scorer.
LEMMA DroppedIsLost ==
  ASSUME TypeOK, Answered, Exact
  PROVE  LET m == MissingOffline
         IN  /\ m.attempted = Cardinality(attempted)
             /\ Dropped(m) = Cardinality(LostBy("candidate") \cup LostBy("incumbent"))
             /\ m.candidateOnlyFailed = OnlyBy("candidate", "incumbent")
             /\ m.incumbentOnlyFailed = OnlyBy("incumbent", "candidate")
<1> DEFINE I == {i \in Items : Scored(Ref(i, "incumbent")) /\ results[Ref(i, "incumbent")].as = "exact"}
           C == {i \in Items : Scored(Ref(i, "candidate")) /\ results[Ref(i, "candidate")].as = "exact"}
           A == attempted
           X == Items
           lostI == LostBy("incumbent")
           lostC == LostBy("candidate")
           m == MissingOffline
<1>1. /\ m.attempted = Cardinality(A)
      /\ m.candidateOnlyFailed = Cardinality((I \ C) \cap X)
      /\ m.incumbentOnlyFailed = Cardinality((C \ I) \cap X)
      /\ m.bothFailed = Cardinality(X \ (I \cup C)) + (Cardinality(A) - Cardinality(X))
  BY DEF MissingOffline, DropPattern
<1>2. X \subseteq A /\ I \subseteq X /\ C \subseteq X
  BY ObservedIsAttempted
<1>3. \A i, s : Scored(Ref(i, s)) => i \in X /\ results[Ref(i, s)].as = "exact"
  <2>1. ASSUME NEW i, NEW s, Scored(Ref(i, s)) PROVE i \in X /\ results[Ref(i, s)].as = "exact"
    <3>1. Ref(i, s) \in DOMAIN results
      BY <2>1 DEF Scored
    <3>2. Ref(i, s).item = i
      BY DEF Ref
    <3>3. QED
      BY <3>1, <3>2 DEF Items, Exact
  <2>2. QED
    BY <2>1
<1>4. lostI = A \ I /\ lostC = A \ C
  BY <1>2, <1>3 DEF LostBy
<1>5. IsFiniteSet(A)
  BY AttemptedIsFinite
<1> HIDE DEF I, C, A, X, lostI, lostC, m
<1>6. lostC \ lostI = (I \ C) \cap X /\ lostI \ lostC = (C \ I) \cap X
  BY <1>2, <1>4
<1>7. \A T \in SUBSET A : IsFiniteSet(T)
  BY <1>5, FS_Subset
<1> DEFINE P == (I \ C) \cap X
           Q == (C \ I) \cap X
           N == X \ (I \cup C)
           R == A \ X
<1>8. /\ P \in SUBSET A /\ Q \in SUBSET A /\ N \in SUBSET A /\ R \in SUBSET A /\ X \in SUBSET A
      /\ P \cap Q = {} /\ (P \cup Q) \cap N = {} /\ (P \cup Q \cup N) \cap R = {} /\ X \cap R = {}
      /\ X \cup R = A /\ P \cup Q \cup N \cup R = lostC \cup lostI
  BY <1>2, <1>4
<1>9. P \cup Q \in SUBSET A /\ P \cup Q \cup N \in SUBSET A
  BY <1>8
<1> HIDE DEF P, Q, N, R
<1>10. /\ Cardinality(P \cup Q) = Cardinality(P) + Cardinality(Q)
       /\ Cardinality(P) \in Nat /\ Cardinality(Q) \in Nat
  BY <1>7, <1>8, DisjointSum
<1>11. Cardinality(P \cup Q \cup N) = Cardinality(P \cup Q) + Cardinality(N) /\ Cardinality(N) \in Nat
  BY <1>7, <1>8, <1>9, DisjointSum
<1>12. Cardinality(P \cup Q \cup N \cup R) = Cardinality(P \cup Q \cup N) + Cardinality(R)
       /\ Cardinality(R) \in Nat
  BY <1>7, <1>8, <1>9, DisjointSum
<1>13. Cardinality(A) = Cardinality(X) + Cardinality(R) /\ Cardinality(X) \in Nat
  BY <1>7, <1>8, DisjointSum
<1>14. m.candidateOnlyFailed = Cardinality(P) /\ m.incumbentOnlyFailed = Cardinality(Q)
       /\ m.bothFailed = Cardinality(N) + (Cardinality(A) - Cardinality(X))
  BY <1>1 DEF P, Q, N
<1>15. Dropped(m) = Cardinality(lostC \cup lostI)
  <2>1. Dropped(m) = Cardinality(P) + Cardinality(Q) + (Cardinality(N) + (Cardinality(A) - Cardinality(X)))
    BY <1>14 DEF Dropped
  <2>2. Cardinality(lostC \cup lostI) = Cardinality(P) + Cardinality(Q) + Cardinality(N) + Cardinality(R)
    BY <1>8, <1>10, <1>11, <1>12
  <2>3. QED
    BY <1>10, <1>11, <1>12, <1>13, <2>1, <2>2
<1>16. /\ m.candidateOnlyFailed = OnlyBy("candidate", "incumbent")
       /\ m.incumbentOnlyFailed = OnlyBy("incumbent", "candidate")
  BY <1>6, <1>14 DEF OnlyBy, P, Q, lostI, lostC
<1>17. QED
  BY <1>1, <1>15, <1>16 DEF m, lostI, lostC, A

\* Answers under a folded arm were not seen by missingnessOf: everything counts as
\* dropped, which is more than any policy allows.
LEMMA FoldedIsTooMany ==
  ASSUME TypeOK, Answered, attempted # {}, \A ref \in DOMAIN results : results[ref].as = "folded"
  PROVE  TooMany(MissingOffline)
<1> DEFINE seen(a) == {i \in Items : Scored(Ref(i, a)) /\ results[Ref(i, a)].as = "exact"}
           m == MissingOffline
           k == Cardinality(attempted)
<1>1. \A a : seen(a) = {}
  BY DEF Scored
<1>2. /\ m.attempted = k
      /\ m.candidateOnlyFailed = Cardinality({}) /\ m.incumbentOnlyFailed = Cardinality({})
      /\ m.bothFailed = Cardinality(Items) + (k - Cardinality(Items))
  <2>1. /\ m.attempted = k
        /\ m.candidateOnlyFailed = Cardinality((seen("incumbent") \ seen("candidate")) \cap Items)
        /\ m.incumbentOnlyFailed = Cardinality((seen("candidate") \ seen("incumbent")) \cap Items)
        /\ m.bothFailed = Cardinality(Items \ (seen("incumbent") \cup seen("candidate")))
                            + (k - Cardinality(Items))
    BY DEF MissingOffline, DropPattern
  <2> HIDE DEF seen, m, k
  <2>2. /\ (seen("incumbent") \ seen("candidate")) \cap Items = {}
        /\ (seen("candidate") \ seen("incumbent")) \cap Items = {}
        /\ Items \ (seen("incumbent") \cup seen("candidate")) = Items
    BY <1>1
  <2>3. QED
    BY <2>1, <2>2
<1>3. Cardinality(Items) \in Nat /\ k \in Nat /\ k # 0 /\ Cardinality({}) = 0
  <2>1. Items \in SUBSET attempted /\ attempted \in SUBSET attempted
    BY ObservedIsAttempted
  <2>2. QED
    BY <2>1, AttemptedIsFinite, FS_EmptySet
<1> HIDE DEF m, k
<1>4. Dropped(m) = k
  BY <1>2, <1>3 DEF Dropped
<1>5. k * MaxRate.den > MaxRate.num * k
  <2>1. MaxRate.num \in Nat /\ MaxRate.den \in Nat /\ MaxRate.num < MaxRate.den
    BY GateAssumption DEF Fraction
  <2>2. ASSUME NEW x \in Nat, NEW y \in Nat, NEW z \in Nat, x < y, z # 0 PROVE z * y > x * z
    <3>1. z * (y - x) > 0
      BY <2>2
    <3>2. z * (y - x) = z * y - x * z
      OBVIOUS
    <3>3. z * y \in Int /\ x * z \in Int
      OBVIOUS
    <3>4. QED
      BY <3>1, <3>2, <3>3
  <2>3. QED
    BY <1>3, <2>1, <2>2
<1>6. QED
  BY <1>2, <1>4, <1>5 DEF TooMany, m

\* An offline promotion passed both tests of what was lost.
LEMMA PromotionIsFair ==
  ASSUME Setting, stage = "offline", Sample(Primary) # 0, MissingnessOK(Missingness)
  PROVE  FairTest
<1> DEFINE m == MissingOffline
<1>1. m.attempted = Cardinality(attempted) /\ Missingness = m
  BY DEF MissingOffline, DropPattern, Missingness
<1>2. attempted # {} /\ Cardinality(attempted) # 0
  <2>1. With(Primary, "incumbent") # {} /\ With(Primary, "incumbent") \subseteq attempted
    BY SampleIsNumber, ObservedIsAttempted DEF Setting
  <2>2. attempted \in SUBSET attempted /\ attempted # {}
    BY <2>1
  <2>3. QED
    BY <2>2, AttemptedIsFinite DEF Setting
<1>3. ~TooMany(m) /\ ~Lopsided(m)
  BY <1>1, <1>2 DEF MissingnessOK
<1>4. Exact
  <2>1. PICK as \in {"exact", "folded"} : \A ref \in DOMAIN results : results[ref].as = as
    BY DEF Setting, OneSpelling
  <2>2. as # "folded"
    BY <1>2, <1>3, <2>1, FoldedIsTooMany DEF Setting
  <2>3. QED
    BY <2>1, <2>2 DEF Exact
<1>5. /\ Dropped(m) = Cardinality(LostBy("candidate") \cup LostBy("incumbent"))
      /\ m.candidateOnlyFailed = OnlyBy("candidate", "incumbent")
      /\ m.incumbentOnlyFailed = OnlyBy("incumbent", "candidate")
  BY <1>4, DroppedIsLost DEF Setting
<1> HIDE DEF m
<1>6. ~(Dropped(m) * MaxRate.den > MaxRate.num * m.attempted)
  BY <1>3 DEF TooMany
<1>7. ~(McNemar(m.candidateOnlyFailed, m.incumbentOnlyFailed) * Alpha.den
          < Alpha.num * 2 ^ (m.candidateOnlyFailed + m.incumbentOnlyFailed))
  BY <1>3 DEF Lopsided
<1>8. QED
  BY <1>1, <1>5, <1>6, <1>7 DEF FairTest

-----------------------------------------------------------------------------
(* Steps.                                                                  *)

\* What a verdict is about does not change while the gate and its answers do not.
LEMMA SameEvidence ==
  ASSUME UNCHANGED <<stage, gate, floor, attempted, results>>
  PROVE  /\ \A m : Pairs(m)' = Pairs(m)
         /\ \A m, good : Evidence(m, good)' = Evidence(m, good)
         /\ Guardrails' = Guardrails
         /\ \A n : Promotable(n)' = Promotable(n)
         /\ \A n : Established(n)' = Established(n)
         /\ FairTest' = FairTest
<1>1. \A ref : Scored(ref)' = Scored(ref)
  BY DEF Scored
<1>2. \A m, a : Of(m, a)' = Of(m, a)
  BY <1>1 DEF Of
<1>3. \A m : Pairs(m)' = Pairs(m)
  BY <1>2 DEF Pairs, Items
<1>4. \A r, m : Value(r, m)' = Value(r, m)
  BY DEF Value
<1>5. \A m, good : Evidence(m, good)' = Evidence(m, good)
  BY <1>2, <1>4 DEF Evidence
<1>6. Guardrails' = Guardrails
  BY DEF Guardrails
<1>7. \A n : Promotable(n)' = Promotable(n)
  BY <1>3, <1>4, <1>5, <1>6 DEF Promotable
<1>8. \A n : Established(n)' = Established(n)
  BY <1>5, <1>6 DEF Established
<1>9. FairTest' = FairTest
  <2>1. \A a : LostBy(a)' = LostBy(a)
    BY <1>1 DEF LostBy
  <2>2. \A a, b : OnlyBy(a, b)' = OnlyBy(a, b)
    BY <2>1 DEF OnlyBy
  <2>3. QED
    BY <2>1, <2>2 DEF FairTest
<1>10. QED
  BY <1>3, <1>5, <1>6, <1>7, <1>8, <1>9

\* The properties of a verdict, by their bodies.
Reached == /\ \E s \in SessionsOf("candidate", attempted) : \E t \in recorded[s].calls : Effect[t] = "write"
           /\ SessionsOf("incumbent", attempted) # {}
Explained ==
  /\ verdict.outcome = "promote" /\ analyzer = "bootstrap" => Promotable(verdict.n)
  /\ verdict.outcome = "promote" /\ analyzer = "sequential" => Established(verdict.n)
  /\ verdict.outcome = "wave-off" /\ analyzer # "remote" => \E m \in DOMAIN gate : Evidence(m, FALSE)
  /\ verdict.outcome = "write-divergence" => Reached
  /\ verdict.outcome = "promote" /\ stage = "offline" /\ analyzer = "bootstrap" => FairTest

LEMMA ExplainedParts ==
  /\ Explained <=> MeasuredPromotion /\ GuardrailsAreEstablished /\ WaveOffIsDemonstrated /\ FairByTest
  /\ Explained' <=> /\ MeasuredPromotion' /\ GuardrailsAreEstablished'
                    /\ WaveOffIsDemonstrated' /\ FairByTest'
BY DEF Explained, Promotable, Established, Reached, MeasuredPromotion, GuardrailsAreEstablished,
       WaveOffIsDemonstrated, FairByTest

\* A verdict that says nothing needs no explanation.
LEMMA NothingSaid ==
  ASSUME verdict' \in {NoVerdict, Failure}
  PROVE  Explained'
<1>1. verdict'.outcome \in {"none", "error"}
  BY DEF NoVerdict, Failure
<1>2. QED
  BY <1>1 DEF Explained

\* A verdict the analyzer may reach is explained by what it was given.
LEMMA VerdictMeans ==
  ASSUME Setting, NEW v \in Verdicts
  PROVE  /\ v.outcome \in Outcomes /\ v.n \in 0..Cardinality(attempted)
         /\ v.outcome = "promote" /\ analyzer = "bootstrap" => Promotable(v.n)
         /\ v.outcome = "promote" /\ analyzer = "sequential" => Established(v.n)
         /\ v.outcome = "wave-off" /\ analyzer # "remote" => \E m \in DOMAIN gate : Evidence(m, FALSE)
         /\ v.outcome = "promote" /\ stage = "offline" /\ analyzer = "bootstrap" => FairTest
<1>1. analyzer \in {"bootstrap", "sequential", "remote"}
  BY GateAssumption DEF Setting, TypeOK
<1>2. CASE analyzer = "remote"
  <2>1. v \in [outcome : Outcomes, n : 0..Cardinality(Observed)]
    BY <1>2 DEF Verdicts, Remote
  <2>2. Observed \in SUBSET attempted
    BY ObservedIsAttempted DEF Setting
  <2>3. Cardinality(Observed) \in Nat /\ Cardinality(attempted) \in Nat
        /\ Cardinality(Observed) <= Cardinality(attempted)
    BY <2>2, AttemptedIsFinite DEF Setting
  <2>4. v.outcome \in Outcomes /\ v.n \in 0..Cardinality(Observed)
    BY <2>1
  <2>5. v.n \in 0..Cardinality(attempted)
    BY <2>3, <2>4
  <2>6. QED
    BY <1>2, <2>4, <2>5
<1>3. CASE analyzer # "remote"
  <2> DEFINE fair == MissingnessOK(Missingness)
  <2>1. PICK f \in Findings :
          v = [outcome |-> IF analyzer = "bootstrap" THEN Decide(f, fair) ELSE DecideSequential(f, fair),
               n |-> Sample(Primary)]
    BY <1>3 DEF Verdicts
  <2>2. /\ v.outcome = IF analyzer = "bootstrap" THEN Decide(f, fair) ELSE DecideSequential(f, fair)
        /\ v.n = Sample(Primary)
    BY <2>1
  <2>3. v.n \in 0..Cardinality(attempted)
    BY <2>2, SampleIsNumber DEF Setting
  <2>4. \A m \in DOMAIN gate : /\ f[m] = "acceptable" => Evidence(m, TRUE)
                               /\ f[m] = "worse" => Evidence(m, FALSE)
    BY FindingIsReading, ReadingIsEvidence DEF Setting
  <2> HIDE DEF fair
  <2>5. CASE analyzer = "bootstrap"
    <3>1. v.outcome = Decide(f, fair)
      BY <2>2, <2>5
    <3>2. v.outcome \in Outcomes
          /\ (v.outcome = "wave-off" => \E m \in DOMAIN gate : f[m] = "worse")
          /\ (v.outcome = "promote" => fair /\ Sample(Primary) # 0)
      BY <3>1, DecideMeans DEF Setting
    <3>3. v.outcome = "promote" => Promotable(v.n)
      BY <2>2, <2>5, <3>1, BootstrapPromotion
    <3>4. v.outcome = "promote" /\ stage = "offline" => FairTest
      BY <3>2, PromotionIsFair DEF fair
    <3>5. QED
      BY <2>3, <2>4, <2>5, <3>2, <3>3, <3>4
  <2>6. CASE analyzer = "sequential"
    <3>1. v.outcome = DecideSequential(f, fair)
      BY <2>2, <2>6
    <3>2. /\ v.outcome \in Outcomes
          /\ v.outcome = "wave-off" => \E m \in DOMAIN gate : f[m] = "worse"
          /\ v.outcome = "promote" => /\ \A g \in Guardrails : f[g] = "acceptable"
                                      /\ Sample(Primary) # 0 => f[Primary] = "acceptable"
      BY <3>1, DecideSequentialMeans DEF Setting
    <3>3. v.outcome = "promote" => Established(v.n)
      <4>1. SUFFICES ASSUME v.outcome = "promote", NEW m \in DOMAIN gate, m \in Guardrails \/ v.n > 0
                     PROVE  Evidence(m, TRUE)
        BY DEF Established
      <4>2. m \in Guardrails \/ m = Primary
        BY DEF Guardrails
      <4>3. m \notin Guardrails => Sample(Primary) # 0
        BY <2>2, <4>1
      <4>4. f[m] = "acceptable"
        BY <3>2, <4>1, <4>2, <4>3
      <4>5. QED
        BY <2>4, <4>4
    <3>4. QED
      BY <2>3, <2>4, <2>6, <3>2, <3>3
  <2>7. QED
    BY <1>1, <1>3, <2>5, <2>6
<1>4. QED
  BY <1>2, <1>3

LEMMA SessionsStay ==
  ASSUME UNCHANGED stage
  PROVE  Sessions' = Sessions
BY DEF Sessions

LEMMA AnalyzeStep ==
  ASSUME GateInv, Analyze
  PROVE  GateInv'
<1>1. UNCHANGED <<stage, analyzer, gate, floor, judge, withdraws, recorded, attempted, results>>
      /\ phase' = "idle"
  BY DEF Analyze, Conclude, setup
<1>2. verdict' \in {NoVerdict, Failure} \/ verdict' \in Verdicts
  BY DEF Analyze, Conclude
<1>3. Cardinality(attempted) \in Nat
  BY AttemptedIsFinite DEF GateInv, Setting
<1>4. verdict'.outcome \in Outcomes \cup {"none", "error"} /\ verdict'.n \in 0..Cardinality(attempted)
  <2>1. CASE verdict' \in Verdicts
    BY <2>1, VerdictMeans DEF GateInv
  <2>2. CASE verdict' \in {NoVerdict, Failure}
    BY <1>3, <2>2 DEF NoVerdict, Failure
  <2>3. QED
    BY <1>2, <2>1, <2>2
<1>5. TypeOK'
  BY <1>1, <1>4, SessionsStay DEF GateInv, Setting, TypeOK
<1>6. Answered' /\ OneSpelling' /\ JudgedFirst' /\ Afresh' /\ Kept'
  BY <1>1 DEF GateInv, Setting, Answered, OneSpelling, JudgedFirst, JudgesPass, Remeasured, Afresh, Kept
<1>7. Explained'
  <2>1. CASE verdict' \in {NoVerdict, Failure}
    BY <2>1, NothingSaid
  <2>2. CASE verdict' \in Verdicts
    <3>1. /\ verdict'.outcome = "promote" /\ analyzer = "bootstrap" => Promotable(verdict'.n)
          /\ verdict'.outcome = "promote" /\ analyzer = "sequential" => Established(verdict'.n)
          /\ verdict'.outcome = "wave-off" /\ analyzer # "remote" => \E m \in DOMAIN gate : Evidence(m, FALSE)
          /\ verdict'.outcome = "promote" /\ stage = "offline" /\ analyzer = "bootstrap" => FairTest
          /\ verdict'.outcome # "write-divergence"
      BY <2>2, VerdictMeans DEF GateInv, Outcomes
    <3>2. QED
      BY <1>1, <3>1, SameEvidence DEF Explained
  <2>3. QED
    BY <1>2, <2>1, <2>2
<1>8. QED
  BY <1>5, <1>6, <1>7, ExplainedParts DEF GateInv, Setting

\* Traffic changes what is recorded, and nothing that was measured or decided.
LEMMA TrafficStep ==
  ASSUME GateInv, UNCHANGED <<setup, phase, attempted, results, verdict>>, stage # "offline",
         DOMAIN recorded \subseteq DOMAIN recorded', DOMAIN recorded' \subseteq Sessions, Kept',
         \A s \in DOMAIN recorded : /\ recorded'[s].arm = recorded[s].arm
                                    /\ recorded[s].calls \subseteq recorded'[s].calls
  PROVE  GateInv'
<1>1. UNCHANGED <<stage, analyzer, gate, floor, judge, withdraws>>
  BY DEF setup
<1>2. TypeOK'
  <2>1. attempted \subseteq DOMAIN recorded'
    BY DEF GateInv, Setting, TypeOK
  <2>2. QED
    BY <1>1, <2>1, SessionsStay DEF GateInv, Setting, TypeOK
<1>3. Answered' /\ OneSpelling' /\ JudgedFirst' /\ Afresh'
  BY <1>1 DEF GateInv, Setting, Answered, OneSpelling, JudgedFirst, JudgesPass, Remeasured, Afresh
<1>4. verdict.outcome = "write-divergence" => Reached'
  <2>1. SUFFICES ASSUME verdict.outcome = "write-divergence" PROVE Reached'
    OBVIOUS
  <2>2. Reached
    BY <2>1, ExplainedParts DEF GateInv, Explained
  <2>3. attempted \subseteq DOMAIN recorded
    BY DEF GateInv, Setting, TypeOK
  <2>4. QED
    BY <2>2, <2>3 DEF Reached, SessionsOf
<1>5. Explained'
  <2>1. Explained
    BY ExplainedParts DEF GateInv
  <2>2. QED
    BY <1>1, <1>4, <2>1, SameEvidence DEF Explained
<1>6. QED
  BY <1>2, <1>3, <1>5, ExplainedParts DEF GateInv, Setting

LEMMA OpenStep ==
  ASSUME GateInv, NEW s \in Sessions, NEW a \in Arms, Open(s, a)
  PROVE  GateInv'
<1> DEFINE new == [arm |-> a, calls |-> {}]
<1>1. /\ UNCHANGED <<setup, phase, attempted, results, verdict>>
      /\ stage # "offline" /\ s \notin DOMAIN recorded
      /\ recorded' = [t \in DOMAIN recorded \cup {s} |-> IF t = s THEN new ELSE recorded[t]]
  BY DEF Open
<1>2. stage' = stage
  BY <1>1 DEF setup
<1>3. new \in [arm : Arms, calls : SUBSET Tools]
  OBVIOUS
<1> HIDE DEF new
<1>4. recorded \in [DOMAIN recorded -> [arm : Arms, calls : SUBSET Tools]] /\ DOMAIN recorded \subseteq Sessions
  BY DEF GateInv, Setting, Kept, TypeOK
<1>5. /\ DOMAIN recorded' = DOMAIN recorded \cup {s}
      /\ recorded' \in [DOMAIN recorded' -> [arm : Arms, calls : SUBSET Tools]]
      /\ \A t \in DOMAIN recorded : recorded'[t] = recorded[t]
  BY <1>1, <1>3, <1>4
<1>6. Kept'
  BY <1>1, <1>2, <1>5 DEF Kept
<1>7. QED
  BY <1>1, <1>4, <1>5, <1>6, TrafficStep

LEMMA CallStep ==
  ASSUME GateInv, NEW s \in Sessions, NEW t \in Tools, Call(s, t)
  PROVE  GateInv'
<1> DEFINE new == [recorded[s] EXCEPT !.calls = @ \cup {t}]
<1>1. /\ UNCHANGED <<setup, phase, attempted, results, verdict>>
      /\ s \in DOMAIN recorded /\ recorded' = [recorded EXCEPT ![s] = new]
  BY DEF Call
<1>2. stage' = stage /\ stage # "offline"
  BY <1>1 DEF setup, GateInv, Setting, Kept
<1>3. recorded \in [DOMAIN recorded -> [arm : Arms, calls : SUBSET Tools]] /\ DOMAIN recorded \subseteq Sessions
  BY DEF GateInv, Setting, Kept, TypeOK
<1>4. /\ new \in [arm : Arms, calls : SUBSET Tools]
      /\ new.arm = recorded[s].arm /\ recorded[s].calls \subseteq new.calls
  <2>1. recorded[s] \in [arm : Arms, calls : SUBSET Tools]
    BY <1>1, <1>3
  <2>2. QED
    BY <2>1
<1> HIDE DEF new
<1>5. /\ DOMAIN recorded' = DOMAIN recorded
      /\ recorded' \in [DOMAIN recorded' -> [arm : Arms, calls : SUBSET Tools]]
      /\ \A r \in DOMAIN recorded : recorded'[r] = IF r = s THEN new ELSE recorded[r]
  BY <1>1, <1>3, <1>4
<1>6. \A r \in DOMAIN recorded : /\ recorded'[r].arm = recorded[r].arm
                                 /\ recorded[r].calls \subseteq recorded'[r].calls
  BY <1>4, <1>5
<1>7. Kept'
  BY <1>2, <1>5 DEF Kept
<1>8. QED
  BY <1>1, <1>2, <1>3, <1>5, <1>6, <1>7, TrafficStep

\* A pass that has not reached the analyzer.
LEMMA PassStep ==
  ASSUME GateInv, UNCHANGED <<setup, recorded>>,
         phase' \in {"idle", "watched", "scored"}, phase' # "idle" => verdict' = NoVerdict,
         verdict' \in {NoVerdict, Failure, [outcome |-> "write-divergence", n |-> 0]},
         attempted' \subseteq IF stage = "offline" THEN Sessions ELSE DOMAIN recorded,
         verdict'.outcome = "write-divergence" => Reached',
         Answered', OneSpelling', phase' = "watched" => DOMAIN results' = {},
         stage = "offline" /\ DOMAIN results' # {} => JudgesPass
  PROVE  GateInv'
<1>1. UNCHANGED <<stage, analyzer, gate, floor, judge, withdraws>>
  BY DEF setup
<1>2. Sessions' = Sessions
  BY <1>1, SessionsStay
<1>3. Cardinality(attempted') \in Nat
  <2>1. attempted' \in SUBSET Sessions
    BY DEF GateInv, Setting, TypeOK
  <2>2. IsFiniteSet(Sessions)
    BY SessionsAreFinite DEF GateInv, Setting, TypeOK
  <2>3. QED
    BY <2>1, <2>2, FS_Subset, FS_CardinalityType
<1>4. verdict'.outcome \in {"none", "error", "write-divergence"} /\ verdict'.n = 0
  BY DEF NoVerdict, Failure
<1>5. TypeOK'
  <2>1. verdict'.n \in 0..Cardinality(attempted')
    BY <1>3, <1>4
  <2>2. \A ref \in DOMAIN results' : ref.item \in attempted' /\ ref.arm \in Arms
    BY DEF Answered
  <2>3. verdict'.outcome \in Outcomes \cup {"none", "error", "write-divergence"}
    BY <1>4
  <2>4. QED
    BY <1>1, <1>2, <2>1, <2>2, <2>3 DEF GateInv, Setting, TypeOK
<1>6. JudgedFirst'
  <2>1. JudgesPass' = JudgesPass
    BY <1>1 DEF JudgesPass, Remeasured
  <2>2. QED
    BY <1>1, <2>1 DEF JudgedFirst, GateInv, Setting
<1>7. Kept'
  BY <1>1 DEF Kept, GateInv, Setting
<1>8. Explained'
  BY <1>4 DEF Explained
<1>9. QED
  BY <1>5, <1>6, <1>7, <1>8, ExplainedParts DEF GateInv, Setting, Afresh

\* Answers as a scorer gives them.
LEMMA ScoreGives ==
  ASSUME stage \in DOMAIN Analyzers, NEW refs, Score(refs),
         \A ref \in refs : ref.item \in attempted' /\ ref.arm \in Arms /\ ref = Ref(ref.item, ref.arm)
  PROVE  Answered' /\ OneSpelling'
<1>1. PICK answered \in SUBSET refs : \E said \in [answered -> Answers], as \in Spellings[stage] :
        results' = [ref \in answered |-> [as |-> as, error |-> said[ref].error, metrics |-> said[ref].metrics]]
  BY DEF Score
<1>. PICK said \in [answered -> Answers], as \in Spellings[stage] :
        results' = [ref \in answered |-> [as |-> as, error |-> said[ref].error, metrics |-> said[ref].metrics]]
  BY <1>1
<1>2. DOMAIN results' = answered /\ \A ref \in answered :
        /\ results'[ref].as = as /\ results'[ref].error = said[ref].error
        /\ results'[ref].metrics = said[ref].metrics /\ said[ref] \in Answers
  OBVIOUS
<1>3. as \in {"exact", "folded"}
  BY GateAssumption
<1>4. OneSpelling'
  BY <1>2, <1>3 DEF OneSpelling
<1>5. Answered'
  <2>1. \A x \in Answers : x.error \in BOOLEAN /\ \A m \in DOMAIN x.metrics : x.metrics[m] \in Int
    BY GateAssumption
  <2>2. QED
    BY <1>1, <1>2, <2>1 DEF Answered, Ref
<1>6. QED
  BY <1>4, <1>5

LEMMA NoAnswers ==
  ASSUME results' = [ref \in {} |-> Nothing]
  PROVE  DOMAIN results' = {} /\ Answered' /\ OneSpelling'
<1>1. DOMAIN results' = {}
  OBVIOUS
<1>2. QED
  BY <1>1 DEF Answered, OneSpelling

LEMMA WatchStep ==
  ASSUME GateInv, Watch
  PROVE  GateInv'
<1>1. /\ UNCHANGED <<setup, recorded>> /\ attempted' = Selected
      /\ results' = [ref \in {} |-> Nothing] /\ stage # "offline"
      /\ IF Diverged(Selected) /\ withdraws THEN Conclude([outcome |-> "write-divergence", n |-> 0])
                                            ELSE Proceed("watched")
  BY DEF Watch
<1>2. DOMAIN results' = {} /\ Answered' /\ OneSpelling'
  BY <1>1, NoAnswers
<1>3. attempted' \subseteq DOMAIN recorded
  BY <1>1 DEF Selected
<1>4. CASE Diverged(Selected) /\ withdraws
  <2>1. verdict' = [outcome |-> "write-divergence", n |-> 0] /\ phase' = "idle"
    BY <1>1, <1>4 DEF Conclude
  <2>2. PICK t \in WriteClasses("candidate", Selected) : TRUE
    BY <1>4 DEF Diverged
  <2>3. PICK s \in SessionsOf("candidate", Selected) : t \in Marked(s)
    BY <2>2 DEF WriteClasses
  <2>4. t \in recorded[s].calls /\ Effect[t] = "write"
    BY <2>3 DEF Marked
  <2>5. SessionsOf("incumbent", Selected) # {}
    BY <1>4 DEF Diverged, Arms
  <2>6. \A a : SessionsOf(a, attempted)' = SessionsOf(a, Selected)
    BY <1>1 DEF SessionsOf
  <2>7. Reached'
    BY <1>1, <2>3, <2>4, <2>5, <2>6 DEF Reached
  <2>8. QED
    BY <1>1, <1>2, <1>3, <2>1, <2>7, PassStep
<1>5. CASE ~(Diverged(Selected) /\ withdraws)
  <2>1. verdict' = NoVerdict /\ phase' = "watched"
    BY <1>1, <1>5 DEF Proceed
  <2>2. verdict'.outcome # "write-divergence"
    BY <2>1 DEF NoVerdict
  <2>3. QED
    BY <1>1, <1>2, <1>3, <2>1, <2>2, PassStep
<1>6. QED
  BY <1>4, <1>5

LEMMA SinceStep ==
  ASSUME GateInv, Since
  PROVE  GateInv'
<1>1. UNCHANGED <<setup, recorded>> /\ attempted' = Selected /\ phase = "watched"
  BY DEF Since
<1>2. /\ stage \in DOMAIN Analyzers /\ attempted' \subseteq DOMAIN recorded
      /\ stage = "offline" => DOMAIN recorded = {}
      /\ verdict = NoVerdict
  BY <1>1 DEF Selected, GateInv, Setting, TypeOK, Kept
<1>3. attempted' \subseteq IF stage = "offline" THEN Sessions ELSE DOMAIN recorded
  BY <1>2
<1>4. CASE Score({Ref(s, recorded[s].arm) : s \in Selected}) /\ Proceed("scored")
  <2> DEFINE refs == {Ref(s, recorded[s].arm) : s \in Selected}
  <2>1. \A s \in Selected : recorded[s].arm \in Arms
    BY <1>1, <1>2 DEF GateInv, Setting, Kept
  <2>2. \A ref \in refs : ref.item \in attempted' /\ ref.arm \in Arms /\ ref = Ref(ref.item, ref.arm)
    BY <1>1, <2>1 DEF Ref
  <2> HIDE DEF refs
  <2>3. Answered' /\ OneSpelling'
    BY <1>2, <1>4, <2>2, ScoreGives DEF refs
  <2>4. verdict' = NoVerdict /\ phase' = "scored"
    BY <1>4 DEF Proceed
  <2>5. verdict'.outcome # "write-divergence"
    BY <2>4 DEF NoVerdict
  <2>6. stage = "offline" => DOMAIN results' = {}
    BY <1>2, <2>3 DEF Answered
  <2>7. QED
    BY <1>1, <1>3, <2>3, <2>4, <2>5, <2>6, PassStep
<1>5. CASE Conclude(Failure) /\ UNCHANGED results /\ Selected # {}
  <2>1. verdict' = Failure /\ phase' = "idle" /\ verdict'.outcome # "write-divergence"
    BY <1>5 DEF Conclude, Failure
  <2>2. DOMAIN results' = {}
    BY <1>1, <1>5 DEF GateInv, Setting, Afresh
  <2>3. Answered' /\ OneSpelling'
    BY <2>2 DEF Answered, OneSpelling
  <2>4. QED
    BY <1>1, <1>3, <2>1, <2>2, <2>3, PassStep
<1>6. QED
  BY <1>1, <1>4, <1>5 DEF Since

LEMMA ReplayStep ==
  ASSUME GateInv, NEW n \in Sessions, NEW usable \in 0..MaxRefs, usable <= n,
         RunOfflineReplay(n, usable)
  PROVE  GateInv'
<1>1. UNCHANGED <<setup, recorded>> /\ attempted' = 1..n /\ stage = "offline"
  BY DEF RunOfflineReplay
<1>2. stage \in DOMAIN Analyzers /\ attempted' \subseteq Sessions
  <2>1. PICK k \in Nat : Sessions = 1..k
    BY GateAssumption DEF Sessions, GateInv, Setting, TypeOK
  <2>2. QED
    BY <1>1, <2>1 DEF GateInv, Setting, TypeOK
<1>3. attempted' \subseteq IF stage = "offline" THEN Sessions ELSE DOMAIN recorded
  BY <1>1, <1>2
<1>4. CASE JudgesPass /\ Score({Ref(s, a) : s \in 1..usable, a \in Arms}) /\ Proceed("scored")
  <2> DEFINE refs == {Ref(s, a) : s \in 1..usable, a \in Arms}
  <2>1. 1..usable \subseteq 1..n
    <3>1. n \in Int /\ usable \in Int
      BY GateAssumption DEF Sessions
    <3>2. QED
      BY <3>1
  <2>2. \A ref \in refs : ref.item \in attempted' /\ ref.arm \in Arms /\ ref = Ref(ref.item, ref.arm)
    BY <1>1, <2>1 DEF Ref
  <2> HIDE DEF refs
  <2>3. Answered' /\ OneSpelling'
    BY <1>2, <1>4, <2>2, ScoreGives DEF refs
  <2>4. verdict' = NoVerdict /\ phase' = "scored"
    BY <1>4 DEF Proceed
  <2>5. verdict'.outcome # "write-divergence"
    BY <2>4 DEF NoVerdict
  <2>6. QED
    BY <1>1, <1>3, <1>4, <2>3, <2>4, <2>5, PassStep
<1>5. CASE Conclude(Failure) /\ results' = [ref \in {} |-> Nothing]
  <2>1. verdict' = Failure /\ phase' = "idle" /\ verdict'.outcome # "write-divergence"
    BY <1>5 DEF Conclude, Failure
  <2>2. DOMAIN results' = {} /\ Answered' /\ OneSpelling'
    BY <1>5, NoAnswers
  <2>3. QED
    BY <1>1, <1>3, <2>1, <2>2, PassStep
<1>6. QED
  BY <1>4, <1>5 DEF RunOfflineReplay

LEMMA InitStep ==
  ASSUME Init
  PROVE  GateInv
<1>1. /\ stage \in DOMAIN Analyzers /\ analyzer \in Analyzers[stage] /\ gate \in Gates
      /\ floor \in Floors \cup {0} /\ withdraws \in BOOLEAN
      /\ judge \in Judges \cup [Arms -> {NoJudge}] /\ (stage = "offline" => judge \in Judges)
      /\ recorded = [s \in {} |-> Nothing] /\ phase = "idle" /\ attempted = {}
      /\ results = [ref \in {} |-> Nothing] /\ verdict = NoVerdict
  BY DEF Init
<1>2. DOMAIN recorded = {} /\ DOMAIN results = {} /\ Cardinality(attempted) = 0
  BY <1>1, FS_EmptySet
<1>3. verdict.outcome = "none" /\ verdict.n = 0
  BY <1>1 DEF NoVerdict
<1>4. TypeOK
  <2>1. verdict.n \in 0..Cardinality(attempted)
    BY <1>2, <1>3
  <2>2. QED
    BY <1>1, <1>2, <1>3, <2>1 DEF TypeOK
<1>5. Answered /\ OneSpelling /\ JudgedFirst /\ Afresh
  BY <1>1, <1>2 DEF Answered, OneSpelling, JudgedFirst, Afresh
<1>6. Kept
  <2>1. recorded \in [DOMAIN recorded -> [arm : Arms, calls : SUBSET Tools]]
    BY <1>1, <1>2
  <2>2. QED
    BY <1>2, <2>1 DEF Kept
<1>7. Explained
  BY <1>3 DEF Explained
<1>8. QED
  BY <1>4, <1>5, <1>6, <1>7, ExplainedParts DEF GateInv, Setting

LEMMA GateInvariant == Spec => []GateInv
<1>1. Init => GateInv
  BY InitStep
<1>2. GateInv /\ [Next]_vars => GateInv'
  <2> SUFFICES ASSUME GateInv, [Next]_vars PROVE GateInv'
    OBVIOUS
  <2>1. ASSUME NEW s \in Sessions, NEW a \in Arms, Open(s, a) PROVE GateInv'
    BY <2>1, OpenStep
  <2>2. ASSUME NEW s \in Sessions, NEW t \in Tools, Call(s, t) PROVE GateInv'
    BY <2>2, CallStep
  <2>3. CASE Watch
    BY <2>3, WatchStep
  <2>4. CASE Since
    BY <2>4, SinceStep
  <2>5. ASSUME NEW n \in Sessions, NEW usable \in 0..MaxRefs, usable <= n,
               RunOfflineReplay(n, usable)
        PROVE  GateInv'
    BY <2>5, ReplayStep
  <2>6. CASE Analyze
    BY <2>6, AnalyzeStep
  <2>7. CASE UNCHANGED vars
    <3>1. UNCHANGED <<stage, analyzer, gate, floor, judge, withdraws, recorded, phase, attempted, results, verdict>>
      BY <2>7 DEF vars
    <3>2. Setting'
      <4>1. TypeOK' /\ Answered' /\ OneSpelling'
        BY <3>1, SessionsStay DEF GateInv, Setting, TypeOK, Answered, OneSpelling
      <4>2. JudgedFirst'
        BY <3>1 DEF GateInv, Setting, JudgedFirst, JudgesPass, Remeasured
      <4>3. Afresh' /\ Kept'
        BY <3>1 DEF GateInv, Setting, Afresh, Kept
      <4>4. QED
        BY <4>1, <4>2, <4>3 DEF Setting
    <3>3. Explained'
      <4>1. Explained
        BY ExplainedParts DEF GateInv
      <4>2. Reached' = Reached
        BY <3>1 DEF Reached, SessionsOf
      <4>3. QED
        BY <3>1, <4>1, <4>2, SameEvidence DEF Explained
    <3>4. QED
      BY <3>2, <3>3, ExplainedParts DEF GateInv
  <2>8. QED
    BY <2>1, <2>2, <2>3, <2>4, <2>5, <2>6, <2>7 DEF Next
<1>3. QED
  BY <1>1, <1>2, PTL DEF Spec

-----------------------------------------------------------------------------
(* Theorems.                                                               *)

\* Every variable keeps its type, for any gates, answers and bounds; and a verdict
\* never claims more measurements than sessions were attempted.
THEOREM GateTypeCorrect == Spec => []TypeOK
<1>1. GateInv => TypeOK
  BY DEF GateInv, Setting
<1>2. QED
  BY <1>1, GateInvariant, PTL

\* The fixed-sample gate promotes only on a primary metric measured on at least a
\* floor of items under both arms, with evidence for the candidate in every metric
\* and no item past a threshold: whatever is scored, failed or left out.
THEOREM PromotionIsMeasured == Spec => []MeasuredPromotion
<1>1. GateInv => MeasuredPromotion
  BY DEF GateInv
<1>2. QED
  BY <1>1, GateInvariant, PTL

\* The running gate promotes only with every guardrail established, and with a
\* primary metric that speaks for the candidate wherever it was measured at all.
THEOREM GuardrailsHold == Spec => []GuardrailsAreEstablished
<1>1. GateInv => GuardrailsAreEstablished
  BY DEF GateInv
<1>2. QED
  BY <1>1, GateInvariant, PTL

\* A built-in analyzer waves a candidate off only on evidence against it, and the
\* activity check only for a write it made beside a serving incumbent, though
\* sessions open and call on while a pass runs.
THEOREM WaveOffsAreDemonstrated == Spec => []WaveOffIsDemonstrated
<1>1. GateInv => WaveOffIsDemonstrated
  BY DEF GateInv
<1>2. QED
  BY <1>1, GateInvariant, PTL

\* mcNemarExact computes what its comment says, the exact two-sided test, of
\* whatever counts of discordant items a pass may come to.
THEOREM McNemarIsTheExactTest == Spec => []McNemarIsExact
<1>1. GateInv => McNemarIsExact
  <2>1. ASSUME GateInv, NEW b \in 0..Cardinality(attempted), NEW c \in 0..Cardinality(attempted) - b
        PROVE  McNemar(b, c) = AsUneven(b, c)
    <3>1. Cardinality(attempted) \in Nat
      BY <2>1, AttemptedIsFinite DEF GateInv, Setting
    <3>2. b \in Nat /\ c \in Nat
      BY <3>1
    <3>3. QED
      BY <3>2, ExactTest
  <2>2. QED
    BY <2>1, Zenon DEF McNemarIsExact
<1>2. QED
  BY <1>1, GateInvariant, PTL

\* An offline promotion rests on a fair sample of what was attempted: every
\* session lost to an arm is counted, and the test of them is exact.
THEOREM PromotionsAreFair == Spec => []SurvivorsAreFair
<1>1. ASSUME GateInv, verdict.outcome = "promote", stage = "offline", analyzer = "bootstrap"
      PROVE  LET lost(a) == {s \in attempted : ~Scored(Ref(s, a))}
                 b == Cardinality(lost("candidate") \ lost("incumbent"))
                 c == Cardinality(lost("incumbent") \ lost("candidate"))
             IN  /\ Cardinality(lost("candidate") \cup lost("incumbent")) * MaxRate.den
                      <= MaxRate.num * Cardinality(attempted)
                 /\ ~(AsUneven(b, c) * Alpha.den < Alpha.num * 2 ^ (b + c))
  <2> DEFINE C == LostBy("candidate")
             I == LostBy("incumbent")
  <2>1. FairTest
    BY <1>1 DEF GateInv, FairByTest
  <2>2. C \in SUBSET attempted /\ I \in SUBSET attempted
    BY DEF LostBy
  <2>3. C \ I \in SUBSET attempted /\ I \ C \in SUBSET attempted /\ C \cup I \in SUBSET attempted
    BY <2>2
  <2> HIDE DEF C, I
  <2>4. /\ Cardinality(C \ I) \in Nat /\ Cardinality(I \ C) \in Nat
        /\ Cardinality(C \cup I) \in Nat /\ Cardinality(attempted) \in Nat
    BY <1>1, <2>3, AttemptedIsFinite DEF GateInv, Setting
  <2>5. McNemar(Cardinality(C \ I), Cardinality(I \ C)) = AsUneven(Cardinality(C \ I), Cardinality(I \ C))
    BY <2>4, ExactTest
  <2>6. /\ ~(Cardinality(C \cup I) * MaxRate.den > MaxRate.num * Cardinality(attempted))
        /\ ~(McNemar(Cardinality(C \ I), Cardinality(I \ C)) * Alpha.den
                < Alpha.num * 2 ^ (Cardinality(C \ I) + Cardinality(I \ C)))
    BY <2>1 DEF FairTest, OnlyBy, C, I
  <2>7. Cardinality(C \cup I) * MaxRate.den <= MaxRate.num * Cardinality(attempted)
    <3>1. MaxRate.den \in Int /\ MaxRate.num \in Int
      BY GateAssumption DEF Fraction
    <3>2. QED
      BY <2>4, <2>6, <3>1
  <2>8. QED
    BY <2>5, <2>6, <2>7 DEF C, I, LostBy
<1>2. GateInv => SurvivorsAreFair
  BY <1>1, Zenon DEF SurvivorsAreFair
<1>3. QED
  BY <1>2, GateInvariant, PTL

\* Nothing is scored offline under a judge that changed and copied its calibration.
THEOREM CopiesAreRefused == Spec => []CopiedCalibrationIsRefused
<1>1. ASSUME GateInv, DOMAIN results # {}, stage = "offline",
             NoJudge \notin {judge["incumbent"], judge["candidate"]},
             judge["incumbent"].rubric # judge["candidate"].rubric,
             judge["incumbent"].measuredAt = judge["candidate"].measuredAt
      PROVE  FALSE
  <2>1. JudgesPass /\ judge \in Judges
    BY <1>1 DEF GateInv, Setting, JudgedFirst
  <2>2. Remeasured(judge["incumbent"], judge["candidate"])
    BY <1>1, <2>1 DEF JudgesPass
  <2>3. judge["incumbent"].measuredAt \in Nat /\ judge["candidate"].measuredAt \in Nat
    BY <1>1, <2>1, GateAssumption DEF Arms
  <2>4. QED
    BY <1>1, <2>2, <2>3 DEF Remeasured
<1>2. GateInv => CopiedCalibrationIsRefused
  BY <1>1 DEF CopiedCalibrationIsRefused
<1>3. QED
  BY <1>2, GateInvariant, PTL
=============================================================================
