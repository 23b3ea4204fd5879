-------------------------------- MODULE Gate --------------------------------
(***************************************************************************)
(* How a stage's gate reaches a verdict.  Sessions are recorded, a pass    *)
(* selects some, has a scorer answer for them, folds the answers into      *)
(* observations and missingness, and asks an analyzer.  A live or shadow   *)
(* stage passes again and again while sessions arrive (Advance), after it  *)
(* compared what the arms tried to write; an offline stage passes over     *)
(* replays of a corpus under both arms (RunOfflineReplay).                 *)
(*                                                                         *)
(* Scores are small integers.  An interval is abstracted to the ways it    *)
(* can lie about the margin, given the data it was computed from.          *)
(***************************************************************************)
EXTENDS Integers, FiniteSets, FiniteSetsExt, Combinatorics

CONSTANTS
  Analyzers,   \* kind of stage -> the analyzers it may be given
  Gates,       \* gates a stage may have: metric -> [test, direction, bound]
  Primary,     \* the metric the decision turns on; the others are guardrails
  Answers,     \* what a scorer may say of a session: [error, metrics]
  Spellings,   \* kind of stage -> how it may spell arms, of {"exact", "folded"}
  Judges,      \* arm -> what its manifest says of its judge, a set of such
  NoJudge,     \* ... where a manifest declares none
  Tools,       \* tools an agent may call
  Effect,      \* tool -> "read", "write" or "unclassified"
  Limit,       \* sessions measured per pass, 0 for all
  Floors,      \* what BootstrapFloor is scaled down to
  Alpha,       \* significance, and
  MaxRate,     \* ... largest share of unscored items: [num, den]
  MaxSessions, \* bound: kind of stage -> sessions
  MaxRefs      \* bound: refs a scorer is given, with those it leaves out, and
               \* ... sessions of a corpus, with those that are usable

Arms        == {"incumbent", "candidate"}
Outcomes    == {"promote", "wave-off", "inconclusive"}
NoVerdict   == [outcome |-> "none", n |-> 0]
Fraction(f) == f.num \in Nat /\ f.den \in Nat \ {0}

\* A live stage takes no fixed-horizon test, which the CRD and the controller
\* refuse; and no caller sets another missingness policy than the default one.
ASSUME GateAssumption ==
  /\ DOMAIN Analyzers \subseteq {"offline", "shadow", "live"}
  /\ \A s \in DOMAIN Analyzers : Analyzers[s] \subseteq {"bootstrap", "sequential", "remote"}
  /\ "live" \in DOMAIN Analyzers => "bootstrap" \notin Analyzers["live"]
  /\ Spellings \in [DOMAIN Analyzers -> SUBSET {"exact", "folded"}]
  /\ \A x \in Answers : x.error \in BOOLEAN /\ \A m \in DOMAIN x.metrics : x.metrics[m] \in Int
  /\ \A g \in Gates : Primary \in DOMAIN g /\ \A m \in DOMAIN g :
       g[m].test \in {"interval", "threshold"} /\ g[m].direction \in {"higher", "lower"} /\ g[m].bound \in Int
  /\ \A j \in Judges : \A a \in Arms :
       j[a] # NoJudge => j[a].kappa \in {"none", "low", "good"} /\ j[a].measuredAt \in Nat
  /\ Effect \in [Tools -> {"read", "write", "unclassified"}]
  /\ Fraction(Alpha) /\ Fraction(MaxRate) /\ MaxRate.num < MaxRate.den
  /\ MaxRefs \in Nat
  /\ Limit \in Nat /\ Floors \subseteq Nat /\ MaxSessions \in [DOMAIN Analyzers -> Nat]

VARIABLES
  stage, analyzer, gate,  \* the stage, fixed at the start, with
  floor,                  \* ... BootstrapFloor,
  judge,                  \* ... the two manifests' judge and
  withdraws,              \* ... whether its policy fires on write divergence
  recorded,               \* session -> [arm, calls], sessions ordered by id
  phase,                  \* of a pass: "idle", "watched" or "scored"
  attempted,              \* the sessions the last pass selected
  results,                \* its answers: [item, arm] -> [as, error, metrics]
  verdict                 \* its verdict

setup == <<stage, analyzer, gate, floor, judge, withdraws>>
vars  == <<stage, analyzer, gate, floor, judge, withdraws, recorded, phase, attempted, results, verdict>>

Guardrails == DOMAIN gate \ {Primary}
Nothing    == [m \in {} |-> 0]

-----------------------------------------------------------------------------
(* Scores: what the scorer's answers become.                               *)

Ref(i, a)   == [item |-> i, arm |-> a]
Scored(ref) == ref \in DOMAIN results /\ ~results[ref].error /\ results[ref].metrics # Nothing
Items       == {ref.item : ref \in DOMAIN results}

\* A pair is two scored answers that have the primary metric (Pairs folds the
\* case of an arm); an item that is no pair is dropped.
Complete(i) == \A a \in Arms : Scored(Ref(i, a)) /\ Primary \in DOMAIN results[Ref(i, a)].metrics
Paired      == {i \in Items : Complete(i)}

\* The drop pattern over some items, given who was seen to score them.
DropPattern(among, inc, cand, unreached, both) ==
  [attempted  |-> Cardinality(attempted),
   bothScored |-> both,
   candidateOnlyFailed |-> Cardinality((inc \ cand) \cap among),
   incumbentOnlyFailed |-> Cardinality((cand \ inc) \cap among),
   bothFailed |-> Cardinality(among \ (inc \cup cand)) + unreached]

\* Mutant: sessions that never reached the scorer are not counted.
MissingScored ==
  LET seen(a) == {i \in Items : Scored(Ref(i, a)) /\ results[Ref(i, a)].as = "exact"}
  IN  DropPattern(Items, seen("incumbent"), seen("candidate"), 0, Cardinality(Paired))

\* missingnessOf compares arms exactly: an arm spelled otherwise was not seen.
MissingOffline ==
  LET seen(a) == {i \in Items : Scored(Ref(i, a)) /\ results[Ref(i, a)].as = "exact"}
  IN  DropPattern(Items, seen("incumbent"), seen("candidate"),
                  Cardinality(attempted) - Cardinality(Items), Cardinality(Paired))

\* observationsFrom takes any arm not spelled "candidate" for the incumbent.
SideOf(ref)      == IF ref.arm = "candidate" /\ results[ref].as = "exact" THEN "candidate" ELSE "incumbent"
OnSide(i, s)     == {ref \in DOMAIN results : ref.item = i /\ Scored(ref) /\ SideOf(ref) = s}
LiveMetrics(i, s) == IF OnSide(i, s) = {} THEN Nothing ELSE results[CHOOSE ref \in OnSide(i, s) : TRUE].metrics

\* Only an item put forward under both arms can be missing.  A recorded
\* session is an item of its own, since no recording names its source session.
MissingLive ==
  LET twice  == {i \in Items : \A a \in Arms : Ref(i, a) \in DOMAIN results /\ results[Ref(i, a)].as = "exact"}
      got(s) == {i \in Items : OnSide(i, s) # {}}
  IN  DropPattern(twice, got("incumbent"), got("candidate"), 0,
                  Cardinality(got("incumbent") \cap got("candidate")))

\* The request an analyzer gets: its observations, missingness and design.
Observed    == IF stage = "offline" THEN Paired ELSE {i \in Items : \E a \in Arms : Scored(Ref(i, a))}
Missingness == IF stage = "offline" THEN MissingOffline ELSE MissingLive
Unpaired    == stage = "live"
Measured(i, s) == IF stage = "offline" THEN results[Ref(i, s)].metrics ELSE LiveMetrics(i, s)

\* Arms and Values: the items with a metric on one side, or on both.
With(m, s)  == {i \in Observed : m \in DOMAIN Measured(i, s)}
Both(m)     == With(m, "incumbent") \cap With(m, "candidate")
Compared(m) == IF Unpaired THEN With(m, "incumbent") \X With(m, "candidate") ELSE {<<i, i>> : i \in Both(m)}
Differences(m) == {Measured(p[2], "candidate")[m] - Measured(p[1], "incumbent")[m] : p \in Compared(m)}

-----------------------------------------------------------------------------
(* CheckMissingness, with the exact McNemar test in integers.              *)

Tail(n, k)    == MapThenSumSet(LAMBDA i : choose(n, i), 0..k)
Smaller(x, y) == IF x < y THEN x ELSE y

\* Mutant: one tail, not doubled.
OneTail(b, c) == Smaller(Tail(b + c, Smaller(b, c)), 2 ^ (b + c))

\* mcNemarExact: the p-value of b against c discordant pairs, in 2^-(b+c).
McNemar(b, c) == Smaller(2 * Tail(b + c, Smaller(b, c)), 2 ^ (b + c))

Dropped(m)   == m.candidateOnlyFailed + m.incumbentOnlyFailed + m.bothFailed
TooMany(m)   == Dropped(m) * MaxRate.den > MaxRate.num * m.attempted
Lopsided(m)  ==
  LET b == m.candidateOnlyFailed
      c == m.incumbentOnlyFailed
  IN  McNemar(b, c) * Alpha.den < Alpha.num * 2 ^ (b + c)
MissingnessOK(m) == m.attempted = 0 \/ ~(TooMany(m) \/ Lopsided(m))

-----------------------------------------------------------------------------
(* The tests.  Each reads its metric as "acceptable", "worse", "straddles" *)
(* or, with nothing to compare, as "unmeasured".                           *)

Acceptable(m, d) == IF gate[m].direction = "lower" THEN d < gate[m].bound ELSE d > gate[m].bound
Worse(m, d)      == IF gate[m].direction = "lower" THEN d > gate[m].bound ELSE d < gate[m].bound

Sides(m) == {r \in {"acceptable", "worse"} :
               \E d \in Differences(m) : IF r = "acceptable" THEN Acceptable(m, d) ELSE Worse(m, d)}

\* A percentile interval lies within the differences; one item has no interval.
Percentile(m) ==
  IF Cardinality(Both(m)) = 1 THEN {"straddles"}
  ELSE IF \/ \A d \in Differences(m) : Acceptable(m, d)
          \/ \A d \in Differences(m) : Worse(m, d)
       THEN Sides(m) ELSE Sides(m) \cup {"straddles"}

\* A confidence sequence is centred within them and may be as wide as it likes.
ConfidenceSequence(m) == Sides(m) \cup {"straddles"}

\* threshold: the candidate's worst value among those compared is in bounds.
Threshold(m) ==
  LET t == gate[m].bound
      values == {Measured(p[2], "candidate")[m] : p \in Compared(m)}
  IN  {IF \A v \in values : IF gate[m].direction = "lower" THEN v <= t ELSE v >= t
       THEN "acceptable" ELSE "worse"}

Sample(m) == IF Unpaired THEN Smaller(Cardinality(With(m, "incumbent")), Cardinality(With(m, "candidate")))
                         ELSE Cardinality(Both(m))

\* Mutant: what was not measured has failed.
ReadingsOrWorse(m) ==
  IF Sample(m) = 0 THEN {"worse"}
  ELSE IF gate[m].test = "threshold" THEN Threshold(m)
  ELSE IF analyzer = "bootstrap" THEN Percentile(m) ELSE ConfidenceSequence(m)

Readings(m) ==
  IF Sample(m) = 0 THEN {"unmeasured"}
  ELSE IF gate[m].test = "threshold" THEN Threshold(m)
  ELSE IF analyzer = "bootstrap" THEN Percentile(m) ELSE ConfidenceSequence(m)

\* What the metrics may be read as together.
Findings ==
  LET readings == [m \in DOMAIN gate |-> Readings(m)]
  IN  {f \in [DOMAIN gate -> UNION {readings[m] : m \in DOMAIN gate}] : \A m \in DOMAIN gate : f[m] \in readings[m]}

-----------------------------------------------------------------------------
(* The decisions, each an ordered list of checks.                          *)

\* Mutants: only a straddling guardrail is undecided.
DecideOnStraddle(f, fair) ==
  IF ~fair                                              THEN "inconclusive"
  ELSE IF \E g \in Guardrails : f[g] = "worse"          THEN "wave-off"
  ELSE IF \E g \in Guardrails : f[g] = "straddles"      THEN "inconclusive"
  ELSE IF Sample(Primary) = 0 \/ Sample(Primary) < floor THEN "inconclusive"
  ELSE IF f[Primary] = "straddles"                      THEN "inconclusive"
  ELSE IF f[Primary] = "acceptable"                     THEN "promote"
  ELSE "wave-off"

DecideSequentialOnStraddle(f, fair) ==
  IF ~fair                                              THEN "inconclusive"
  ELSE IF \E m \in DOMAIN gate : f[m] = "worse"         THEN "wave-off"
  ELSE IF \E m \in DOMAIN gate : f[m] = "straddles"     THEN "inconclusive"
  ELSE "promote"

\* decide, of the fixed-sample gate.
Decide(f, fair) ==
  IF ~fair                                              THEN "inconclusive"
  ELSE IF \E g \in Guardrails : f[g] = "worse"          THEN "wave-off"
  ELSE IF \E g \in Guardrails : f[g] # "acceptable"     THEN "inconclusive"
  ELSE IF Sample(Primary) = 0 \/ Sample(Primary) < floor THEN "inconclusive"
  ELSE IF f[Primary] = "straddles"                      THEN "inconclusive"
  ELSE IF f[Primary] = "acceptable"                     THEN "promote"
  ELSE "wave-off"

\* decideSequential, of a running canary.
DecideSequential(f, fair) ==
  IF ~fair                                              THEN "inconclusive"
  ELSE IF \E m \in DOMAIN gate : f[m] = "worse"         THEN "wave-off"
  ELSE IF f[Primary] = "straddles"                      THEN "inconclusive"
  ELSE IF \E g \in Guardrails : f[g] # "acceptable"     THEN "inconclusive"
  ELSE "promote"

\* An answer from elsewhere is refused if this build does not know its outcome
\* or it promotes on nothing.
Remote == {v \in [outcome : Outcomes, n : 0..Cardinality(Observed)] : ~(v.outcome = "promote" /\ v.n = 0)}

\* What Analyze may answer; without observations it is an error.
Verdicts ==
  IF Observed = {} THEN {}
  ELSE IF analyzer = "remote" THEN Remote
  ELSE LET fair == MissingnessOK(Missingness)
       IN  {[outcome |-> IF analyzer = "bootstrap" THEN Decide(f, fair) ELSE DecideSequential(f, fair),
             n |-> Sample(Primary)] : f \in Findings}

Failure == [outcome |-> "error", n |-> 0]

-----------------------------------------------------------------------------
(* What the arms tried to write.                                           *)

SessionsOf(a, among) == {s \in among : recorded[s].arm = a}

\* Only a shadow's candidate runs behind the suppressor, and only the
\* suppressor puts a call's effect into the recording.
Marked(s) == IF stage = "shadow" /\ recorded[s].arm = "candidate"
             THEN {t \in recorded[s].calls : Effect[t] = "write"} ELSE {}
WriteClasses(a, among) == UNION {Marked(s) : s \in SessionsOf(a, among)}

\* CompareActivity: a class of write that is new, with sessions on both arms.
Diverged(among) ==
  /\ \A a \in Arms : SessionsOf(a, among) # {}
  /\ ~(WriteClasses("candidate", among) \subseteq WriteClasses("incumbent", among))

-----------------------------------------------------------------------------
(* The gate on the gate: CheckJudges.                                      *)

\* Mutant: as old as the incumbent's is new enough.
RemeasuredOrEqual(old, new) == new.measuredAt # 0 /\ new.measuredAt >= old.measuredAt

Remeasured(old, new) == new.measuredAt # 0 /\ (old.measuredAt = 0 \/ new.measuredAt > old.measuredAt)

JudgesPass ==
  LET old == judge["incumbent"]
      new == judge["candidate"]
  IN  new # NoJudge =>
        /\ new.kappa = "good"
        /\ old # NoJudge /\ old.rubric # new.rubric => Remeasured(old, new)

-----------------------------------------------------------------------------
Init ==
  /\ stage \in DOMAIN Analyzers
  /\ analyzer \in Analyzers[stage]
  /\ gate \in Gates
  /\ floor \in IF analyzer = "bootstrap" THEN Floors ELSE {0}
  /\ judge \in IF stage = "offline" THEN Judges ELSE [Arms -> {NoJudge}]
  /\ withdraws \in IF stage = "shadow" THEN BOOLEAN ELSE {FALSE}
  /\ recorded = [s \in {} |-> Nothing]
  /\ phase = "idle"
  /\ attempted = {}
  /\ results = [ref \in {} |-> Nothing]
  /\ verdict = NoVerdict

\* Traffic: a session opens under an id that may sort anywhere, and calls tools.
Open(s, a) ==
  /\ stage # "offline" /\ s \notin DOMAIN recorded
  /\ recorded' = [t \in DOMAIN recorded \cup {s} |->
                    IF t = s THEN [arm |-> a, calls |-> {}] ELSE recorded[t]]
  /\ UNCHANGED <<setup, phase, attempted, results, verdict>>

Call(s, t) ==
  /\ s \in DOMAIN recorded /\ t \notin recorded[s].calls
  /\ recorded' = [recorded EXCEPT ![s].calls = @ \cup {t}]
  /\ UNCHANGED <<setup, phase, attempted, results, verdict>>

\* A pass ends with a verdict, or moves on without one.
Conclude(v) == verdict' = v /\ phase' = "idle"
\* Mutant: the last verdict stands while the next is worked out.
ProceedOnLast(p) == UNCHANGED verdict /\ phase' = p

Proceed(p)  == verdict' = NoVerdict /\ phase' = p

\* A scorer answers for any of the refs it is given, and says anything; asked
\* for many, it leaves few out (MaxRefs).
Score(refs) ==
  \E answered \in {rs \in SUBSET refs : 2 * Cardinality(refs) - Cardinality(rs) <= MaxRefs} : \E said \in [answered -> Answers], as \in Spellings[stage] :
    results' = [ref \in answered |-> [as |-> as, error |-> said[ref].error, metrics |-> said[ref].metrics]]

\* sessions: the first Limit in the order of their ids.
Selected == {s \in DOMAIN recorded :
               Limit = 0 \/ Cardinality({t \in DOMAIN recorded : t < s}) < Limit}

\* Advance begins with what the arms reached for.
Watch ==
  /\ stage # "offline" /\ phase = "idle"
  /\ attempted' = Selected
  /\ results' = [ref \in {} |-> Nothing]
  /\ IF Diverged(Selected) /\ withdraws THEN Conclude([outcome |-> "write-divergence", n |-> 0])
                                        ELSE Proceed("watched")
  /\ UNCHANGED <<setup, recorded>>

\* It lists the sessions anew to have them scored, each under its own arm.
Since ==
  /\ phase = "watched"
  /\ attempted' = Selected
  /\ \/ Score({Ref(s, recorded[s].arm) : s \in Selected}) /\ Proceed("scored")
     \/ Selected # {} /\ Conclude(Failure) /\ UNCHANGED results
  /\ UNCHANGED <<setup, recorded>>

\* RunOfflineReplay up to the analyzer, once, of a corpus of n sessions.  One
\* unusable under an arm is not scored under the other either; which they are
\* is all one to an offline stage, so the last ones are.
RunOfflineReplay(n, usable) ==
  /\ stage = "offline" /\ phase = "idle" /\ verdict = NoVerdict
  /\ attempted' = 1..n
  /\ \/ JudgesPass /\ usable > 0 /\ Score({Ref(s, a) : s \in 1..usable, a \in Arms})
        /\ Proceed("scored")
     \/ Conclude(Failure) /\ results' = [ref \in {} |-> Nothing]
  /\ UNCHANGED <<setup, recorded>>

\* The analyzer is asked, and answers or fails; a live stage with nothing
\* observed continues without asking.
Analyze ==
  /\ phase = "scored"
  /\ \/ Observed = {} /\ Conclude(IF stage = "offline" THEN Failure ELSE NoVerdict)
     \/ Observed # {} /\ analyzer = "remote" /\ Conclude(Failure)
     \/ \E v \in Verdicts : Conclude(v)
  /\ UNCHANGED <<setup, recorded, attempted, results>>

Sessions == 1..(IF stage \in DOMAIN MaxSessions THEN MaxSessions[stage] ELSE 0)

Next ==
  \/ \E s \in Sessions, a \in Arms : Open(s, a)
  \/ \E s \in Sessions, t \in Tools : Call(s, t)
  \/ Watch
  \/ Since
  \/ \E n \in Sessions, usable \in 0..MaxRefs : n + usable <= MaxRefs /\ usable <= n /\ RunOfflineReplay(n, usable)
  \/ Analyze

Spec == Init /\ [][Next]_vars

-----------------------------------------------------------------------------
(* Properties.                                                             *)

\* The state of a gate: what it is set up with, what it has and what it says.
TypeOK ==
  /\ stage \in DOMAIN Analyzers /\ analyzer \in Analyzers[stage] /\ gate \in Gates /\ floor \in Floors \cup {0}
  /\ judge \in Judges \cup [Arms -> {NoJudge}] /\ withdraws \in BOOLEAN
  /\ phase \in {"idle", "watched", "scored"}
  /\ DOMAIN recorded \subseteq Sessions
  /\ attempted \subseteq IF stage = "offline" THEN Sessions ELSE DOMAIN recorded
  /\ \A ref \in DOMAIN results : ref.item \in attempted /\ ref.arm \in Arms
  /\ verdict.outcome \in Outcomes \cup {"none", "error", "write-divergence"}
  /\ verdict.n \in 0..Cardinality(attempted)
  /\ phase # "idle" => verdict = NoVerdict

\* What was measured of a metric, straight from the scorer's answers.
Of(m, a)   == {ref \in DOMAIN results : ref.arm = a /\ Scored(ref) /\ m \in DOMAIN results[ref].metrics}
Pairs(m)   == {i \in Items : \A a \in Arms : Ref(i, a) \in Of(m, a)}
Value(r, m) == results[r].metrics[m]

\* A metric's evidence: some candidate value, or difference of two values that
\* may be compared, on the given side of its bound.
Evidence(m, good) ==
  \E c \in Of(m, "candidate"), i \in Of(m, "incumbent") :
    /\ stage = "live" \/ c.item = i.item
    /\ LET x == IF gate[m].test = "threshold" THEN Value(c, m) ELSE Value(c, m) - Value(i, m)
           higher == gate[m].direction = "higher"
           over == IF higher THEN x > gate[m].bound ELSE x < gate[m].bound
           at == x = gate[m].bound /\ gate[m].test = "threshold"
       IN  IF good THEN over \/ at ELSE ~over /\ x # gate[m].bound

\* An offline promotion by the built-in analyzer has every metric of its gate
\* measured on items scored under both arms, at least a floor of them for the
\* primary metric, some of which speak for the candidate; and no guardrail that
\* is a threshold was passed by any of them.  (bootstrap.go: no measurement is
\* not a pass.)
MeasuredPromotion ==
  verdict.outcome = "promote" /\ analyzer = "bootstrap" =>
    /\ verdict.n = Cardinality(Pairs(Primary)) /\ verdict.n >= floor /\ verdict.n > 0
    /\ \A m \in DOMAIN gate : Evidence(m, TRUE)
    /\ \A g \in Guardrails : gate[g].test = "threshold" =>
         \A i \in Pairs(Primary) \cap Pairs(g) :
           LET v == Value(Ref(i, "candidate"), g)
           IN  IF gate[g].direction = "higher" THEN v >= gate[g].bound ELSE v <= gate[g].bound

\* A live or shadow promotion by the built-in analyzer has a primary metric
\* measured under both arms, by scores that speak for the candidate.
\* (analysis.go: an implementation must never return OutcomePromote when it
\* could not complete.)
PromotionRestsOnBothArms ==
  verdict.outcome = "promote" /\ analyzer = "sequential" => Evidence(Primary, TRUE)

\* What such a promotion does rest on: no guardrail was left unmeasured, and a
\* primary metric that was measured spoke for the candidate.
GuardrailsAreEstablished ==
  verdict.outcome = "promote" /\ analyzer = "sequential" =>
    \A m \in DOMAIN gate : m \in Guardrails \/ verdict.n > 0 => Evidence(m, TRUE)

\* A candidate is waved off, by a built-in analyzer, only on evidence against
\* it, never for want of data; and for what it wrote only if it did reach for a
\* tool that writes, while both arms were serving.
WaveOffIsDemonstrated ==
  /\ verdict.outcome = "wave-off" /\ analyzer # "remote" => \E m \in DOMAIN gate : Evidence(m, FALSE)
  /\ verdict.outcome = "write-divergence" =>
       /\ \E s \in SessionsOf("candidate", attempted) : \E t \in recorded[s].calls : Effect[t] = "write"
       /\ SessionsOf("incumbent", attempted) # {}

\* The ways n fair coins fall at least as unevenly as b against c.
AsUneven(b, c) ==
  LET gap(x, y) == IF x < y THEN y - x ELSE x - y
  IN  Cardinality({heads \in SUBSET (1..(b + c)) :
                     gap(2 * Cardinality(heads), b + c) >= gap(b, c)})

\* An offline promotion rests on items that were lost neither too often nor to
\* one arm: excluded, unanswered and unscored ones are all counted as lost, by
\* whichever arm lost them.
SurvivorsAreFair ==
  verdict.outcome = "promote" /\ stage = "offline" /\ analyzer = "bootstrap" =>
    LET lost(a) == {s \in attempted : ~Scored(Ref(s, a))}
        b == Cardinality(lost("candidate") \ lost("incumbent"))
        c == Cardinality(lost("incumbent") \ lost("candidate"))
    IN  /\ Cardinality(lost("candidate") \cup lost("incumbent")) * MaxRate.den
             <= MaxRate.num * Cardinality(attempted)
        /\ ~(AsUneven(b, c) * Alpha.den < Alpha.num * 2 ^ (b + c))

\* mcNemarExact, one doubled tail, is the two-sided exact test, of as many
\* discordant items as the attempted ones may leave.
McNemarIsExact ==
  phase = "scored" =>
    \A b \in 0..Cardinality(attempted) : \A c \in 0..Cardinality(attempted) - b :
      McNemar(b, c) = AsUneven(b, c)

\* No session is judged by a judge that changed and carries the measurement of
\* its predecessor over: what is scored offline was scored after CheckJudges.
CopiedCalibrationIsRefused ==
  LET old == judge["incumbent"]
      new == judge["candidate"]
  IN  DOMAIN results # {} /\ stage = "offline" /\ NoJudge \notin {old, new} =>
        ~(old.rubric # new.rubric /\ old.kappa = new.kappa /\ old.measuredAt = new.measuredAt)
=============================================================================
