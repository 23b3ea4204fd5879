------------------------------- MODULE MCGate -------------------------------
(***************************************************************************)
(* A gate of a primary metric p and a guardrail g, one an interval and the *)
(* other a threshold, or of p alone.  Offline, one pair can remain when    *)
(* two of three items were lost to one arm, which is lopsided, or three of *)
(* four to both, which is too many; a floor of two refuses it.             *)
(***************************************************************************)
EXTENDS Gate, TLC

CONSTANTS p, g,  \* metrics
          w      \* a tool that writes

Interval(b)  == [test |-> "interval", direction |-> "higher", bound |-> b]
AtLeast(b)   == [test |-> "threshold", direction |-> "higher", bound |-> b]
AtMost(b)    == [test |-> "threshold", direction |-> "lower", bound |-> b]

MCGates == {p :> AtLeast(1), (p :> Interval(-1)) @@ (g :> AtMost(0)), (p :> AtLeast(1)) @@ (g :> Interval(-1))}
MCFloors == {1, 2}
MCAnswers ==
  {[error |-> TRUE, metrics |-> Nothing]} \cup
  {[error |-> FALSE, metrics |-> f] : f \in {p :> 1, g :> 0, (p :> 1) @@ (g :> 0), (p :> 0) @@ (g :> 1)}}
Judge(r, k, at) == [rubric |-> r, kappa |-> k, measuredAt |-> at]
Judged(i, c)    == [incumbent |-> i, candidate |-> c]
MCJudges == {Judged(NoJudge, Judge("r1", "none", 0)),
             Judged(Judge("r1", "good", 1), Judge("r1", "low", 1)),
             Judged(Judge("r1", "good", 0), Judge("r2", "good", 0)),
             Judged(Judge("r1", "good", 1), Judge("r2", "good", 1)),
             Judged(Judge("r1", "good", 1), Judge("r2", "good", 2))}

MCAnalyzers   == [offline |-> {"bootstrap"}, shadow |-> {"sequential", "remote"}, live |-> {"sequential"}]
MCSpellings   == [offline |-> {"exact"}, shadow |-> {"exact", "folded"}, live |-> {"exact", "folded"}]
MCMaxSessions == [offline |-> 5, shadow |-> 2, live |-> 3]
MCAlpha == [num |-> 3, den |-> 5]
MCMaxRate == [num |-> 2, den |-> 3]
MCEffect == [t \in {w} |-> "write"]
=============================================================================
