---------------------------- MODULE ReplayProofs ----------------------------
(***************************************************************************)
(* No recording answers two calls, a clean report means the whole recorded *)
(* path, a faithful replay is answered call by call and no write runs      *)
(* live, for any recordings, agents, servers, calls and faults.            *)
(***************************************************************************)
EXTENDS Replay, SequenceTheorems, FunctionTheorems, FiniteSetTheorems, WellFoundedInduction, TLAPS

Matches == {"exact", "hash", "tool", "none"}
Actions == {"serve", "forward", "no-op", "refuse"}
Answers == {"pending", "refused", "synthetic", "recorded", "live", "unavailable"}
Step    == [req: Requests, match: Matches, span: Nat, action: Actions, answer: Answers]

Typed ==
  /\ TypeOK
  /\ steps \in Seq(Step) /\ Len(steps) <= MaxSteps
  /\ output \in Seq([call: 1..MaxSteps, answer: Answers \cup {"lost"}])

\* What has been handed out is consumed, and nothing else is.
Taken == \A n \in DOMAIN steps : steps[n].span # 0 => Span(steps[n].span).step \in consumed
OnlyTaken == \A x \in consumed : \E n \in DOMAIN steps :
               steps[n].span # 0 /\ Span(steps[n].span).step = x

\* A call is answered by its own bytes, or by a call to the same tool.
Fits(q, i) == \/ Span(i).hash = q.hash
              \/ q.kind = "tool" /\ q.tool # NoTool /\ Span(i).tool = q.tool
HandedOut  == \A n \in DOMAIN steps : steps[n].span # 0 => Fits(steps[n].req, steps[n].span)

\* A call was decided by the policy, and is answered as decided or not at all.
Decided ==
  \A n \in DOMAIN steps :
    /\ steps[n].action = Decide(steps[n].req, steps[n].match # "none")
    /\ steps[n].answer \in {"pending", "unavailable", AnswerTo(steps[n])}

\* The report has every departure seen, and once it is closed every call missed.
Over     == phase \in {"finished", "stopped", "returned"}
Observed == \A n \in DOMAIN steps : Departure(steps[n].req, n) \subseteq divergences
Closed   == Over => \A n \in (Len(steps) + 1)..Len(run.recording) :
                      [at |-> n, kind |-> "missing-step"] \in divergences

\* An agent that has so far kept to the recording has consumed what it passed, and
\* is no further in its calls than in the recording.
InStep ==
  \A f \in [DOMAIN steps -> Spans] : Follows(f) =>
    /\ consumed = {Span(f[n]).step : n \in DOMAIN steps}
    /\ \A n \in DOMAIN steps : n <= f[n]

\* A call answered by a recording has one, and no other has.
Matched == \A n \in DOMAIN steps : steps[n].match # "none" <=> steps[n].span # 0

ReplayInv ==
  /\ Typed /\ Taken /\ OnlyTaken /\ HandedOut /\ EachRecordingAnswersOnce
  /\ Decided /\ Observed /\ Closed /\ Matched
  /\ InStep /\ FaithfulIsAnswered /\ SubstitutionIsReported

\* SubstitutionIsReported in parts: the recordings it is about, and a call that
\* took a recording with other arguments.
AllNamed   == Plain /\ \A i \in Spans : Span(i).kind = "tool" => Span(i).args # NoArgs
Swapped(n) == /\ \A k \in 1..n : steps[k].req.kind = "tool" => steps[k].req.args # NoArgs
              /\ steps[n].req.kind = "tool" /\ steps[n].span # 0
              /\ Span(steps[n].span).args # steps[n].req.args

LEMMA Swaps ==
  SubstitutionIsReported <=> (AllNamed => \A n \in DOMAIN steps : Swapped(n) => divergences # {})
BY DEF SubstitutionIsReported, AllNamed, Swapped
-----------------------------------------------------------------------------
(* The index.                                                              *)

LEMMA Indices ==
  ASSUME run \in Replays
  PROVE  /\ Len(run.recording) \in Nat /\ Spans = 1..Len(run.recording)
         /\ run.mode \in Modes /\ run.agent \subseteq Requests
<1>1. run.recording \in Seq({run.recording[i] : i \in DOMAIN run.recording})
  BY ReplayAssumption
<1>2. QED
  BY <1>1, ReplayAssumption, LenProperties DEF Spans

\* A set of positions has a first.
LEMMA FirstIsLeast ==
  ASSUME NEW S, S \subseteq Nat, S # {}
  PROVE  First(S) \in S /\ \A j \in S : First(S) <= j
<1>1. PICK i \in S : \A j \in S : <<j, i>> \notin OpToRel(<, Nat)
  BY WFMin, NatLessThanWellFounded, Zenon
<1>2. ASSUME NEW j \in S PROVE i <= j
  <2>1. ~(j < i)
    BY <1>1, <1>2, Zenon DEF OpToRel
  <2>2. QED
    BY <2>1
<1>3. QED
  BY <1>2, Zenon DEF First

LEMMA CandidatesAreSpans ==
  ASSUME NEW q
  PROVE  DOMAIN Strength = 1..4 /\ \A k \in 1..4 : Candidates(q)[k] \subseteq Spans
<1>1. DOMAIN Strength = 1..4
  BY DEF Strength
<1>2. ByStep(Len(steps)) \subseteq Spans
  BY DEF ByStep
<1>3. ASSUME NEW k \in 1..4 PROVE Candidates(q)[k] \subseteq Spans
  <2>1. k = 1 \/ k = 2 \/ k = 3 \/ k = 4
    OBVIOUS
  <2>2. QED
    BY <1>2, <2>1 DEF Candidates
<1>4. QED
  BY <1>1, <1>3

\* A request is answered by nothing, or by a span that answered none before.
LEMMA LookupIsUnused ==
  ASSUME run \in Replays, NEW q
  PROVE  LET m == Lookup(q)
         IN  \/ m = Miss
             \/ /\ m.match \in {"exact", "hash", "tool"} /\ m.span \in Spans
                /\ Span(m.span).step \notin consumed
<1> DEFINE found == {k \in DOMAIN Strength : Unused(Candidates(q)[k]) # {}}
           best  == First(found)
<1>1. CASE found = {}
  BY <1>1 DEF Lookup
<1>2. CASE found # {}
  <2>1. found \subseteq 1..4
    BY CandidatesAreSpans
  <2>2. found \subseteq Nat
    BY <2>1
  <2>3. best \in found
    BY <1>2, <2>2, FirstIsLeast
  <2>4. best \in 1..4 /\ Unused(Candidates(q)[best]) # {}
    BY <2>1, <2>3
  <2>5. Unused(Candidates(q)[best]) \subseteq Spans /\ Spans \subseteq Nat
    <3>1. Candidates(q)[best] \subseteq Spans
      BY <2>4, CandidatesAreSpans
    <3>2. Spans \subseteq Nat
      BY Indices
    <3>3. QED
      BY <3>1, <3>2 DEF Unused
  <2>6. First(Unused(Candidates(q)[best])) \in Unused(Candidates(q)[best])
    BY <2>4, <2>5, FirstIsLeast
  <2>7. Lookup(q) = [match |-> Strength[best], span |-> First(Unused(Candidates(q)[best]))]
    BY <1>2 DEF Lookup
  <2>8. Strength[best] \in {"exact", "hash", "tool"}
    BY <2>4 DEF Strength
  <2>9. QED
    BY <2>5, <2>6, <2>7, <2>8 DEF Unused
<1>3. QED
  BY <1>1, <1>2

\* A hash stands for the call.
LEMMA SameHash ==
  ASSUME run \in Replays, NEW i \in Spans, NEW q \in Requests, Span(i).hash = q.hash
  PROVE  Span(i).kind = q.kind /\ Span(i).tool = q.tool /\ Span(i).args = q.args
<1>1. \A r \in Replays : \A j \in DOMAIN r.recording, p \in Requests :
        r.recording[j].hash = p.hash =>
          /\ r.recording[j].kind = p.kind
          /\ r.recording[j].tool = p.tool
          /\ r.recording[j].args = p.args
  BY ReplayAssumption
<1>2. QED
  BY <1>1 DEF Span, Spans

\* What answers a request fits it; and where it is a call of other arguments, no
\* recording of its own is left.
LEMMA LookupFits ==
  ASSUME run \in Replays, NEW q \in Requests, NEW i, i = Lookup(q).span, i # 0
  PROVE  /\ Fits(q, i)
         /\ Span(i).args # q.args => Unused(Candidates(q)[3]) = {}
<1> DEFINE found == {k \in DOMAIN Strength : Unused(Candidates(q)[k]) # {}}
           best  == First(found)
<1>1. found # {}
  BY DEF Lookup, Miss
<1>2. found \subseteq 1..4 /\ found \subseteq Nat
  BY CandidatesAreSpans
<1>3. best \in found /\ \A j \in found : best <= j
  BY <1>1, <1>2, FirstIsLeast
<1>4. best \in 1..4 /\ Unused(Candidates(q)[best]) # {}
  BY <1>2, <1>3
<1>5. Unused(Candidates(q)[best]) \subseteq Nat
  <2>1. Candidates(q)[best] \subseteq Spans /\ Spans \subseteq Nat
    <3>1. Spans \subseteq Nat
      BY Indices
    <3>2. QED
      BY <1>4, <3>1, CandidatesAreSpans
  <2>2. QED
    BY <2>1 DEF Unused
<1>6. i = First(Unused(Candidates(q)[best]))
  BY <1>1 DEF Lookup
<1>7. i \in Candidates(q)[best]
  BY <1>4, <1>5, <1>6, FirstIsLeast DEF Unused
<1>8. i \in Spans
  BY <1>4, <1>7, CandidatesAreSpans
<1>9. CASE best = 1 \/ best = 2
  <2>1. Span(i).hash = q.hash
    BY <1>7, <1>9 DEF Candidates
  <2>2. QED
    BY <1>8, <2>1, SameHash DEF Fits
<1>10. CASE best = 3
  BY <1>7, <1>10 DEF Candidates, Fits
<1>11. CASE best = 4
  <2>1. 3 \notin found
    <3> HIDE DEF found, best
    <3>1. ~(best <= 3)
      BY <1>11
    <3>2. QED
      BY <1>3, <3>1
  <2>2. Unused(Candidates(q)[3]) = {}
    BY <2>1, CandidatesAreSpans
  <2>3. q.kind = "tool" /\ q.tool # NoTool /\ Span(i).tool = q.tool
    BY <1>7, <1>11 DEF Candidates
  <2>4. QED
    BY <2>2, <2>3 DEF Fits
<1>12. QED
  BY <1>4, <1>9, <1>10, <1>11

\* Recorded order is the order of steps, when these count from nought.
LEMMA RecordedOrder ==
  ASSUME run \in Replays, Numbered
  PROVE  \A n \in Spans : RecordedAt(n) = n
<1>1. Spans = 1..Len(run.recording) /\ Len(run.recording) \in Nat
  BY Indices
<1>2. ASSUME NEW i \in Spans PROVE Cardinality({j \in Spans : Before(j, i)}) = i - 1
  <2>1. \A j \in Spans : Before(j, i) <=> j < i
    BY <1>1 DEF Numbered, Before
  <2>2. {j \in Spans : Before(j, i)} = 1..(i - 1)
    BY <1>1, <2>1
  <2>3. Cardinality(1..(i - 1)) = i - 1
    BY <1>1, FS_Interval
  <2>4. QED
    BY <2>2, <2>3
<1>3. ASSUME NEW n \in Spans PROVE RecordedAt(n) = n
  <2>1. \A i \in Spans : Cardinality({j \in Spans : Before(j, i)}) = n - 1 <=> i = n
    BY <1>1, <1>2
  <2>2. QED
    BY <2>1, Zenon DEF RecordedAt
<1>4. QED
  BY <1>3

-----------------------------------------------------------------------------
(* The policy and the comparison.                                          *)

LEMMA DecideType ==
  ASSUME run \in Replays, NEW q, NEW found \in BOOLEAN
  PROVE  Decide(q, found) \in Actions
<1>1. run.mode \in Modes /\ run.effects \in [Tools -> {"read", "write", ""}]
  BY ReplayAssumption
<1>2. EffectOf(q.tool) \in {"read", "write", ""}
  BY <1>1 DEF EffectOf
<1>3. DecideTool(q, found) \in Actions
  BY <1>2 DEF DecideTool, Actions
<1>4. DecideModel(found) \in Actions
  BY <1>1 DEF DecideModel, Actions, Modes
<1>5. QED
  BY <1>3, <1>4 DEF Decide

LEMMA DepartureFields ==
  ASSUME NEW q, NEW n
  PROVE  \A d \in Departure(q, n) : d.at = n /\ d.kind # "missing-step"
BY DEF Departure

\* A call without departure is of the kind, and to the tool, of its recording.
LEMMA NoDeparture ==
  ASSUME NEW q, NEW n, Departure(q, n) = {}
  PROVE  /\ ~(n > Len(run.recording))
         /\ q.kind = Span(RecordedAt(n)).kind
         /\ q.kind = "tool" => q.tool = Span(RecordedAt(n)).tool
<1> DEFINE s == Span(RecordedAt(n))
<1> HIDE DEF s
<1>1. ~(n > Len(run.recording))
  BY DEF Departure
<1>2. ~(q.kind # s.kind \/ (q.kind = "tool" /\ q.tool # s.tool))
  BY <1>1 DEF Departure, s
<1>3. QED
  BY <1>1, <1>2 DEF s

\* The operators on the recording do not change while the replay is the same.
LEMMA SameRun ==
  ASSUME run' = run
  PROVE  /\ Spans' = Spans
         /\ \A i : Span(i)' = Span(i)
         /\ \A q, n : Departure(q, n)' = Departure(q, n)
         /\ \A q, f : Decide(q, f)' = Decide(q, f)
         /\ \A e : AnswerTo(e)' = AnswerTo(e)
         /\ Plain' = Plain
<1>1. Spans' = Spans
  BY DEF Spans
<1>2. \A i : Span(i)' = Span(i)
  BY DEF Span
<1>3. ASSUME NEW q, NEW n PROVE Departure(q, n)' = Departure(q, n)
  BY DEF Departure, RecordedAt, Before, Span, Spans
<1>4. ASSUME NEW q, NEW f PROVE Decide(q, f)' = Decide(q, f)
  BY DEF Decide, DecideModel, DecideTool, EffectOf
<1>5. ASSUME NEW e PROVE AnswerTo(e)' = AnswerTo(e)
  BY DEF AnswerTo, Span
<1>6. Plain' = Plain
  BY DEF Plain, Numbered, IsCall, Span, Spans
<1>7. QED
  BY <1>1, <1>2, <1>3, <1>4, <1>5, <1>6

\* Follows, of any calls made in this replay.
Kept(f, calls) ==
  /\ f \in [DOMAIN calls -> Spans]
  /\ \A k, n \in DOMAIN calls : k < n => f[k] < f[n]
  /\ \A n \in DOMAIN calls :
       /\ calls[n].req.hash = Span(f[n]).hash
       /\ \A i \in 1..f[n] : IsCall(i) <=> \E k \in DOMAIN calls : f[k] = i

LEMMA FollowsKept ==
  ASSUME run' = run, NEW f
  PROVE  /\ Follows(f) <=> run.mode = "fail" /\ Numbered /\ Kept(f, steps)
         /\ Follows(f)' <=> run.mode = "fail" /\ Numbered /\ Kept(f, steps')
<1>1. Follows(f) <=> run.mode = "fail" /\ Numbered /\ Kept(f, steps)
  BY Zenon DEF Follows, Retraces, Kept
<1>2. /\ Spans' = Spans /\ \A i : Span(i)' = Span(i)
  BY SameRun
<1>3. Numbered' = Numbered
  BY <1>2 DEF Numbered
<1>4. \A i : IsCall(i)' = IsCall(i)
  BY <1>2 DEF IsCall
<1>5. Follows(f)' <=> run.mode = "fail" /\ Numbered /\ Kept(f, steps')
  <2>1. Follows(f)' <=> /\ run'.mode = "fail" /\ Numbered'
                        /\ f \in [DOMAIN steps' -> Spans']
                        /\ \A k, n \in DOMAIN steps' : k < n => f[k] < f[n]
                        /\ \A n \in DOMAIN steps' :
                             /\ steps'[n].req.hash = Span(f[n])'.hash
                             /\ \A i \in 1..f[n] :
                                  IsCall(i)' <=> \E k \in DOMAIN steps' : f[k] = i
    BY Zenon DEF Follows, Retraces
  <2>2. QED
    BY <1>2, <1>3, <1>4, <2>1 DEF Kept
<1>6. QED
  BY <1>1, <1>5

-----------------------------------------------------------------------------
(* Steps.                                                                  *)

\* What the parts of the invariant read of the calls, besides their answers.
SameCalls ==
  /\ UNCHANGED <<run, consumed>>
  /\ steps' \in Seq(Step) /\ DOMAIN steps' = DOMAIN steps /\ Len(steps') = Len(steps)
  /\ \A n \in DOMAIN steps : /\ steps'[n].req = steps[n].req /\ steps'[n].match = steps[n].match
                              /\ steps'[n].span = steps[n].span
                              /\ steps'[n].action = steps[n].action

KeptByCalls ==
  /\ Taken /\ OnlyTaken /\ HandedOut /\ EachRecordingAnswersOnce /\ Observed
  /\ Matched /\ InStep /\ FaithfulIsAnswered /\ SubstitutionIsReported

\* Handing out, observing and keeping in step are about the calls alone; the
\* report may grow by missing calls.
LEMMA CallsKept ==
  ASSUME ReplayInv, SameCalls, divergences \subseteq divergences',
         \A d \in divergences' \ divergences : d.kind = "missing-step"
  PROVE  KeptByCalls'
<1> USE DEF SameCalls
<1>1. Taken'
  BY SameRun DEF ReplayInv, Taken
<1>2. EachRecordingAnswersOnce'
  BY DEF ReplayInv, EachRecordingAnswersOnce
<1>3. Observed'
  BY SameRun DEF ReplayInv, Observed
<1>4. /\ [DOMAIN steps -> Spans]' = [DOMAIN steps -> Spans]
      /\ \A f : Follows(f)' <=> Follows(f)
  <2>1. DOMAIN steps' = DOMAIN steps /\ Spans' = Spans
    BY SameRun
  <2>2. \A n \in DOMAIN steps : steps'[n].req = steps[n].req
    OBVIOUS
  <2>3. \A f : Kept(f, steps') <=> Kept(f, steps)
    BY <2>1, <2>2 DEF Kept
  <2>4. QED
    BY <2>1, <2>3, FollowsKept
<1>5. InStep'
  BY <1>4, SameRun DEF ReplayInv, InStep
<1>6. FaithfulIsAnswered' /\ Matched'
  <2>1. ASSUME NEW f \in [DOMAIN steps -> Spans], Follows(f)
        PROVE  /\ \A n \in DOMAIN steps : /\ steps'[n].span = f[n]
                                          /\ steps'[n].match = IF f[n] = n THEN "exact" ELSE "hash"
               /\ \A d \in divergences' :
                    d.kind # "missing-step" => d.at \in DOMAIN steps /\ f[d.at] # d.at
    BY <2>1 DEF ReplayInv, FaithfulIsAnswered
  <2>2. FaithfulIsAnswered'
    BY <1>4, <2>1 DEF FaithfulIsAnswered
  <2>3. Matched'
    BY DEF ReplayInv, Matched
  <2>4. QED
    BY <2>2, <2>3
<1>7. OnlyTaken' /\ HandedOut'
  <2>1. OnlyTaken'
    BY SameRun DEF ReplayInv, OnlyTaken
  <2>2. \A q, i : Fits(q, i)' <=> Fits(q, i)
    BY SameRun DEF Fits
  <2>3. HandedOut'
    BY <2>2 DEF ReplayInv, HandedOut
  <2>4. QED
    BY <2>1, <2>3
<1>8. SubstitutionIsReported'
  <2>1. DOMAIN steps = 1..Len(steps) /\ Len(steps) \in Nat
    BY LenProperties DEF ReplayInv, Typed
  <2>2. AllNamed' <=> AllNamed
    BY SameRun DEF AllNamed
  <2>3. ASSUME AllNamed', NEW n \in DOMAIN steps', Swapped(n)' PROVE divergences' # {}
    <3>1. n \in DOMAIN steps /\ \A k \in 1..n : k \in DOMAIN steps
      BY <2>1, <2>3
    <3>2. Swapped(n)
      BY <2>3, <3>1, SameRun DEF Swapped
    <3>3. QED
      BY <2>2, <2>3, <3>1, <3>2, Swaps DEF ReplayInv
  <2>4. SubstitutionIsReported' <=> (AllNamed' => \A n \in DOMAIN steps' :
                                       Swapped(n)' => divergences' # {})
    BY DEF SubstitutionIsReported, AllNamed, Swapped
  <2>5. QED
    BY <2>3, <2>4
<1>9. QED
  BY <1>1, <1>2, <1>3, <1>5, <1>6, <1>7, <1>8 DEF KeptByCalls

\* A step that observes and answers no call.
LEMMA QuietStep ==
  ASSUME ReplayInv, UNCHANGED <<run, consumed, steps, divergences>>, Over' => Over,
         phase' \in {"checking", "running", "exited", "finished", "stopped", "returned"},
         faults' \in 0..MaxFaults,
         output' \in Seq([call: 1..MaxSteps, answer: Answers \cup {"lost"}]),
         \A i \in DOMAIN output' : output'[i].call \in DOMAIN steps
  PROVE  ReplayInv'
<1>1. SameCalls
  BY DEF SameCalls, ReplayInv, Typed
<1>2. KeptByCalls'
  <2>1. divergences \subseteq divergences' /\ divergences' \ divergences = {}
    OBVIOUS
  <2>2. QED
    BY <1>1, <2>1, CallsKept
<1>3. Typed'
  <2>1. Spans' = Spans /\ \A i : Span(i)' = Span(i)
    BY SameRun
  <2>2. QED
    BY <2>1 DEF ReplayInv, Typed, TypeOK
<1>4. Decided'
  BY SameRun DEF ReplayInv, Decided
<1>5. Closed'
  BY DEF ReplayInv, Closed
<1>6. QED
  BY <1>2, <1>3, <1>4, <1>5 DEF ReplayInv, KeptByCalls

LEMMA FinishStep ==
  ASSUME ReplayInv, Finish
  PROVE  ReplayInv'
<1> DEFINE missing == {[at |-> n, kind |-> "missing-step"] :
                         n \in (Len(steps) + 1)..Len(run.recording)}
<1>1. UNCHANGED <<run, consumed, greeting, steps, drift, output, faults>>
      /\ phase' = "finished" /\ divergences' = divergences \cup missing
  BY DEF Finish
<1>2. SameCalls
  BY <1>1 DEF SameCalls, ReplayInv, Typed
<1>3. \A d \in missing : d.kind = "missing-step"
  OBVIOUS
<1>4. KeptByCalls'
  BY <1>1, <1>2, <1>3, CallsKept
<1>5. \A d \in missing : d.at \in 1..(MaxSteps + Len(run.recording))
  <2>1. Len(steps) \in Nat /\ Len(run.recording) \in Nat /\ MaxSteps \in Nat
    BY Indices, ReplayAssumption, LenProperties DEF ReplayInv, Typed, TypeOK
  <2>2. QED
    BY <2>1
<1>6. Typed'
  BY <1>1, <1>5, SameRun DEF ReplayInv, Typed, TypeOK
<1>7. Decided'
  BY <1>1, SameRun DEF ReplayInv, Decided
<1>8. Closed'
  BY <1>1 DEF Closed
<1>9. QED
  BY <1>4, <1>6, <1>7, <1>8 DEF ReplayInv, KeptByCalls

LEMMA AnswerStep ==
  ASSUME ReplayInv, NEW n, Answer(n)
  PROVE  ReplayInv'
<1>1. PICK x \in {AnswerTo(steps[n]), "unavailable"} :
        steps' = [steps EXCEPT ![n].answer = x]
  BY DEF Answer
<1>2. /\ n \in DOMAIN steps
      /\ UNCHANGED <<run, phase, consumed, greeting, divergences, drift, output>>
      /\ faults' = faults \/ (faults < MaxFaults /\ faults' = faults + 1)
  BY DEF Answer
<1>3. steps \in Seq(Step) /\ steps[n] \in Step /\ DOMAIN steps = 1..Len(steps)
  BY <1>2, ElementOfSeq, LenProperties DEF ReplayInv, Typed
<1>4. x \in Answers
  BY <1>3 DEF AnswerTo, Answers, Step, Actions
<1>5. [steps[n] EXCEPT !.answer = x] \in Step
  BY <1>3, <1>4 DEF Step
<1>6. steps' = [steps EXCEPT ![n] = [steps[n] EXCEPT !.answer = x]]
  BY <1>1, <1>3
<1>7. steps' \in Seq(Step) /\ Len(steps') = Len(steps) /\ DOMAIN steps' = DOMAIN steps
  BY <1>2, <1>3, <1>5, <1>6, ExceptSeq
<1>8. \A k \in DOMAIN steps : steps'[k] = IF k = n THEN [steps[n] EXCEPT !.answer = x]
                                                 ELSE steps[k]
  BY <1>2, <1>3, <1>6
<1>9. SameCalls
  <2>1. steps'[n].req = steps[n].req /\ steps'[n].match = steps[n].match
        /\ steps'[n].span = steps[n].span /\ steps'[n].action = steps[n].action
    BY <1>2, <1>3, <1>8 DEF Step
  <2>2. QED
    BY <1>2, <1>7, <1>8, <2>1 DEF SameCalls
<1>10. KeptByCalls'
  <2>1. divergences \subseteq divergences' /\ divergences' \ divergences = {}
    BY <1>2
  <2>2. QED
    BY <1>9, <2>1, CallsKept
<1>11. Typed'
  <2>1. faults' \in 0..MaxFaults
    <3>1. faults \in 0..MaxFaults /\ MaxFaults \in Nat
      BY ReplayAssumption DEF ReplayInv, Typed, TypeOK
    <3>2. QED
      BY <1>2, <3>1
  <2>2. \A k \in DOMAIN steps' :
          /\ steps'[k].req \in Requests
          /\ steps'[k].match \in Matches
          /\ steps'[k].span \in Spans \cup {0}
          /\ steps'[k].action \in Actions
    BY <1>9 DEF SameCalls, ReplayInv, Typed, TypeOK, Matches, Actions
  <2>3. QED
    BY <1>2, <1>7, <2>1, <2>2, SameRun DEF ReplayInv, Typed, TypeOK, Matches, Actions
<1>12. Decided'
  <2>1. \A k \in DOMAIN steps : steps'[k].answer \in {steps[k].answer, "unavailable", AnswerTo(steps[k])}
    BY <1>1, <1>3, <1>8 DEF Step
  <2>2. \A k \in DOMAIN steps : AnswerTo(steps'[k]) = AnswerTo(steps[k])
    BY <1>9 DEF SameCalls, AnswerTo
  <2>3. ASSUME NEW k \in DOMAIN steps
        PROVE  /\ steps'[k].action = Decide(steps'[k].req, steps'[k].match # "none")
               /\ steps'[k].answer \in {"pending", "unavailable", AnswerTo(steps'[k])}
    <3>1. /\ steps[k].action = Decide(steps[k].req, steps[k].match # "none")
          /\ steps[k].answer \in {"pending", "unavailable", AnswerTo(steps[k])}
      BY DEF ReplayInv, Decided
    <3>2. QED
      BY <1>9, <2>1, <2>2, <3>1 DEF SameCalls
  <2>4. QED
    BY <1>2, <1>7, <2>3, SameRun DEF Decided
<1>13. Closed'
  BY <1>2, <1>7 DEF ReplayInv, Closed, Over
<1>14. QED
  BY <1>10, <1>11, <1>12, <1>13 DEF ReplayInv, KeptByCalls

\* The next call of an agent that keeps to the recording is answered by the recording
\* it is, j: whatever has its bytes and was recorded before is a call, and was taken.
LEMMA NextInStep ==
  ASSUME run \in Replays, Len(steps) \in Nat, DOMAIN steps = 1..Len(steps), InStep,
         NEW f, Follows(f), NEW q \in Requests, NEW j \in Spans, q.hash = Span(j).hash,
         \A k \in DOMAIN steps : f[k] < j,
         \A i \in 1..j : IsCall(i) <=> i = j \/ \E k \in DOMAIN steps : f[k] = i
  PROVE  /\ Len(steps) + 1 <= j
         /\ Lookup(q) = [match |-> IF j = Len(steps) + 1 THEN "exact" ELSE "hash", span |-> j]
         /\ j = Len(steps) + 1 => Departure(q, Len(steps) + 1) = {}
<1> DEFINE n     == Len(steps) + 1
           found == {k \in DOMAIN Strength : Unused(Candidates(q)[k]) # {}}
<1>1. Spans = 1..Len(run.recording) /\ Len(run.recording) \in Nat
  BY Indices
<1>2. Numbered /\ \A i \in Spans : Span(i).step = i - 1
  BY DEF Follows, Numbered
<1>3. /\ f \in [DOMAIN steps -> Spans] /\ consumed = {Span(f[k]).step : k \in DOMAIN steps}
      /\ \A k \in DOMAIN steps : k <= f[k]
  BY DEF Follows, Retraces, InStep
<1>4. \A i \in Spans : Span(i).step \in consumed <=> \E k \in DOMAIN steps : f[k] = i
  <2>1. \A i, k \in Spans : Span(i).step = Span(k).step => i = k
    BY <1>1, <1>2
  <2>2. \A k \in DOMAIN steps : f[k] \in Spans
    BY <1>3
  <2>3. QED
    BY <1>3, <2>1, <2>2
<1>5. n <= j
  <2>1. CASE Len(steps) = 0
    BY <1>1, <2>1
  <2>2. CASE Len(steps) # 0
    <3>1. Len(steps) \in DOMAIN steps
      BY <2>2
    <3>2. f[Len(steps)] \in Spans /\ Len(steps) <= f[Len(steps)] /\ f[Len(steps)] < j
      BY <1>3, <3>1
    <3>3. QED
      BY <1>1, <3>2
  <2>3. QED
    BY <2>1, <2>2
<1>6. Span(j).step \notin consumed
  <2>1. \A k \in DOMAIN steps : f[k] # j
    BY <1>1, <1>3
  <2>2. QED
    BY <1>4, <2>1
<1>7. ASSUME NEW i \in Spans, i < j, Span(i).hash = q.hash PROVE Span(i).step \in consumed
  <2>1. IsCall(j)
    BY <1>1
  <2>2. Span(i).kind = Span(j).kind /\ Span(i).tool = Span(j).tool
    BY <1>7, SameHash
  <2>3. IsCall(i)
    BY <2>1, <2>2 DEF IsCall
  <2>4. i \in 1..j /\ i # j
    BY <1>1, <1>7
  <2>5. QED
    BY <1>4, <2>3, <2>4
<1>8. DOMAIN Strength = 1..4 /\ Strength[1] = "exact" /\ Strength[2] = "hash"
  BY DEF Strength
<1>9. Lookup(q) = [match |-> IF j = n THEN "exact" ELSE "hash", span |-> j]
  <2>1. ByStep(Len(steps)) = {n}
    BY <1>1, <1>2, <1>5 DEF ByStep
  <2>2. Candidates(q)[1] = {i \in {n} : Span(i).hash = q.hash}
    BY <2>1 DEF Candidates
  <2>3. Candidates(q)[2] = {i \in Spans : Span(i).hash = q.hash}
    BY DEF Candidates
  <2>4. /\ j \in Unused(Candidates(q)[2]) /\ Unused(Candidates(q)[2]) \subseteq Nat
        /\ \A i \in Unused(Candidates(q)[2]) : ~(i < j)
    BY <1>1, <1>6, <1>7, <2>3 DEF Unused
  <2>5. First(Unused(Candidates(q)[2])) = j
    <3> DEFINE S == Unused(Candidates(q)[2])
    <3>1. j \in S /\ S \subseteq Nat /\ S # {} /\ \A i \in S : ~(i < j)
      BY <2>4
    <3> HIDE DEF S
    <3>2. First(S) \in S /\ First(S) <= j
      BY <3>1, FirstIsLeast
    <3> DEFINE x == First(S)
    <3>3. x \in Nat /\ j \in Nat /\ ~(x < j) /\ x <= j
      BY <3>1, <3>2
    <3> HIDE DEF x
    <3>5. x = j
      BY <3>3
    <3>4. QED
      BY <3>5 DEF S, x
  <2>6. 2 \in found /\ found \subseteq 1..4
    BY <1>8, <2>4
  <2>7. /\ First(found) \in found /\ First(found) <= 2
        /\ \A k \in found : First(found) <= k
    <3> HIDE DEF found
    <3>1. found \subseteq Nat /\ found # {}
      BY <2>6
    <3>2. QED
      BY <2>6, <3>1, FirstIsLeast
  <2>8. Lookup(q) = [match |-> Strength[First(found)],
                     span |-> First(Unused(Candidates(q)[First(found)]))]
    BY <2>6 DEF Lookup
  <2>9. CASE j = n
    <3>1. Unused(Candidates(q)[1]) = {j}
      BY <1>6, <2>2, <2>9 DEF Unused
    <3>2. 1 \in found
      BY <1>8, <3>1
    <3>3. First(found) = 1
      <4> HIDE DEF found
      <4>1. First(found) \in 1..4 /\ First(found) <= 1
        BY <2>6, <2>7, <3>2
      <4>2. QED
        BY <4>1
    <3>4. First({j}) = j
      <4>1. {j} \subseteq Nat /\ {j} # {}
        BY <1>1
      <4>2. First({j}) \in {j}
        BY <4>1, FirstIsLeast
      <4>3. QED
        BY <4>2
    <3>5. QED
      BY <1>8, <2>8, <2>9, <3>1, <3>3, <3>4
  <2>10. CASE j # n
    <3>1. n \in Spans /\ n < j
      BY <1>1, <1>5, <2>10
    <3>2. Unused(Candidates(q)[1]) = {}
      BY <1>7, <2>2, <3>1 DEF Unused
    <3>3. 1 \notin found
      BY <3>2
    <3>4. First(found) = 2
      <4> HIDE DEF found
      <4>1. First(found) \in 1..4 /\ First(found) <= 2 /\ First(found) # 1
        BY <2>6, <2>7, <3>3
      <4>2. QED
        BY <4>1
    <3>5. QED
      BY <1>8, <2>5, <2>8, <2>10, <3>4
  <2>11. QED
    BY <2>9, <2>10
<1>10. ASSUME j = n PROVE Departure(q, n) = {}
  <2>1. RecordedAt(n) = n /\ ~(n > Len(run.recording))
    BY <1>1, <1>2, <1>10, RecordedOrder
  <2>2. Span(n).kind = q.kind /\ Span(n).tool = q.tool /\ Span(n).args = q.args
        /\ Span(n).hash = q.hash
    BY <1>10, SameHash
  <2> HIDE DEF n
  <2>3. QED
    BY <2>1, <2>2 DEF Departure
<1>11. QED
  BY <1>5, <1>9, <1>10

\* In a session the report has nothing against, a call and the span of its number
\* have the same arguments, when both have any.
LEMMA OwnArguments ==
  ASSUME run \in Replays, AllNamed, NEW q \in Requests, NEW n \in Nat \ {0},
         Departure(q, n) = {}, q.kind = "tool", q.args # NoArgs
  PROVE  /\ n \in Spans /\ q.tool # NoTool
         /\ Span(n).tool = q.tool /\ Span(n).args = q.args
<1>1. ~(n > Len(run.recording)) /\ Len(run.recording) \in Nat
  BY NoDeparture, Indices
<1>2. n \in Spans
  BY <1>1, Indices
<1>3. RecordedAt(n) = n
  BY <1>2, RecordedOrder DEF AllNamed, Plain
<1>4. Span(n).kind = q.kind /\ Span(n).tool = q.tool
  BY <1>3, NoDeparture
<1>5. q.tool # NoTool /\ Span(n).args # NoArgs
  BY <1>2, <1>4 DEF AllNamed, Plain, IsCall
<1>6. Span(n).args = q.args
  <2> DEFINE x == Span(n)
  <2>1. x = Span(RecordedAt(n))
    BY <1>3
  <2>2. x.kind = q.kind /\ x.tool = q.tool /\ x.args # NoArgs
    BY <1>4, <1>5
  <2> HIDE DEF x
  <2>3. SUFFICES ASSUME x.args # q.args PROVE FALSE
    BY DEF x
  <2>4. [at |-> n, kind |-> "different-arguments"] \in Departure(q, n)
    BY <1>1, <2>1, <2>2, <2>3 DEF Departure
  <2>5. QED
    BY <2>4
<1>7. QED
  BY <1>2, <1>4, <1>5, <1>6

\* Were a call to take the recording of other arguments unnoticed, every recording
\* of its own would be taken by an earlier call, and that one's own recording is
\* among them, for nothing was noticed of it either: the calls so far would have
\* taken more recordings than they are.
LEMMA SwapsShow ==
  ASSUME ReplayInv, AllNamed, divergences = {}, NEW q \in Requests,
         Departure(q, Len(steps) + 1) = {}, q.kind = "tool", q.args # NoArgs,
         \A k \in DOMAIN steps : steps[k].req.kind = "tool" => steps[k].req.args # NoArgs,
         NEW i, i = Lookup(q).span, i # 0, Span(i).args # q.args
  PROVE  FALSE
<1> DEFINE n == Len(steps) + 1
           X == {j \in Spans : Span(j).tool = q.tool /\ Span(j).args = q.args}
           C == {k \in DOMAIN steps : steps[k].span \in X}
           f == [k \in C |-> steps[k].span]
<1>1. /\ run \in Replays /\ DOMAIN steps = 1..Len(steps) /\ Len(steps) \in Nat
      /\ Len(run.recording) \in Nat /\ Spans = 1..Len(run.recording)
      /\ \A k \in DOMAIN steps : steps[k].req \in Requests /\ steps[k].span \in Spans \cup {0}
  BY Indices, LenProperties DEF ReplayInv, Typed, TypeOK
<1>2. n \in Nat \ {0}
  BY <1>1
<1>3. n \in X /\ q.tool # NoTool
  BY <1>1, <1>2, OwnArguments
<1>4. n \notin C
  BY <1>1
<1>5. IsFiniteSet(X)
  <2>1. IsFiniteSet(Spans)
    <3>1. \A m \in Nat : IsFiniteSet(1..m)
      BY FS_Interval
    <3>2. QED
      BY <1>1, <3>1
  <2>2. X \in SUBSET Spans
    OBVIOUS
  <2>3. QED
    BY <2>1, <2>2, FS_Subset
\* Every call that took one of these recordings is of the same tool and arguments.
<1>6. ASSUME NEW k \in C PROVE k \in X
  <2> DEFINE p == steps[k].req
             j == steps[k].span
  <2>1. /\ k \in DOMAIN steps /\ j \in Spans /\ j # 0 /\ p \in Requests
        /\ Span(j).tool = q.tool /\ Span(j).args = q.args /\ k \in Nat \ {0}
    BY <1>1
  <2>2. Fits(p, j)
    BY <2>1 DEF ReplayInv, HandedOut
  <2>3. Departure(p, k) = {}
    BY <2>1 DEF ReplayInv, Observed
  <2>4. p.kind = "tool" => p.args # NoArgs
    BY <2>1
  <2>5. p.kind = "tool" => p.args = Span(j).args
    <3>1. ~Swapped(k)
      BY <2>1, Swaps DEF ReplayInv
    <3>2. \A h \in 1..k : h \in DOMAIN steps
      BY <1>1, <2>1
    <3>3. QED
      BY <2>1, <3>1, <3>2 DEF Swapped
  <2> HIDE DEF p, j
  <2>6. p.kind = "tool" /\ p.tool = q.tool
    <3>1. CASE Span(j).hash = p.hash
      <4>1. p.tool = q.tool
        BY <1>1, <2>1, <3>1, SameHash
      <4>2. p.kind \in {"model", "tool"} /\ (p.kind = "model" => p.tool = NoTool)
        BY <2>1, ReplayAssumption
      <4>3. QED
        BY <1>3, <4>1, <4>2
    <3>2. CASE p.kind = "tool" /\ p.tool # NoTool /\ Span(j).tool = p.tool
      BY <2>1, <3>2
    <3>3. QED
      BY <2>2, <3>1, <3>2 DEF Fits
  <2>7. /\ k \in Spans /\ Span(k).tool = p.tool /\ Span(k).args = p.args
    BY <1>1, <2>1, <2>3, <2>4, <2>6, OwnArguments
  <2>8. QED
    BY <2>1, <2>5, <2>6, <2>7
\* And every one of these recordings was taken.
<1>7. ASSUME NEW j \in X PROVE \E k \in C : f[k] = j
  <2>1. Unused(Candidates(q)[3]) = {}
    BY <1>1, LookupFits
  <2>2. j \in Candidates(q)[3]
    BY <1>3 DEF Candidates
  <2>3. Span(j).step \in consumed
    BY <2>1, <2>2 DEF Unused
  <2>4. PICK k \in DOMAIN steps : steps[k].span # 0 /\ Span(steps[k].span).step = Span(j).step
    BY <2>3 DEF ReplayInv, OnlyTaken
  <2>5. steps[k].span = j
    <3>1. steps[k].span \in Spans /\ j \in Spans
      BY <1>1, <2>4
    <3>2. \A x \in Spans : Span(x).step = x - 1
      BY DEF AllNamed, Plain, Numbered
    <3>3. \A x, y \in Spans : Span(x).step = Span(y).step => x = y
      BY <1>1, <3>2
    <3>4. QED
      BY <2>4, <3>1, <3>3
  <2>6. QED
    BY <2>4, <2>5
<1>8. f \in Surjection(C, X)
  <2>1. f \in [C -> X]
    OBVIOUS
  <2>2. QED
    BY <1>7, <2>1, Fun_IsSurj
<1> HIDE DEF f
<1>9. C \in SUBSET X
  BY <1>6
<1> HIDE DEF C, X
<1>10. IsFiniteSet(C) /\ Cardinality(C) <= Cardinality(X)
       /\ (Cardinality(X) = Cardinality(C) => X = C)
  BY <1>5, <1>9, FS_Subset
<1>11. Cardinality(X) <= Cardinality(C)
  BY <1>8, <1>10, FS_Surjection
<1>12. Cardinality(X) \in Nat /\ Cardinality(C) \in Nat
  BY <1>5, <1>10, FS_CardinalityType
<1>13. X = C
  BY <1>10, <1>11, <1>12
<1>14. QED
  BY <1>3, <1>4, <1>13

LEMMA HandleStep ==
  ASSUME ReplayInv, NEW q \in run.agent, Handle(q)
  PROVE  ReplayInv'
<1> DEFINE m == Lookup(q)
           n == Len(steps) + 1
           e == [req |-> q, match |-> m.match, span |-> m.span,
                 action |-> Decide(q, m.match # "none"), answer |-> "pending"]
<1>1. /\ steps' = Append(steps, e) /\ Len(steps) < MaxSteps
      /\ consumed' = consumed \cup {Span(i).step : i \in {m.span} \ {0}}
      /\ divergences' = divergences \cup Departure(q, n)
      /\ UNCHANGED <<run, phase, greeting, drift, output, faults>>
  BY DEF Handle
<1>2. /\ run \in Replays /\ q \in Requests /\ Len(run.recording) \in Nat
      /\ Spans = 1..Len(run.recording) /\ MaxSteps \in Nat
  BY Indices, ReplayAssumption DEF ReplayInv, Typed, TypeOK
<1>3. /\ m.match \in Matches /\ m.span \in Spans \cup {0}
      /\ m.span # 0 => Span(m.span).step \notin consumed
  BY <1>2, LookupIsUnused DEF Miss, Matches
<1> HIDE DEF m
<1>4. e \in Step
  <2>1. Decide(q, m.match # "none") \in Actions
    BY <1>2, DecideType
  <2>2. m.span \in Nat
    BY <1>2, <1>3
  <2>3. QED
    BY <1>2, <1>3, <2>1, <2>2 DEF Step, Answers
<1>5. /\ e.req = q /\ e.match = m.match /\ e.span = m.span /\ e.answer = "pending"
      /\ e.action = Decide(q, m.match # "none")
  OBVIOUS
<1> HIDE DEF e
<1>6. steps \in Seq(Step) /\ Len(steps) \in Nat /\ DOMAIN steps = 1..Len(steps)
  BY LenProperties DEF ReplayInv, Typed
<1>7. /\ steps' \in Seq(Step) /\ Len(steps') = n /\ DOMAIN steps' = 1..n
      /\ steps'[n] = e /\ \A k \in 1..Len(steps) : steps'[k] = steps[k]
  BY <1>1, <1>4, <1>6, AppendProperties, LenProperties
<1>8. Typed'
  <2>1. consumed' \subseteq {Span(i).step : i \in Spans}
    BY <1>1, <1>3 DEF ReplayInv, Typed, TypeOK
  <2>2. \A k \in 1..n : /\ steps'[k].req \in Requests /\ steps'[k].match \in Matches
                         /\ steps'[k].span \in Spans \cup {0} /\ steps'[k].action \in Actions
    <3>1. steps'[n].req \in Requests /\ steps'[n].match \in Matches
          /\ steps'[n].span \in Spans \cup {0} /\ steps'[n].action \in Actions
      BY <1>2, <1>3, <1>4, <1>5, <1>7 DEF Step
    <3>2. ASSUME NEW k \in 1..Len(steps)
          PROVE  /\ steps'[k].req \in Requests /\ steps'[k].match \in Matches
                 /\ steps'[k].span \in Spans \cup {0} /\ steps'[k].action \in Actions
      BY <1>6, <1>7 DEF ReplayInv, Typed, TypeOK, Matches, Actions
    <3>3. QED
      BY <1>6, <3>1, <3>2
  <2>3. \A d \in divergences' : d.at \in 1..(MaxSteps + Len(run.recording))
    <3>1. n \in 1..(MaxSteps + Len(run.recording))
      BY <1>1, <1>2, <1>6
    <3>2. QED
      BY <1>1, <3>1, DepartureFields DEF ReplayInv, Typed, TypeOK
  <2>4. \A i \in DOMAIN output : output[i].call \in 1..n
    BY <1>6 DEF ReplayInv, Typed, TypeOK
  <2>5. n <= MaxSteps
    BY <1>1, <1>2, <1>6
  <2>6. \A i : Span(i)' = Span(i)
    BY <1>1, SameRun
  <2>7. QED
    <3>1. Spans' = Spans
      BY <1>1, SameRun
    <3>2. QED
      BY <1>1, <1>7, <2>1, <2>2, <2>3, <2>4, <2>5, <2>6, <3>1
      DEF ReplayInv, Typed, TypeOK, Matches, Actions
<1>9. Taken'
  <2>1. \A k \in 1..Len(steps) : steps[k].span # 0 => Span(steps[k].span).step \in consumed'
    BY <1>1, <1>6 DEF ReplayInv, Taken
  <2>2. m.span # 0 => Span(m.span).step \in consumed'
    BY <1>1
  <2>3. QED
    BY <1>1, <1>5, <1>6, <1>7, <2>1, <2>2, SameRun DEF Taken
<1>10. EachRecordingAnswersOnce'
  <2>1. \A k \in 1..Len(steps) : m.span # 0 => steps[k].span # m.span
    BY <1>3, <1>6 DEF ReplayInv, Taken
  <2>2. QED
    BY <1>5, <1>6, <1>7, <2>1 DEF ReplayInv, EachRecordingAnswersOnce
<1>11. Decided'
  <2>1. ASSUME NEW k \in 1..n
        PROVE  /\ steps'[k].action = Decide(steps'[k].req, steps'[k].match # "none")
               /\ steps'[k].answer \in {"pending", "unavailable", AnswerTo(steps'[k])}
    <3>1. CASE k = n
      BY <1>5, <1>7, <3>1
    <3>2. CASE k # n
      BY <1>6, <1>7, <3>2 DEF ReplayInv, Decided
    <3>3. QED
      BY <3>1, <3>2
  <2>2. QED
    BY <1>1, <1>7, <2>1, SameRun DEF Decided
<1>12. Observed'
  <2>1. ASSUME NEW k \in 1..n PROVE Departure(steps'[k].req, k) \subseteq divergences'
    <3>1. CASE k = n
      BY <1>1, <1>5, <1>7, <3>1
    <3>2. CASE k # n
      BY <1>1, <1>6, <1>7, <3>2 DEF ReplayInv, Observed
    <3>3. QED
      BY <3>1, <3>2
  <2>2. QED
    BY <1>1, <1>7, <2>1, SameRun DEF Observed
<1>13. Closed'
  <2>1. (n + 1)..Len(run.recording) \subseteq (Len(steps) + 1)..Len(run.recording)
    BY <1>2, <1>6
  <2>2. QED
    BY <1>1, <1>7, <2>1 DEF ReplayInv, Closed, Over
<1>14. OnlyTaken' /\ HandedOut'
  <2>1. \A x \in consumed' : x \in consumed \/ (m.span # 0 /\ x = Span(m.span).step)
    BY <1>1
  <2>2. ASSUME NEW x \in consumed'
        PROVE  \E k \in 1..n : steps'[k].span # 0 /\ Span(steps'[k].span).step = x
    <3>1. CASE x \in consumed
      <4>1. PICK k \in 1..Len(steps) : steps[k].span # 0 /\ Span(steps[k].span).step = x
        BY <1>6, <3>1 DEF ReplayInv, OnlyTaken
      <4>2. k \in 1..n /\ steps'[k] = steps[k]
        BY <1>6, <1>7
      <4>3. QED
        BY <4>1, <4>2
    <3>2. CASE m.span # 0 /\ x = Span(m.span).step
      <4>1. n \in 1..n
        BY <1>6
      <4>2. QED
        BY <1>5, <1>7, <3>2, <4>1
    <3>3. QED
      BY <2>1, <3>1, <3>2
  <2>3. OnlyTaken'
    BY <1>1, <1>7, <2>2 DEF OnlyTaken, Span
  <2>4. ASSUME NEW k \in 1..n, steps'[k].span # 0 PROVE Fits(steps'[k].req, steps'[k].span)
    <3>1. CASE k = n
      BY <1>2, <1>5, <1>7, <2>4, <3>1, LookupFits DEF m
    <3>2. CASE k # n
      <4>1. k \in 1..Len(steps)
        BY <1>6, <3>2
      <4>2. QED
        BY <1>6, <1>7, <2>4, <4>1 DEF ReplayInv, HandedOut
    <3>3. QED
      BY <3>1, <3>2
  <2>5. \A p, i : Fits(p, i)' <=> Fits(p, i)
    BY <1>1, SameRun DEF Fits
  <2>6. HandedOut'
    BY <1>7, <2>4, <2>5 DEF HandedOut
  <2>7. QED
    BY <2>3, <2>6
<1>15. SubstitutionIsReported'
  <2>1. AllNamed' <=> AllNamed
    BY <1>1, SameRun DEF AllNamed
  <2>2. ASSUME AllNamed', NEW k \in DOMAIN steps', Swapped(k)', divergences' = {} PROVE FALSE
    <3>1. AllNamed /\ divergences = {} /\ Departure(q, n) = {}
      BY <1>1, <2>1, <2>2
    <3>2. /\ \A j \in 1..k : steps'[j].req.kind = "tool" => steps'[j].req.args # NoArgs
          /\ steps'[k].req.kind = "tool" /\ steps'[k].span # 0
          /\ Span(steps'[k].span).args # steps'[k].req.args
      BY <1>1, <2>2, SameRun DEF Swapped
    <3>3. CASE k = n
      <4>1. q.kind = "tool" /\ m.span # 0 /\ Span(m.span).args # q.args
        BY <1>5, <1>7, <3>2, <3>3
      <4>2. \A j \in 1..n : steps'[j].req.kind = "tool" => steps'[j].req.args # NoArgs
        BY <3>2, <3>3
      <4>3. n \in 1..n /\ \A j \in 1..Len(steps) : j \in 1..n
        BY <1>6
      <4>4. q.args # NoArgs
        BY <1>5, <1>7, <4>1, <4>2, <4>3
      <4>5. \A j \in DOMAIN steps : steps[j].req.kind = "tool" => steps[j].req.args # NoArgs
        BY <1>6, <1>7, <4>2, <4>3
      <4>6. QED
        BY <1>2, <3>1, <4>1, <4>4, <4>5, SwapsShow DEF m
    <3>4. CASE k # n
      <4>1. k \in DOMAIN steps /\ \A j \in 1..k : j \in 1..Len(steps)
        BY <1>6, <1>7, <3>4
      <4>2. Swapped(k)
        BY <1>6, <1>7, <3>2, <4>1 DEF Swapped
      <4>3. QED
        BY <3>1, <4>1, <4>2, Swaps DEF ReplayInv
    <3>5. QED
      BY <3>3, <3>4
  <2>3. SubstitutionIsReported' <=> (AllNamed' => \A k \in DOMAIN steps' :
                                       Swapped(k)' => divergences' # {})
    BY DEF SubstitutionIsReported, AllNamed, Swapped
  <2>4. QED
    BY <2>2, <2>3
<1>16. Matched'
  <2>1. m.match # "none" <=> m.span # 0
    BY <1>2, LookupIsUnused DEF m, Miss
  <2>2. QED
    BY <1>5, <1>6, <1>7, <2>1 DEF ReplayInv, Matched
<1>17. ASSUME NEW f \in [DOMAIN steps' -> Spans'], Follows(f)'
       PROVE  /\ consumed' = {Span(f[k])'.step : k \in DOMAIN steps'}
              /\ \A k \in DOMAIN steps' : k <= f[k]
              /\ \A k \in DOMAIN steps' :
                   steps'[k].span = f[k] /\ steps'[k].match = IF f[k] = k THEN "exact" ELSE "hash"
              /\ \A d \in divergences' :
                   d.kind # "missing-step" => d.at \in DOMAIN steps' /\ f[d.at] # d.at
  <2> DEFINE g == [k \in 1..Len(steps) |-> f[k]]
             j == f[n]
  <2>1. /\ run.mode = "fail" /\ Numbered /\ f \in [1..n -> Spans] /\ n \in 1..n
        /\ \A h, k \in 1..n : h < k => f[h] < f[k]
        /\ \A k \in 1..n : /\ steps'[k].req.hash = Span(f[k]).hash
                           /\ \A i \in 1..f[k] : IsCall(i) <=> \E h \in 1..n : f[h] = i
    <3>1. run.mode = "fail" /\ Numbered /\ Kept(f, steps')
      BY <1>1, <1>17, FollowsKept
    <3>2. n \in 1..n
      BY <1>6
    <3>3. QED
      BY <1>7, <3>1, <3>2 DEF Kept
  <2>2. /\ j \in Spans /\ g \in [DOMAIN steps -> Spans]
        /\ \A k \in 1..Len(steps) : k \in 1..n /\ k < n /\ g[k] = f[k] /\ g[k] < j
    BY <1>6, <2>1
  <2>3. ASSUME NEW k \in 1..Len(steps), NEW i \in 1..g[k]
        PROVE  IsCall(i) <=> \E h \in 1..Len(steps) : g[h] = i
    <3>1. IsCall(i) <=> \E h \in 1..n : f[h] = i
      BY <2>1, <2>2
    <3>2. \A h \in 1..n : f[h] = i => h \in 1..Len(steps)
      <4>1. i < j
        BY <1>2, <2>2
      <4>2. \A h \in 1..n : h # n => h \in 1..Len(steps)
        BY <1>6
      <4>3. QED
        BY <1>2, <2>2, <4>1, <4>2
    <3>3. QED
      BY <2>2, <3>1, <3>2
  <2>4. \A i \in 1..j : IsCall(i) <=> i = j \/ \E h \in 1..Len(steps) : g[h] = i
    <3>1. \A h \in 1..n : h = n \/ h \in 1..Len(steps)
      BY <1>6
    <3>2. QED
      BY <2>1, <2>2, <3>1
  <2> HIDE DEF g, j
  <2>5. Follows(g)
    <3>1. \A k \in 1..Len(steps) : steps[k].req.hash = Span(g[k]).hash
      BY <1>7, <2>1, <2>2
    <3>2. \A h, k \in 1..Len(steps) : h < k => g[h] < g[k]
      BY <2>1, <2>2
    <3>3. QED
      BY <1>6, <2>1, <2>2, <2>3, <3>1, <3>2 DEF Follows, Retraces
  <2>6. q.hash = Span(j).hash
    BY <1>5, <1>7, <2>1 DEF j
  <2>7. /\ n <= j
        /\ m = [match |-> IF j = n THEN "exact" ELSE "hash", span |-> j]
        /\ j = n => Departure(q, n) = {}
    <3>1. \A k \in DOMAIN steps : g[k] < j
      BY <1>6, <2>2
    <3>2. \A i \in 1..j : IsCall(i) <=> i = j \/ \E k \in DOMAIN steps : g[k] = i
      BY <1>6, <2>4
    <3>3. InStep
      BY DEF ReplayInv
    <3>4. /\ Len(steps) + 1 <= j
          /\ Lookup(q) = [match |-> IF j = Len(steps) + 1 THEN "exact" ELSE "hash", span |-> j]
          /\ j = Len(steps) + 1 => Departure(q, Len(steps) + 1) = {}
      BY <1>2, <1>6, <2>2, <2>5, <2>6, <3>1, <3>2, <3>3, NextInStep
    <3>5. QED
      BY <3>4 DEF m
  <2>8. /\ consumed = {Span(g[k]).step : k \in 1..Len(steps)}
        /\ \A k \in 1..Len(steps) : k <= g[k]
    BY <1>6, <2>2, <2>5 DEF ReplayInv, InStep
  <2>9. /\ \A k \in 1..Len(steps) :
             steps[k].span = g[k] /\ steps[k].match = IF g[k] = k THEN "exact" ELSE "hash"
        /\ \A d \in divergences :
             d.kind # "missing-step" => d.at \in 1..Len(steps) /\ g[d.at] # d.at
    BY <1>6, <2>2, <2>5 DEF ReplayInv, FaithfulIsAnswered
  <2>10. \A k \in 1..n : k \in 1..Len(steps) \/ (k = n /\ f[k] = j)
    BY <1>6 DEF j
  <2>11. consumed' = {Span(f[k])'.step : k \in DOMAIN steps'}
    <3>1. consumed' = {Span(g[k]).step : k \in 1..Len(steps)} \cup {Span(j).step}
      BY <1>1, <1>2, <2>2, <2>7, <2>8
    <3>2. {Span(f[k]).step : k \in 1..n} = {Span(g[k]).step : k \in 1..Len(steps)} \cup {Span(j).step}
      <4>1. \A k \in 1..Len(steps) : k \in 1..n /\ Span(f[k]).step = Span(g[k]).step
        BY <2>2
      <4>2. n \in 1..n /\ Span(f[n]).step = Span(j).step
        BY <2>1 DEF j
      <4>3. \A k \in 1..n : k \in 1..Len(steps) \/ k = n
        BY <2>10
      <4>4. QED
        BY <4>1, <4>2, <4>3
    <3>3. \A k : Span(f[k])' = Span(f[k])
      BY <1>1 DEF Span
    <3>4. {Span(f[k])'.step : k \in DOMAIN steps'} = {Span(f[k]).step : k \in 1..n}
      BY <1>7, <3>3
    <3>5. QED
      BY <3>1, <3>2, <3>4
  <2>12. \A k \in 1..n : k <= f[k]
    BY <2>2, <2>7, <2>8, <2>10
  <2>13. \A k \in 1..n : steps'[k].span = f[k] /\ steps'[k].match = IF f[k] = k THEN "exact" ELSE "hash"
    BY <1>5, <1>7, <2>2, <2>7, <2>9, <2>10
  <2>14. ASSUME NEW d \in divergences', d.kind # "missing-step"
         PROVE  d.at \in 1..n /\ f[d.at] # d.at
    <3>1. CASE d \in divergences
      BY <2>2, <2>9, <2>14, <3>1
    <3>2. CASE d \in Departure(q, n)
      BY <2>1, <2>7, <3>2, DepartureFields DEF j
    <3>3. QED
      BY <1>1, <3>1, <3>2
  <2>15. QED
    BY <1>7, <2>11, <2>12, <2>13, <2>14
<1>18. InStep' /\ FaithfulIsAnswered'
  BY <1>17 DEF InStep, FaithfulIsAnswered
<1>19. QED
  BY <1>8, <1>9, <1>10, <1>11, <1>12, <1>13, <1>14, <1>15, <1>16, <1>18 DEF ReplayInv

LEMMA InitStep ==
  ASSUME Init
  PROVE  ReplayInv
<1>1. steps = <<>> /\ output = <<>> /\ consumed = {} /\ phase = "checking" /\ divergences = {}
      /\ run \in Replays /\ faults = 0
  BY DEF Init
<1>2. MaxSteps \in Nat /\ MaxFaults \in Nat
  BY ReplayAssumption
<1>3. Typed
  BY <1>1, <1>2 DEF Typed, TypeOK
<1>4. Taken /\ EachRecordingAnswersOnce /\ Decided /\ Observed /\ Closed /\ InStep /\ Matched
  BY <1>1 DEF Taken, EachRecordingAnswersOnce, Decided, Observed, Closed, Over, InStep, Matched
<1>5. FaithfulIsAnswered /\ OnlyTaken /\ HandedOut /\ SubstitutionIsReported
  BY <1>1 DEF FaithfulIsAnswered, OnlyTaken, HandedOut, SubstitutionIsReported
<1>6. QED
  BY <1>3, <1>4, <1>5 DEF ReplayInv

\* Writing a call down, or losing it.
LEMMA OutputStep ==
  ASSUME ReplayInv, NEW n, Keep(n) \/ Lose(n)
  PROVE  ReplayInv'
<1>1. PICK a \in {steps[n].answer, "lost"} : output' = Append(output, [call |-> n, answer |-> a])
  BY DEF Keep, Lose
<1>2. /\ n \in DOMAIN steps
      /\ UNCHANGED <<run, phase, consumed, greeting, steps, divergences, drift>>
      /\ faults' = faults \/ (faults < MaxFaults /\ faults' = faults + 1)
  BY DEF Keep, Lose, Unwritten
<1>3. faults' \in 0..MaxFaults
  <2>1. faults \in 0..MaxFaults /\ MaxFaults \in Nat
    BY ReplayAssumption DEF ReplayInv, Typed, TypeOK
  <2>2. QED
    BY <1>2, <2>1
<1>4. [call |-> n, answer |-> a] \in [call: 1..MaxSteps, answer: Answers \cup {"lost"}]
  <2>1. /\ steps \in Seq(Step) /\ Len(steps) \in Nat /\ DOMAIN steps = 1..Len(steps)
        /\ Len(steps) <= MaxSteps /\ MaxSteps \in Nat
    BY ReplayAssumption, LenProperties DEF ReplayInv, Typed
  <2>2. steps[n].answer \in Answers
    <3>1. steps[n] \in Step
      BY <1>2, <2>1, ElementOfSeq
    <3>2. QED
      BY <3>1 DEF Step
  <2>3. n \in 1..MaxSteps
    BY <1>2, <2>1
  <2>4. QED
    BY <1>1, <2>2, <2>3
<1>5. /\ output' \in Seq([call: 1..MaxSteps, answer: Answers \cup {"lost"}])
      /\ \A i \in DOMAIN output' : output'[i].call \in DOMAIN steps
  <2> DEFINE o == [call |-> n, answer |-> a]
             O == [call: 1..MaxSteps, answer: Answers \cup {"lost"}]
  <2>1. output \in Seq(O) /\ o \in O /\ o.call = n
        /\ \A i \in DOMAIN output : output[i].call \in DOMAIN steps
    BY <1>4 DEF ReplayInv, Typed, TypeOK
  <2>2. output' = Append(output, o)
    BY <1>1
  <2> HIDE DEF o, O
  <2>3. /\ output' \in Seq(O) /\ DOMAIN output' = 1..(Len(output) + 1)
        /\ output'[Len(output) + 1] = o /\ DOMAIN output = 1..Len(output) /\ Len(output) \in Nat
        /\ \A i \in 1..Len(output) : output'[i] = output[i]
    BY <2>1, <2>2, AppendProperties, LenProperties
  <2>4. \A i \in DOMAIN output' : output'[i].call \in DOMAIN steps
    BY <1>2, <2>1, <2>3
  <2>5. QED
    BY <2>3, <2>4 DEF O
<1>6. phase \in {"checking", "running", "exited", "finished", "stopped", "returned"}
  BY DEF ReplayInv, Typed, TypeOK
<1>7. QED
  BY <1>2, <1>3, <1>5, <1>6, QuietStep DEF Over

\* The driver's own steps, and the protocol exchanges.
LEMMA DriverStep ==
  ASSUME ReplayInv,
         CheckDrift \/ AgentExits \/ Shutdown \/ CloseOutput \/ (\E method : Greet(method))
         \/ UNCHANGED vars
  PROVE  ReplayInv'
<1>1. UNCHANGED <<run, consumed, steps, divergences, output, faults>>
  BY DEF CheckDrift, AgentExits, Shutdown, CloseOutput, Greet, vars
<1>2. /\ faults \in 0..MaxFaults
      /\ output \in Seq([call: 1..MaxSteps, answer: Answers \cup {"lost"}])
      /\ \A i \in DOMAIN output : output[i].call \in DOMAIN steps
      /\ phase \in {"checking", "running", "exited", "finished", "stopped", "returned"}
  BY DEF ReplayInv, Typed, TypeOK
<1>3. /\ Over' => Over
      /\ phase' \in {"checking", "running", "exited", "finished", "stopped", "returned"}
  BY <1>2 DEF CheckDrift, AgentExits, Shutdown, CloseOutput, Greet, vars, Over
<1>4. QED
  BY <1>1, <1>2, <1>3, QuietStep

LEMMA ReplayInvariant == Spec => []ReplayInv
<1>1. Init => ReplayInv
  BY InitStep
<1>2. ReplayInv /\ [Next]_vars => ReplayInv'
  <2> SUFFICES ASSUME ReplayInv, [Next]_vars PROVE ReplayInv'
    OBVIOUS
  <2>1. CASE CheckDrift \/ AgentExits \/ Shutdown \/ CloseOutput \/ UNCHANGED vars
    BY <2>1, DriverStep
  <2>2. CASE Finish
    BY <2>2, FinishStep
  <2>3. ASSUME NEW q \in run.agent, Handle(q) PROVE ReplayInv'
    BY <2>3, HandleStep
  <2>4. ASSUME NEW n \in 1..MaxSteps, Answer(n) PROVE ReplayInv'
    BY <2>4, AnswerStep
  <2>5. ASSUME NEW n \in 1..MaxSteps, Keep(n) \/ Lose(n) PROVE ReplayInv'
    BY <2>5, OutputStep
  <2>6. ASSUME NEW method \in {"initialize", "ping"}, Greet(method) PROVE ReplayInv'
    BY <2>6, DriverStep
  <2>7. QED
    BY <2>1, <2>2, <2>3, <2>4, <2>5, <2>6 DEF Next
<1>3. QED
  BY <1>1, <1>2, PTL DEF Spec

-----------------------------------------------------------------------------
(* Theorems.                                                               *)

\* Every variable keeps its type, for any recordings, agents and bounds.
THEOREM ReplayTypeCorrect == Spec => []TypeOK
<1>1. ReplayInv => TypeOK
  BY DEF ReplayInv, Typed
<1>2. QED
  BY <1>1, ReplayInvariant, PTL

\* No span answers two calls, in whatever order calls arrive and however many
\* there are: Lookup takes only what is not consumed, and consumes what it takes.
THEOREM NoRecordingAnswersTwice == Spec => []EachRecordingAnswersOnce
<1>1. ReplayInv => EachRecordingAnswersOnce
  BY DEF ReplayInv
<1>2. QED
  BY <1>1, ReplayInvariant, PTL

\* A report without divergence is of the whole recorded path, call by call, though
\* calls still arrive while Finish and Shutdown close it.
THEOREM CleanIsWhole == Spec => []CleanMeansWholePath
<1>1. ReplayInv => CleanMeansWholePath
  <2> SUFFICES ASSUME ReplayInv, Over, divergences = {}
               PROVE  /\ Len(steps) = Len(run.recording)
                      /\ \A n \in DOMAIN steps :
                           /\ steps[n].req.kind = Span(RecordedAt(n)).kind
                           /\ steps[n].req.kind = "tool" =>
                                steps[n].req.tool = Span(RecordedAt(n)).tool
    BY DEF CleanMeansWholePath, Over
  <2>1. /\ Len(steps) \in Nat /\ DOMAIN steps = 1..Len(steps) /\ Len(run.recording) \in Nat
    BY Indices, LenProperties DEF ReplayInv, Typed, TypeOK
  <2>2. \A n \in DOMAIN steps : Departure(steps[n].req, n) = {}
    BY DEF ReplayInv, Observed
  <2>3. ~(Len(steps) < Len(run.recording))
    <3>1. SUFFICES ASSUME Len(steps) < Len(run.recording) PROVE FALSE
      OBVIOUS
    <3>2. Len(steps) + 1 \in (Len(steps) + 1)..Len(run.recording)
      BY <2>1, <3>1
    <3>3. QED
      BY <3>2 DEF ReplayInv, Closed
  <2>4. ~(Len(steps) > Len(run.recording))
    <3>1. SUFFICES ASSUME Len(steps) > Len(run.recording) PROVE FALSE
      OBVIOUS
    <3>2. Len(steps) \in DOMAIN steps
      BY <2>1, <3>1
    <3>3. QED
      BY <2>2, <3>1, <3>2, NoDeparture
  <2>5. Len(steps) = Len(run.recording)
    BY <2>1, <2>3, <2>4
  <2>6. ASSUME NEW n \in DOMAIN steps
        PROVE  /\ steps[n].req.kind = Span(RecordedAt(n)).kind
               /\ steps[n].req.kind = "tool" => steps[n].req.tool = Span(RecordedAt(n)).tool
    BY <2>2, NoDeparture
  <2>7. QED
    BY <2>5, <2>6
<1>2. QED
  BY <1>1, ReplayInvariant, PTL

\* An agent that makes the recorded calls in order is answered each from its own
\* recording, wherever handshakes were recorded among them and whichever calls are
\* alike; only calls behind a handshake are reported, and calls not yet made.
THEOREM FaithfulGetsItsOwn == Spec => []FaithfulIsAnswered
<1>1. ReplayInv => FaithfulIsAnswered
  BY DEF ReplayInv
<1>2. QED
  BY <1>1, ReplayInvariant, PTL

\* A call that takes the recording of one with other arguments does so in a session
\* that diverged, however many calls there are and whichever repeat: while nothing
\* is reported, the calls have taken no more recordings of a tool and its arguments
\* than they are, and one is left for each.
THEOREM SubstitutionsAreReported == Spec => []SubstitutionIsReported
<1>1. ReplayInv => SubstitutionIsReported
  BY DEF ReplayInv
<1>2. QED
  BY <1>1, ReplayInvariant, PTL

\* Whatever servers a replay can reach and whatever is forked: a write never runs
\* live, nothing does in the mode that replays both planes, and a read only where it
\* was forked, in hybrid mode.
THEOREM WritesNeverRun == Spec => []OnlyNamedReadsRunLive
<1>1. ReplayInv => OnlyNamedReadsRunLive
  <2> SUFFICES ASSUME ReplayInv, NEW n \in DOMAIN steps, steps[n].answer = "live"
               PROVE  IF steps[n].req.kind = "model"
                      THEN /\ run.mode # "fail"
                           /\ run.mode = "hybrid" => steps[n].span = 0
                      ELSE /\ run.mode = "hybrid"
                           /\ steps[n].req.tool \in run.forked \cap run.endpoints
                           /\ run.effects[steps[n].req.tool] = "read"
    BY DEF OnlyNamedReadsRunLive
  <2> DEFINE e == steps[n]
             found == e.match # "none"
  <2>1. /\ AnswerTo(e) = "live" /\ e.action = Decide(e.req, found)
        /\ found <=> e.span # 0
    BY DEF ReplayInv, Decided, Matched
  <2>2. e.action \in Actions /\ e.req \in Requests
    BY DEF ReplayInv, Typed, TypeOK, Actions
  <2> HIDE DEF e, found
  <2>3. /\ e.action = "forward"
        /\ e.req.kind = "tool" => e.req.tool \in run.endpoints
    BY <2>1, <2>2 DEF AnswerTo, Actions
  <2>4. CASE e.req.kind = "model"
    <3>1. DecideModel(found) = "forward"
      BY <2>1, <2>3, <2>4 DEF Decide
    <3>2. run.mode # "fail" /\ (run.mode = "hybrid" => ~found)
      BY <3>1 DEF DecideModel
    <3>3. QED
      BY <2>1, <2>4, <3>2 DEF e
  <2>5. CASE e.req.kind # "model"
    <3>1. e.req.kind = "tool"
      BY <2>2, <2>5, ReplayAssumption
    <3>2. DecideTool(e.req, found) = "forward"
      BY <2>1, <2>3, <2>5 DEF Decide
    <3>3. EffectOf(e.req.tool) \in {"read", "write", ""}
      <4>1. run \in Replays
        BY DEF ReplayInv, Typed, TypeOK
      <4>2. run.effects \in [Tools -> {"read", "write", ""}]
        BY <4>1, ReplayAssumption
      <4>3. QED
        BY <4>2 DEF EffectOf
    <3>4. /\ EffectOf(e.req.tool) = "read"
          /\ run.mode = "hybrid" /\ e.req.tool \in run.forked
      BY <3>2, <3>3 DEF DecideTool
    <3>5. run.effects[e.req.tool] = "read"
      BY <3>4 DEF EffectOf
    <3>6. QED
      BY <2>3, <2>5, <3>1, <3>4, <3>5 DEF e
  <2>6. QED
    BY <2>4, <2>5
<1>2. QED
  BY <1>1, ReplayInvariant, PTL
=============================================================================
