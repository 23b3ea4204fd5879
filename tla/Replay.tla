------------------------------- MODULE Replay -------------------------------
(***************************************************************************)
(* One replay: the server that answers an agent from a cassette, and the   *)
(* driver that starts it, waits for the agent, closes the report and the   *)
(* output cassette and returns.                                            *)
(*                                                                         *)
(* Handlers run concurrently.  Each looks its request up, decides and      *)
(* observes under the server's mutex (Handle), answers outside it          *)
(* (Answer), and appends to the output under the output's own mutex        *)
(* (Keep, Lose).  The driver ends the replay on its own schedule: it waits *)
(* for neither the handlers nor the requests already in its socket.        *)
(***************************************************************************)
EXTENDS Integers, Sequences, FiniteSets

CONSTANTS
  Replays,      \* what may be replayed: a cassette, a candidate and a mode
  Requests,     \* calls an agent may make
  Worlds,       \* what the tool servers may advertise: tool -> Adverts
  Tools,        \* names of tools
  NoTool,       \* the name in a request that calls no tool
  NoArgs,       \* the arguments of a call that has none
  MaxSteps,     \* bound: calls
  MaxFaults     \* bound: failed writes of the output and failed live calls

Modes    == {"fail", "model-live-tools-replayed", "hybrid"}
Strength == <<"exact", "hash", "tool", "tool">>
Adverts  == {"same", "changed", "gone", "unreachable"}

\* A hash is a value that tells the normalised bytes of two requests apart.  A
\* cassette's spans carry their step, whether a contract was recorded with them
\* and whether their payload can be read.  The endpoints are the tools whose server
\* a replay can reach: NewServer takes any, Driver.Replay gives it none.
ASSUME ReplayAssumption ==
  /\ \A r \in Replays :
       /\ r.mode \in Modes
       /\ r.effects \in [Tools -> {"read", "write", ""}]
       /\ r.forked \subseteq Tools /\ r.endpoints \subseteq Tools
       /\ r.agent \subseteq Requests
       /\ r.recording \in Seq({r.recording[i] : i \in DOMAIN r.recording})
       /\ r.mode = "model-live-tools-replayed" => r.provider
       /\ \A i \in DOMAIN r.recording, q \in Requests :
            r.recording[i].hash = q.hash =>
              /\ r.recording[i].kind = q.kind
              /\ r.recording[i].tool = q.tool
              /\ r.recording[i].args = q.args
  /\ \A q \in Requests : /\ q.kind \in {"model", "tool"}
                         /\ q.kind = "model" => q.tool = NoTool
  /\ NoTool \notin Tools
  /\ MaxSteps \in Nat /\ MaxFaults \in Nat

VARIABLES
  run,          \* the replay under way, fixed at the start
  phase,        \* Driver.Replay's progress
  consumed,     \* Index: steps whose recording has been handed out
  greeting,     \* Server: the span last handed out for a protocol exchange, or 0
  steps,        \* Report: the calls observed, in order, with their handlers' progress
  divergences,  \* Report: {[at, kind]}
  drift,        \* Report: tool -> status
  output,       \* the output cassette: the calls written to it, in order
  faults        \* failed writes and live calls so far

vars == <<run, phase, consumed, greeting, steps, divergences, drift, output, faults>>

-----------------------------------------------------------------------------
(* The index of a cassette.                                                *)

Spans == DOMAIN run.recording
Span(i) == run.recording[i]

\* Spans(): recorded order is by step, and by position where steps are equal.
Before(i, j) == \/ Span(i).step < Span(j).step
                \/ Span(i).step = Span(j).step /\ i < j
RecordedAt(n) == CHOOSE i \in Spans : Cardinality({j \in Spans : Before(j, i)}) = n - 1

\* Mutant: steps counted from one.
ByStepFromOne(n) == {i \in Spans : Span(i).step = n + 1}

\* byStep keeps the last span of a step.  Consumption is by step as well, for no
\* span has an id of its own.
ByStep(n) == {i \in Spans : Span(i).step = n /\ \A j \in Spans : Span(j).step = n => j <= i}
AnyOf(S)  == S   \* mutant of Unused: consumption is not looked at
Unused(S) == {i \in S : Span(i).step \notin consumed}
First(S)  == CHOOSE i \in S : \A j \in S : i <= j

\* What may answer a request, strongest first: the same bytes at the same step,
\* the same bytes, the same tool with the same arguments, the same tool.
Candidates(q) ==
  LET sameTool == {i \in Spans : q.kind = "tool" /\ q.tool # NoTool /\ Span(i).tool = q.tool}
  IN  << {i \in ByStep(Len(steps)) : Span(i).hash = q.hash},
         {i \in Spans : Span(i).hash = q.hash},
         {i \in sameTool : q.args # NoArgs /\ Span(i).args = q.args},
         sameTool >>

Miss == [match |-> "none", span |-> 0]

\* The first unused candidate of the strongest kind.
Lookup(q) ==
  LET found == {k \in DOMAIN Strength : Unused(Candidates(q)[k]) # {}}
  IN  IF found = {} THEN Miss
      ELSE [match |-> Strength[First(found)], span |-> First(Unused(Candidates(q)[First(found)]))]

-----------------------------------------------------------------------------
(* The policy, and the comparison with the recording.                      *)

DecideModel(found) ==
  CASE run.mode = "model-live-tools-replayed" -> "forward"
    [] run.mode = "hybrid" -> IF found THEN "serve" ELSE "forward"
    [] run.mode = "fail"   -> IF found THEN "serve" ELSE "refuse"

EffectOf(tool) == IF tool \in Tools THEN run.effects[tool] ELSE ""

DecideTool(q, found) ==
  LET effect == EffectOf(q.tool)
      forked == run.mode = "hybrid" /\ q.tool \in run.forked
  IN  CASE effect = ""                    -> "refuse"
        [] effect = "read" /\ forked      -> "forward"
        [] effect = "write" /\ forked     -> "refuse"
        [] effect = "write" /\ ~forked    -> "no-op"
        [] effect = "read" /\ ~forked     -> IF found THEN "serve" ELSE "refuse"

Decide(q, found) == IF q.kind = "model" THEN DecideModel(found) ELSE DecideTool(q, found)

\* Mutant: arguments are not compared.
DepartureInTool(q, n) ==
  LET s == Span(RecordedAt(n))
      kinds == IF n > Len(run.recording) THEN {"extra-step"}
               ELSE IF q.kind # s.kind \/ (q.kind = "tool" /\ q.tool # s.tool)
                    THEN {"different-tool"} ELSE {}
  IN  {[at |-> n, kind |-> k] : k \in kinds}

\* How call n departs from the n-th recorded span: at most one divergence, the
\* first that applies.  Arguments missing on either side are not compared, nor is
\* the input of a model that is meant to diverge.
Departure(q, n) ==
  LET s == Span(RecordedAt(n))
      otherTool  == q.kind # s.kind \/ (q.kind = "tool" /\ q.tool # s.tool)
      otherArgs  == q.kind = "tool" /\ NoArgs \notin {q.args, s.args} /\ q.args # s.args
      otherInput == q.kind = "model" /\ run.mode = "fail" /\ q.hash # s.hash
      kinds == IF n > Len(run.recording) THEN {"extra-step"}
               ELSE IF otherTool THEN {"different-tool"}
               ELSE IF otherArgs THEN {"different-arguments"}
               ELSE IF otherInput THEN {"different-model-input"} ELSE {}
  IN  {[at |-> n, kind |-> k] : k \in kinds}

-----------------------------------------------------------------------------
(* Contract drift: the first span of a tool says what was recorded.        *)

Recorded == {Span(i).tool : i \in Spans} \ {NoTool}
FirstSpanOf(tool) ==
  CHOOSE i \in Spans : Span(i).tool = tool /\ \A j \in Spans : Span(j).tool = tool => ~Before(j, i)

DriftOf(tool, world) ==
  CASE world[tool] = "unreachable" \/ ~Span(FirstSpanOf(tool)).contract -> "unknown"
    [] OTHER -> CASE world[tool] = "gone"    -> "removed"
                  [] world[tool] = "changed" -> "changed"
                  [] world[tool] = "same"    -> "current"

Stale   == \E tool \in DOMAIN drift : drift[tool] \in {"changed", "removed"}
Refused == {n \in DOMAIN steps : steps[n].action = "refuse"}
Usable  == ~Stale /\ Refused = {} /\ steps # <<>>

-----------------------------------------------------------------------------
Init ==
  /\ run \in Replays
  /\ phase = "checking"
  /\ consumed = {} /\ greeting = 0
  /\ steps = <<>> /\ divergences = {} /\ drift = <<>>
  /\ output = <<>> /\ faults = 0

\* Driver.Replay: CheckDrift asks every server once, before the agent starts.
CheckDrift ==
  /\ phase = "checking"
  /\ \E world \in Worlds : drift' = [tool \in Recorded |-> DriftOf(tool, world)]
  /\ phase' = "running"
  /\ UNCHANGED <<run, consumed, greeting, steps, divergences, output, faults>>

\* A handler under way outlives Shutdown, which gives it five seconds, and Replay.
Serving == phase # "checking"

\* handle, under the mutex: Lookup consumes whatever it finds, whatever Decide
\* then makes of it, and Observe compares the call with the recording.
Handle(q) ==
  LET m == Lookup(q)
  IN  /\ Serving /\ Len(steps) < MaxSteps
      /\ steps' = Append(steps, [req |-> q, match |-> m.match, span |-> m.span,
                                 action |-> Decide(q, m.match # "none"), answer |-> "pending"])
      /\ consumed' = consumed \cup {Span(i).step : i \in {m.span} \ {0}}
      /\ divergences' = divergences \cup Departure(q, Len(steps) + 1)
      /\ UNCHANGED <<run, phase, greeting, drift, output, faults>>

\* Mutant: a forked read without a server of its own goes to the provider's.
AnswerToAnyUpstream(step) ==
  CASE step.action = "refuse"  -> "refused"
    [] step.action = "no-op"   -> "synthetic"
    [] step.action = "serve"   -> "recorded"
    [] step.action = "forward" -> IF run.provider THEN "live" ELSE "unavailable"

\* serveRecorded, forward, noOp and refuse.  A payload that cannot be read and a
\* call with nowhere to go are answered 502.
AnswerTo(step) ==
  CASE step.action = "refuse"  -> "refused"
    [] step.action = "no-op"   -> "synthetic"
    [] step.action = "serve"   -> IF Span(step.span).held THEN "recorded" ELSE "unavailable"
    [] step.action = "forward" ->
         IF IF step.req.kind = "tool" THEN step.req.tool \in run.endpoints ELSE run.provider
         THEN "live" ELSE "unavailable"

Answer(n) ==
  /\ n \in DOMAIN steps /\ steps[n].answer = "pending"
  /\ \/ steps' = [steps EXCEPT ![n].answer = AnswerTo(steps[n])] /\ UNCHANGED faults
     \/ /\ AnswerTo(steps[n]) = "live" /\ faults < MaxFaults
        /\ steps' = [steps EXCEPT ![n].answer = "unavailable"]
        /\ faults' = faults + 1
  /\ UNCHANGED <<run, phase, consumed, greeting, divergences, drift, output>>

\* Output.Write gives the call the next step of the output: the order of the
\* output is the order in which the answers ended.
Unwritten(n) == /\ n \in DOMAIN steps /\ steps[n].answer # "pending"
                /\ \A i \in DOMAIN output : output[i].call # n

Keep(n) ==
  /\ Unwritten(n) /\ phase # "returned"
  /\ output' = Append(output, [call |-> n, answer |-> steps[n].answer])
  /\ UNCHANGED <<run, phase, consumed, greeting, steps, divergences, drift, faults>>

\* ... and its error is dropped by handle: nothing remembers the call was lost.
Lose(n) ==
  /\ Unwritten(n) /\ phase # "returned" /\ faults < MaxFaults
  /\ output' = Append(output, [call |-> n, answer |-> "lost"])
  /\ faults' = faults + 1
  /\ UNCHANGED <<run, phase, consumed, greeting, steps, divergences, drift>>

\* serveProtocol: everything on the tool plane but a tool call.  The recorded
\* exchanges of a method share one key, so only the first is ever handed out; where
\* none is recorded the answer is a pong, a live server's or an error.
Greet(method) ==
  LET exchanges == {i \in Spans : Span(i).kind = "tool" /\ Span(i).method = method}
      first == {i \in exchanges : \A j \in exchanges : ~Before(j, i)}
  IN  /\ Serving
      /\ greeting' = IF first = {} THEN 0 ELSE First(first)
      /\ UNCHANGED <<run, phase, consumed, steps, divergences, drift, output, faults>>

\* The agent exits, or AgentTimeout kills it; its calls are not waited for.
AgentExits ==
  /\ phase = "running" /\ phase' = "exited"
  /\ UNCHANGED <<run, consumed, greeting, steps, divergences, drift, output, faults>>

\* Mutants: off by one, either way.
Ends(from) ==
  /\ phase = "exited" /\ phase' = "finished"
  /\ divergences' = divergences \cup
       {[at |-> n, kind |-> "missing-step"] : n \in from..Len(run.recording)}
  /\ UNCHANGED <<run, consumed, greeting, steps, drift, output, faults>>
FinishTooSoon == Ends(Len(steps))
FinishTooLate == Ends(Len(steps) + 2)

\* Server.Finish: what the recording has beyond the calls observed is missing.
Finish ==
  /\ phase = "exited" /\ phase' = "finished"
  /\ divergences' = divergences \cup
       {[at |-> n, kind |-> "missing-step"] : n \in (Len(steps) + 1)..Len(run.recording)}
  /\ UNCHANGED <<run, consumed, greeting, steps, drift, output, faults>>

\* The deferred stop: Shutdown waits for the handlers for five seconds at most.
Shutdown ==
  /\ phase = "finished" /\ phase' = "stopped"
  /\ UNCHANGED <<run, consumed, greeting, steps, divergences, drift, output, faults>>

\* The deferred Close of the output; Replay returns.
CloseOutput ==
  /\ phase = "stopped" /\ phase' = "returned"
  /\ UNCHANGED <<run, consumed, greeting, steps, divergences, drift, output, faults>>

Next ==
  \/ CheckDrift \/ AgentExits \/ Finish \/ Shutdown \/ CloseOutput
  \/ \E q \in run.agent : Handle(q)
  \/ \E n \in 1..MaxSteps : Answer(n) \/ Keep(n) \/ Lose(n)
  \/ \E method \in {"initialize", "ping"} : Greet(method)

Spec == Init /\ [][Next]_vars

-----------------------------------------------------------------------------
(* Properties.                                                             *)

TypeOK ==
  /\ run \in Replays
  /\ phase \in {"checking", "running", "exited", "finished", "stopped", "returned"}
  /\ consumed \subseteq {Span(i).step : i \in Spans}
  /\ \A n \in DOMAIN steps :
       /\ steps[n].req \in Requests
       /\ steps[n].match \in {"exact", "hash", "tool", "none"}
       /\ steps[n].span \in Spans \cup {0}
       /\ steps[n].action \in {"serve", "forward", "no-op", "refuse"}
  /\ \A d \in divergences : d.at \in 1..(MaxSteps + Len(run.recording))
  /\ \A i \in DOMAIN output : output[i].call \in DOMAIN steps
  /\ faults \in 0..MaxFaults

\* "A cassette with two identical calls hands back the first one first rather
\* than the same one twice": whatever the order in which calls arrive, no span
\* is handed out to two of them.
EachRecordingAnswersOnce ==
  \A m, n \in DOMAIN steps : m # n /\ steps[m].span # 0 => steps[m].span # steps[n].span

\* What a proxy writes numbers its spans one after the other, in order.  An MCP
\* handshake has a number like any other span, and calls no tool.
Numbered  == \A i \in Spans : Span(i).step = i - 1
IsCall(i) == Span(i).kind = "tool" => Span(i).tool # NoTool
Plain     == Numbered /\ \A i \in Spans : IsCall(i)

\* A call takes the recording of one with other arguments only in a session the
\* report says diverged: no call stands for another unnoticed.  A call without
\* arguments, recorded or made, is compared with none, and hides what it took.
SubstitutionIsReported ==
  Plain /\ (\A i \in Spans : Span(i).kind = "tool" => Span(i).args # NoArgs) =>
    \A n \in DOMAIN steps :
      /\ \A k \in 1..n : steps[k].req.kind = "tool" => steps[k].req.args # NoArgs
      /\ steps[n].req.kind = "tool" /\ steps[n].span # 0
      /\ Span(steps[n].span).args # steps[n].req.args
      => divergences # {}

\* The agent makes the recorded calls in their order, handshakes apart: f gives the
\* recorded call that each of its calls is.
Retraces(f) ==
  /\ f \in [DOMAIN steps -> Spans]
  /\ \A m, n \in DOMAIN steps : m < n => f[m] < f[n]
  /\ \A n \in DOMAIN steps :
       /\ steps[n].req.hash = Span(f[n]).hash
       /\ \A i \in 1..f[n] : IsCall(i) <=> \E m \in DOMAIN steps : f[m] = i

Follows(f) == run.mode = "fail" /\ Numbered /\ Retraces(f)

\* "Pure divergence detection": an agent that makes the recorded calls in order is
\* answered each from its own recording, though the handshakes recorded before it
\* shift the numbers of the two; and where none was recorded before a call, the
\* answer is the exact one and nothing is reported of the call.
FaithfulIsAnswered ==
  \A f \in [DOMAIN steps -> Spans] : Follows(f) =>
    /\ \A n \in DOMAIN steps :
         steps[n].span = f[n] /\ steps[n].match = IF f[n] = n THEN "exact" ELSE "hash"
    /\ \A d \in divergences :
         d.kind # "missing-step" => d.at \in DOMAIN steps /\ f[d.at] # d.at

\* A report without divergence says the whole recorded path was taken: as many
\* calls as were recorded, of the same kinds, to the same tools.  Calls that
\* arrive while the report is being closed do not escape it.
CleanMeansWholePath ==
  phase \in {"finished", "stopped", "returned"} /\ divergences = {} =>
    /\ Len(steps) = Len(run.recording)
    /\ \A n \in DOMAIN steps :
         /\ steps[n].req.kind = Span(RecordedAt(n)).kind
         /\ steps[n].req.kind = "tool" => steps[n].req.tool = Span(RecordedAt(n)).tool

\* "Writes never execute during a replay, matched or not": whatever servers can be
\* reached, a call is answered live only when it is a model call in a mode that does
\* not replay the model, and in hybrid mode one the recording has no answer to, or
\* the read of a tool that was named, forked, and asserted to read.
OnlyNamedReadsRunLive ==
  \A n \in DOMAIN steps :
    steps[n].answer = "live" =>
      IF steps[n].req.kind = "model"
      THEN /\ run.mode # "fail"
           /\ run.mode = "hybrid" => steps[n].span = 0
      ELSE /\ run.mode = "hybrid"
           /\ steps[n].req.tool \in run.forked \cap run.endpoints
           /\ run.effects[steps[n].req.tool] = "read"

-----------------------------------------------------------------------------
(* What server.go and replay_test.go say, and the code does not do.        *)

\* "Counting it as a step would offset every subsequent index against the
\* recording": after the recorded handshake, the calls of an agent that makes the
\* recorded ones add no divergence to the report.
ShookHands == greeting # 0
FaithfulReplayIsClean ==
  [][ShookHands /\ (\E f \in [DOMAIN steps' -> Spans] : Follows(f)')
     => \A d \in divergences' \ divergences : d.kind = "missing-step"]_vars
=============================================================================
