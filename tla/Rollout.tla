------------------------------- MODULE Rollout -------------------------------
(***************************************************************************)
(* The rollout controller: managers that reconcile one AgentRollout, the   *)
(* API server that stores its spec and status, and the routes whose        *)
(* weights and mirrors a live or shadow stage moves.                        *)
(*                                                                         *)
(* A manager works on a copy it read from its informer cache, calls the    *)
(* router and the API server one request at a time, and may crash between  *)
(* any two of them.  A status write carries the resourceVersion of the     *)
(* copy it is based on and is refused when the object has moved on.  A     *)
(* resourceVersion is only ever compared for equality with the stored one, *)
(* so it is kept as a Boolean per copy: the copy is of the stored version, *)
(* or it is not.                                                           *)
(***************************************************************************)
EXTENDS Integers, Sequences, FiniteSets

CONSTANTS
  Managers,       \* manager processes; the shipped Deployment runs two
  Routes,         \* HTTPRoutes or VirtualServices
  Names,          \* stage names
  Sessions,       \* recorded sessions an offline stage may replay
  RolloutSpecs,   \* the specs a user may apply
  Edits,          \* <<old, new>>: the specs a user may put in place of another
  Usable,         \* sessions whose replay is usable, when an agent drives it
  AgentDriven,    \* whether the replayer starts an agent for each session
  MaxGeneration,  \* bound: spec generations
  MaxFaults,      \* bound: crashes, failed calls, lost replies, label edits
  MaxAge          \* bound: the age in ticks up to which a stage is watched

Modes    == {"offline-replay", "shadow", "live"}
Triggers == {"gate-fail", "guardrail-violation", "budget-breach",
             "analyzer-unavailable", "write-divergence"}
\* RolloutPhase also declares Pending and Failed; no code path writes them.
Phases   == {"", "Running", "Promoted", "WavedOff", "Held"}
Reasons  == {"", "running", "passed", "rejected", "inconclusive", "manifests",
             "preflight", "traffic", "measurement", "collision", "excluded"}
NoLimit  == -1    \* an absent maxDuration

\* Stage.  "configured" stands for a scorer, a source of measurements and an
\* implemented router; "sequential" for the test of the primary gate metric.
Stage == [name: Names, mode: Modes, route: Routes,
          router: {"gateway-api", "istio"}, weight: 0..100, mirror: 0..100,
          min: Nat, max: Nat \cup {NoLimit}, configured: BOOLEAN,
          sequential: BOOLEAN, sessions: Seq(Sessions)]

\* AgentRolloutSpec: the stages in order and the rollback policy.
RolloutSpec == [stages: Seq(Stage), auto: BOOLEAN, triggers: SUBSET Triggers]

ASSUME RolloutAssumption ==
  /\ RolloutSpecs \subseteq RolloutSpec
  /\ RolloutSpecs # {}
  /\ \A s \in RolloutSpecs : s.stages # <<>>
  /\ Edits \subseteq RolloutSpecs \X RolloutSpecs
  /\ Usable \subseteq Sessions
  /\ AgentDriven \in BOOLEAN
  /\ MaxGeneration \in Nat /\ MaxFaults \in Nat /\ MaxAge \in Nat

\* StageStatus; phase "" is a stage that has no entry in status.stages.
StageStatus == [phase: Phases, startedAt: Nat, finishedAt: Nat, weight: 0..100,
                rolledBack: BOOLEAN, trigger: Triggers \cup {""}]

NoStage == [phase |-> "", startedAt |-> 0, finishedAt |-> 0, weight |-> 0,
            rolledBack |-> FALSE, trigger |-> ""]

\* AgentRolloutStatus.  recordStage keeps one entry per name, so the list of
\* stage statuses is a function of the name.
Status == [phase: Phases, reason: Reasons, observed: Nat,
           stages: [Names -> StageStatus]]

EmptyStatus(g) == [phase |-> "", reason |-> "", observed |-> g,
                   stages |-> [n \in Names |-> NoStage]]

\* What a manager holds between passes.
NoCopy == [gen |-> 1, status |-> EmptyStatus(0), ix |-> 0, stage |-> NoStage]

\* A request to the router: SetSplit(100 - value, value) or Mirror(value).
RouterCalls == [call: {"SetSplit", "Mirror"}, value: 0..100]

VARIABLES
  specs,      \* the spec of every generation; its length is metadata.generation
  status,     \* the stored status
  cache,      \* manager -> the generation and status its informer holds
  current,    \* manager -> its cache is of the stored resourceVersion
  queued,     \* manager -> a reconcile request is in its work queue
  pc,         \* manager -> where its reconcile is
  local,      \* manager -> its copy: generation, status, stage, pending entry
  base,       \* manager -> its copy is of the stored resourceVersion
  calls,      \* manager -> router calls its Enter or Withdraw has still to make
  after,      \* manager -> what follows a successful status write
  cursor,     \* manager -> the next session of an offline replay
  measured,   \* manager -> the offline replay has a usable pair
  outputs,    \* manager -> replay outputs under its output root
  route,      \* route -> the candidate's weight and the mirrored percentage
  clock,      \* time, in ticks
  faults,     \* faults injected so far
  passed,     \* history: <<generation, stage>> some gate promoted
  withdrawn   \* history: <<generation, stage>> some gate had withdrawn

object    == <<specs, status>>
watch     == <<cache, current, queued>>
worker    == <<pc, local, base, calls, after, cursor, measured>>
history   == <<passed, withdrawn>>
vars      == <<specs, status, cache, current, queued, pc, local, base, calls,
               after, cursor, measured, outputs, route, clock, faults, passed,
               withdrawn>>

Generation == Len(specs)

TypeOK ==
  /\ specs \in Seq(RolloutSpecs) /\ specs # <<>>
  /\ status \in Status
  /\ cache \in [Managers -> [gen: Nat \ {0}, status: Status]]
  /\ current \in [Managers -> BOOLEAN]
  /\ queued \in [Managers -> BOOLEAN]
  /\ pc \in [Managers -> {"idle", "dispatch", "replay", "enter", "withdraw", "write"}]
  /\ local \in [Managers -> [gen: Nat \ {0}, status: Status, ix: Nat,
                             stage: StageStatus]]
  /\ base \in [Managers -> BOOLEAN]
  /\ calls \in [Managers -> Seq(RouterCalls)]
  /\ after \in [Managers -> {"done", "requeue", "replay"}]
  /\ cursor \in [Managers -> Nat \ {0}]
  /\ measured \in [Managers -> BOOLEAN]
  /\ outputs \in [Managers -> SUBSET (Nat \X Sessions)]
  /\ route \in [Routes -> [weight: 0..100, mirror: 0..100]]
  /\ clock \in Nat
  /\ faults \in 0..MaxFaults
  /\ passed \subseteq Nat \X Nat
  /\ withdrawn \subseteq Nat \X Nat

------------------------------------------------------------------------------
(* What the code decides from a spec, a status and the answers it gets.     *)

\* terminal: the phases a rollout does not leave within a generation.  Failed is
\* one too, and is never written.
TerminalForgettingHeld(p) == p \in {"Promoted", "WavedOff"}
Terminal(p) == p \in {"Promoted", "WavedOff", "Held"}

\* nextStage: i is the first stage whose name is not recorded as promoted.
StageOpen(spec, st, i) == st.stages[spec.stages[i].name].phase # "Promoted"

IsNextStageUnordered(spec, st, i) ==
  i \in DOMAIN spec.stages /\ StageOpen(spec, st, i)

IsNextStage(spec, st, i) ==
  /\ i \in DOMAIN spec.stages
  /\ StageOpen(spec, st, i)
  /\ \A j \in 1..(i - 1) : ~StageOpen(spec, st, j)

EveryStagePassed(spec, st) == \A i \in DOMAIN spec.stages : ~StageOpen(spec, st, i)

\* Fires: the policy lets a trigger withdraw the candidate.
Fires(spec, trigger) ==
  spec.auto /\ (spec.triggers = {} \/ trigger \in spec.triggers)

\* What a pass over a running stage may be told.  A verdict that waves off
\* is named by the trigger it raises.
Answers == [activity: {"quiet", "violated", "error"},
            observations: {"some", "none", "error"},
            verdict: {"promote", "inconclusive", "gate-fail",
                      "guardrail-violation", "error"}]

Step(outcome, trigger, requeue) ==
  [outcome |-> outcome, trigger |-> trigger, requeue |-> requeue]

\* Advance, after the split has been read back: the first condition that
\* applies decides.
AdvanceStepIgnoringWindow(spec, stage, elapsed, a) ==
  IF a.observations = "some" /\ a.verdict = "promote"
  THEN Step("promote", "", TRUE)
  ELSE Step("continue", "", TRUE)

AdvanceStepIgnoringBudget(spec, stage, elapsed, a) ==
  IF a.observations = "some" /\ a.verdict = "promote" /\ elapsed >= stage.min
  THEN Step("promote", "", TRUE)
  ELSE Step("continue", "", TRUE)

AdvanceStep(spec, stage, elapsed, a) ==
  IF stage.max # NoLimit /\ elapsed > stage.max
    THEN Step("roll-back", "budget-breach", TRUE)
  ELSE IF a.activity = "error"
    THEN Step("error", "", FALSE)
  ELSE IF a.activity = "violated" /\ Fires(spec, "write-divergence")
    THEN Step("roll-back", "write-divergence", TRUE)
  ELSE IF a.observations = "error"
    THEN Step("error", "", FALSE)
  ELSE IF a.observations = "none"
    THEN Step("continue", "", TRUE)
  ELSE IF a.verdict = "error"
    THEN IF Fires(spec, "analyzer-unavailable")
         THEN Step("roll-back", "analyzer-unavailable", TRUE)
         ELSE Step("error", "", FALSE)
  ELSE IF a.verdict \in Triggers
    THEN IF Fires(spec, a.verdict)
         THEN Step("roll-back", a.verdict, TRUE)
         ELSE Step("continue", "", FALSE)   \* stalled: waits for a human
  ELSE IF a.verdict = "promote" /\ elapsed >= stage.min
    THEN Step("promote", "", TRUE)
  ELSE Step("continue", "", TRUE)

SetSplit(w) == [call |-> "SetSplit", value |-> w]
Mirror(p)   == [call |-> "Mirror", value |-> p]

\* Enter: the router calls that put a stage's traffic in place, in order.
EnterCallsSplitOnly(stage) ==
  IF stage.mode = "shadow" THEN <<Mirror(100)>> ELSE <<SetSplit(stage.weight)>>

EnterCalls(stage) ==
  IF stage.mode = "shadow"
  THEN <<SetSplit(0), Mirror(IF stage.mirror = 0 THEN 100 ELSE stage.mirror)>>
  ELSE <<Mirror(0), SetSplit(stage.weight)>>

\* Withdraw: the split first, then the mirror.
WithdrawCallsSplitOnly(stage) == <<SetSplit(0)>>
WithdrawCalls(stage) == <<SetSplit(0), Mirror(0)>>

\* Gateway API mirrors a whole rule or none of it.
Supported(stage, c) ==
  c.call = "Mirror" /\ stage.router = "gateway-api" => c.value \in {0, 100}

\* What a router call leaves on the route object.
Routed(r, c) == IF c.call = "SetSplit" THEN [r EXCEPT !.weight = c.value]
                                       ELSE [r EXCEPT !.mirror = c.value]

\* recordStage and the assignments of writeStatus.
Record(st, n, entry) == [st EXCEPT !.stages[n] = entry]

Phased(st, g, phase, reason) ==
  [st EXCEPT !.phase = phase, !.reason = reason, !.observed = g]

------------------------------------------------------------------------------
(* Reconcile.                                                               *)

MySpec(m)  == specs[local[m].gen]
MyStage(m) == MySpec(m).stages[local[m].ix]

\* End the pass by writing st to the object; then says what a success leads to.
WriteNext(m, ix, st, then) ==
  /\ pc' = [pc EXCEPT ![m] = "write"]
  /\ local' = [local EXCEPT ![m].status = st, ![m].ix = ix]
  /\ after' = [after EXCEPT ![m] = then]
  /\ UNCHANGED <<base, calls, cursor, measured>>

\* hold: no requeue, a held rollout needs a human.
Hold(m, reason) ==
  WriteNext(m, local[m].ix,
            Phased(local[m].status, local[m].gen, "Held", reason), "done")

\* The request is for a rollout that is already decided: nothing is done.
Skip(m) ==
  /\ pc[m] = "idle" /\ queued[m]
  /\ Terminal(cache[m].status.phase)
  /\ cache[m].status.observed = cache[m].gen
  /\ queued' = [queued EXCEPT ![m] = FALSE]
  /\ UNCHANGED <<object, cache, current, worker, outputs, route, clock, faults,
                 history>>

\* Otherwise the pass starts on a copy, with an empty status if the spec
\* changed since the status was written.
StatusForKept(copy) == copy.status
StatusFor(copy) ==
  IF copy.status.observed # copy.gen THEN EmptyStatus(copy.gen) ELSE copy.status

Get(m) ==
  /\ pc[m] = "idle" /\ queued[m]
  /\ ~(Terminal(cache[m].status.phase) /\ cache[m].status.observed = cache[m].gen)
  /\ queued' = [queued EXCEPT ![m] = FALSE]
  /\ pc' = [pc EXCEPT ![m] = "dispatch"]
  /\ local' = [local EXCEPT ![m] = [gen |-> cache[m].gen,
                                    status |-> StatusFor(cache[m]),
                                    ix |-> 0, stage |-> NoStage]]
  /\ base' = [base EXCEPT ![m] = current[m]]
  /\ UNCHANGED <<object, cache, current, calls, after, cursor, measured, outputs,
                 route, clock, faults, history>>

\* A manifest under comparison cannot be loaded.
ManifestsMissing(m) ==
  /\ pc[m] = "dispatch"
  /\ Hold(m, "manifests")
  /\ UNCHANGED <<object, watch, outputs, route, clock, faults, history>>

\* No stage is left.
FinishPromoted(m) ==
  /\ pc[m] = "dispatch"
  /\ EveryStagePassed(MySpec(m), local[m].status)
  /\ WriteNext(m, 0, Phased(local[m].status, local[m].gen, "Promoted", "passed"), "done")
  /\ UNCHANGED <<object, watch, outputs, route, clock, faults, history>>

\* An offline stage is next: setRunning, and then the replay.
StartOffline(m) ==
  /\ pc[m] = "dispatch"
  /\ \E i \in DOMAIN MySpec(m).stages :
       /\ IsNextStage(MySpec(m), local[m].status, i)
       /\ MySpec(m).stages[i].mode = "offline-replay"
       /\ WriteNext(m, i, Phased(local[m].status, local[m].gen, "Running", "running"),
                    "replay")
  /\ UNCHANGED <<object, watch, outputs, route, clock, faults, history>>

------------------------------------------------------------------------------
(* runStage and RunOfflineReplay.                                           *)

\* A status that records how stage i ended, and what follows its write.
EndedInFailure(m, i, entry, outcome) ==
  LET st == Record(local[m].status, MySpec(m).stages[i].name, entry)
  IN  Phased(st, local[m].gen, IF outcome = "Held" THEN "Failed" ELSE outcome, "inconclusive")

Ended(m, i, entry, outcome) ==
  LET st   == Record(local[m].status, MySpec(m).stages[i].name, entry)
      last == i = Len(MySpec(m).stages)
  IN  CASE outcome = "Promoted" /\ ~last -> Phased(st, local[m].gen, "Running", "passed")
        [] outcome = "Promoted" /\ last  -> Phased(st, local[m].gen, "Promoted", "passed")
        [] outcome = "WavedOff"          -> Phased(st, local[m].gen, "WavedOff", "rejected")
        [] OTHER                         -> Phased(st, local[m].gen, "Held", "inconclusive")

AfterEnd(m, i, outcome) ==
  IF outcome = "Promoted" /\ i # Len(MySpec(m).stages)
  THEN "requeue" ELSE "done"

\* One session: its output is created exclusively under the generation's
\* directory, and both arms are replayed.
ReplaySession(m) ==
  /\ pc[m] = "replay"
  /\ cursor[m] <= Len(MyStage(m).sessions)
  /\ LET s   == MyStage(m).sessions[cursor[m]]
         out == <<local[m].gen, s>>
     IN  \/ /\ out \in outputs[m]
            /\ Hold(m, "collision")
            /\ UNCHANGED outputs
         \/ /\ out \notin outputs[m]
            /\ outputs' = [outputs EXCEPT ![m] = @ \cup {out}]
            /\ cursor' = [cursor EXCEPT ![m] = @ + 1]
            /\ measured' = [measured EXCEPT ![m] = @ \/ (AgentDriven /\ s \in Usable)]
            /\ UNCHANGED <<pc, local, base, calls, after>>
  /\ UNCHANGED <<object, watch, route, clock, faults, history>>

\* The stage could not run: judges, corpus, timeout, scorer or analyzer.
ReplayFails(m) ==
  /\ pc[m] = "replay"
  /\ Hold(m, "measurement")
  /\ UNCHANGED <<object, watch, outputs, route, clock, faults, history>>

\* Every session was excluded: there is nothing to score.
NothingMeasured(m) ==
  /\ pc[m] = "replay"
  /\ cursor[m] > Len(MyStage(m).sessions)
  /\ ~measured[m]
  /\ Hold(m, "excluded")
  /\ UNCHANGED <<object, watch, outputs, route, clock, faults, history>>

\* The usable pairs are scored and the analyzer answers.
JudgeOffline(m, outcome) ==
  /\ pc[m] = "replay"
  /\ cursor[m] > Len(MyStage(m).sessions)
  /\ measured[m]
  /\ WriteNext(m, local[m].ix,
               Ended(m, local[m].ix,
                     [NoStage EXCEPT !.phase = outcome, !.startedAt = clock,
                                     !.finishedAt = clock], outcome),
               AfterEnd(m, local[m].ix, outcome))
  /\ passed' = IF outcome = "Promoted" THEN passed \cup {<<local[m].gen, local[m].ix>>}
                                       ELSE passed
  /\ UNCHANGED <<object, watch, outputs, route, clock, faults, withdrawn>>

------------------------------------------------------------------------------
(* advanceLive.                                                             *)

\* The checks made before a live or shadow stage touches anything.
Runnable(stage) == stage.configured /\ (stage.mode = "live" => stage.sequential)

LiveNext(m, i) ==
  /\ pc[m] = "dispatch"
  /\ i \in DOMAIN MySpec(m).stages
  /\ IsNextStage(MySpec(m), local[m].status, i)
  /\ MySpec(m).stages[i].mode # "offline-replay"

\* stageStatus: the stage has an entry, so it has begun.
Started(m, i) == local[m].status.stages[MySpec(m).stages[i].name].phase # ""

\* A check fails: the stage is not runnable, its corpus cannot be opened, or
\* the route of a live stage does not keep a session on one arm.
PreflightFails(m, i) ==
  /\ LiveNext(m, i)
  /\ Hold(m, "preflight")
  /\ UNCHANGED <<object, watch, outputs, route, clock, faults, history>>

\* First pass over a stage: LiveRunner.Enter.
Enter(m, i) ==
  /\ LiveNext(m, i)
  /\ Runnable(MySpec(m).stages[i])
  /\ ~Started(m, i)
  /\ pc' = [pc EXCEPT ![m] = "enter"]
  /\ local' = [local EXCEPT ![m].ix = i]
  /\ calls' = [calls EXCEPT ![m] = EnterCalls(MySpec(m).stages[i])]
  /\ UNCHANGED <<object, watch, base, after, cursor, measured, outputs, route,
                 clock, faults, history>>

\* The traffic is in place: record when the stage began.
Entered(m) ==
  /\ pc[m] = "enter" /\ calls[m] = <<>>
  /\ WriteNext(m, local[m].ix,
               Phased(Record(local[m].status, MyStage(m).name,
                             [NoStage EXCEPT !.phase = "Running", !.startedAt = clock]),
                      local[m].gen, "Running", "running"),
               "requeue")
  /\ UNCHANGED <<object, watch, outputs, route, clock, faults, history>>

\* A later pass: LiveRunner.Advance, and what advanceLive does with its step.
\* The entry of a stage to be withdrawn is kept aside until it has been.
Advance(m, i, a) ==
  LET stage == MySpec(m).stages[i]
      old   == local[m].status.stages[stage.name]
      entry == [old EXCEPT !.weight = route[stage.route].weight]
      step  == AdvanceStep(MySpec(m), stage, clock - old.startedAt, a)
      done  == [entry EXCEPT !.phase = "Promoted", !.finishedAt = clock]
  IN
  /\ LiveNext(m, i)
  /\ Runnable(stage)
  /\ Started(m, i)
  /\ CASE step.outcome = "error" ->
            Hold(m, "measurement") /\ UNCHANGED history
       [] step.outcome = "continue" ->
            /\ WriteNext(m, i,
                         Phased(Record(local[m].status, stage.name, entry),
                                local[m].gen, "Running", "running"),
                         IF step.requeue THEN "requeue" ELSE "done")
            /\ UNCHANGED history
       [] step.outcome = "promote" ->
            /\ WriteNext(m, i, Ended(m, i, done, "Promoted"), AfterEnd(m, i, "Promoted"))
            /\ passed' = passed \cup {<<local[m].gen, i>>}
            /\ UNCHANGED withdrawn
       [] step.outcome = "roll-back" ->
            /\ pc' = [pc EXCEPT ![m] = "withdraw"]
            /\ local' = [local EXCEPT ![m].ix = i,
                                      ![m].stage = [entry EXCEPT !.trigger = step.trigger]]
            /\ calls' = [calls EXCEPT ![m] = WithdrawCalls(stage)]
            /\ UNCHANGED <<base, after, cursor, measured, history>>
  /\ UNCHANGED <<object, watch, outputs, route, clock, faults>>

\* The split cannot be read back.
SplitUnreadable(m, i) ==
  /\ LiveNext(m, i)
  /\ Runnable(MySpec(m).stages[i]) /\ Started(m, i)
  /\ faults < MaxFaults /\ faults' = faults + 1
  /\ Hold(m, "traffic")
  /\ UNCHANGED <<object, watch, outputs, route, clock, history>>

\* The candidate has been withdrawn: only now is the wave-off recorded.
Withdrawn(m) ==
  /\ pc[m] = "withdraw" /\ calls[m] = <<>>
  /\ WriteNext(m, local[m].ix,
               Ended(m, local[m].ix,
                     [local[m].stage EXCEPT !.phase = "WavedOff", !.rolledBack = TRUE,
                                            !.finishedAt = clock], "WavedOff"),
               AfterEnd(m, local[m].ix, "WavedOff"))
  /\ withdrawn' = withdrawn \cup {<<local[m].gen, local[m].ix>>}
  /\ UNCHANGED <<object, watch, outputs, route, clock, faults, passed>>

\* SetSplit or Mirror: reads the route object and updates it.
CallRouter(m) ==
  /\ pc[m] \in {"enter", "withdraw"} /\ calls[m] # <<>>
  /\ Supported(MyStage(m), Head(calls[m]))
  /\ route' = [route EXCEPT ![MyStage(m).route] = Routed(@, Head(calls[m]))]
  /\ calls' = [calls EXCEPT ![m] = Tail(@)]
  /\ UNCHANGED <<object, watch, pc, local, base, after, cursor, measured, outputs,
                 clock, faults, history>>

RouterRefuses(m) ==
  /\ pc[m] \in {"enter", "withdraw"} /\ calls[m] # <<>>
  /\ ~Supported(MyStage(m), Head(calls[m]))
  /\ Hold(m, "traffic")
  /\ UNCHANGED <<object, watch, outputs, route, clock, faults, history>>

\* The call fails, or only its reply is lost: either way the stage is held.
RouterFails(m) ==
  /\ pc[m] \in {"enter", "withdraw"} /\ calls[m] # <<>>
  /\ faults < MaxFaults /\ faults' = faults + 1
  /\ \/ UNCHANGED route
     \/ /\ Supported(MyStage(m), Head(calls[m]))
        /\ route' = [route EXCEPT ![MyStage(m).route] = Routed(@, Head(calls[m]))]
  /\ Hold(m, "traffic")
  /\ UNCHANGED <<object, watch, outputs, clock, history>>

------------------------------------------------------------------------------
(* writeStatus.                                                             *)

\* The pass is over: the copy and everything derived from it is gone.
Rest(m) ==
  /\ pc' = [pc EXCEPT ![m] = "idle"]
  /\ local' = [local EXCEPT ![m] = NoCopy]
  /\ calls' = [calls EXCEPT ![m] = <<>>]
  /\ after' = [after EXCEPT ![m] = "done"]
  /\ cursor' = [cursor EXCEPT ![m] = 1]
  /\ measured' = [measured EXCEPT ![m] = FALSE]

\* A new version is stored: no copy is of it, except the writer's own, which
\* Update refreshes from the reply.
Store(m, kept) ==
  /\ status' = local[m].status
  /\ current' = [x \in Managers |-> FALSE]
  /\ base' = [x \in Managers |-> x = m /\ kept]

\* An Update that changes nothing leaves the version alone.
StoreNothing(m, kept) ==
  /\ local[m].status = status
  /\ base' = [base EXCEPT ![m] = kept]
  /\ UNCHANGED <<status, current>>

\* The write is accepted.  The wording of the reason may change, and with it
\* the version, when nothing else does.
WriteStatus(m) ==
  /\ pc[m] = "write"
  /\ base[m]
  /\ Store(m, after[m] = "replay") \/ StoreNothing(m, after[m] = "replay")
  /\ IF after[m] = "replay"
     THEN /\ pc' = [pc EXCEPT ![m] = "replay"]
          /\ UNCHANGED <<local, calls, after, cursor, measured, queued>>
     ELSE /\ Rest(m)
          /\ queued' = [queued EXCEPT ![m] = @ \/ after[m] = "requeue"]
  /\ UNCHANGED <<specs, cache, outputs, route, clock, faults, history>>

\* Another version is stored: the error requeues the request.
WriteConflict(m) ==
  /\ pc[m] = "write"
  /\ ~base[m]
  /\ Rest(m)
  /\ queued' = [queued EXCEPT ![m] = TRUE]
  /\ UNCHANGED <<object, cache, current, base, outputs, route, clock, faults, history>>

\* The call fails, or it is applied and only its reply is lost.
WriteFails(m) ==
  /\ pc[m] = "write"
  /\ base[m]
  /\ faults < MaxFaults /\ faults' = faults + 1
  /\ \/ Store(m, FALSE)
     \/ base' = [base EXCEPT ![m] = FALSE] /\ UNCHANGED <<status, current>>
  /\ Rest(m)
  /\ queued' = [queued EXCEPT ![m] = TRUE]
  /\ UNCHANGED <<specs, cache, outputs, route, clock, history>>

------------------------------------------------------------------------------
(* Everything else.                                                         *)

\* The manager restarts: its copy is lost, the informer lists the object anew.
Crash(m) ==
  /\ pc[m] # "idle"
  /\ faults < MaxFaults /\ faults' = faults + 1
  /\ Rest(m)
  /\ base' = [base EXCEPT ![m] = FALSE]
  /\ cache' = [cache EXCEPT ![m] = [gen |-> Generation, status |-> status]]
  /\ current' = [current EXCEPT ![m] = TRUE]
  /\ queued' = [queued EXCEPT ![m] = TRUE]
  /\ UNCHANGED <<object, outputs, route, clock, history>>

\* The watch delivers the stored version; every event is a request.
CacheSync(m) ==
  /\ ~current[m]
  /\ cache' = [cache EXCEPT ![m] = [gen |-> Generation, status |-> status]]
  /\ current' = [current EXCEPT ![m] = TRUE]
  /\ queued' = [queued EXCEPT ![m] = TRUE]
  /\ UNCHANGED <<object, worker, outputs, route, clock, faults, history>>

\* The informer's periodic resync requeues every object it holds.
Resync(m) ==
  /\ pc[m] = "idle" /\ ~queued[m]
  /\ queued' = [queued EXCEPT ![m] = TRUE]
  /\ UNCHANGED <<object, cache, current, worker, outputs, route, clock, faults, history>>

\* A user applies another spec: a new generation.
EditSpec(s) ==
  /\ Generation < MaxGeneration
  /\ s # specs[Generation] /\ <<specs[Generation], s>> \in Edits
  /\ specs' = Append(specs, s)
  /\ current' = [m \in Managers |-> FALSE]
  /\ base' = [m \in Managers |-> FALSE]
  /\ UNCHANGED <<status, cache, queued, pc, local, calls, after, cursor, measured,
                 outputs, route, clock, faults, history>>

\* A user edits labels or annotations: a new version of the same generation.
EditMetadata ==
  /\ faults < MaxFaults /\ faults' = faults + 1
  /\ current' = [m \in Managers |-> FALSE]
  /\ base' = [m \in Managers |-> FALSE]
  /\ UNCHANGED <<object, cache, queued, pc, local, calls, after, cursor, measured,
                 outputs, route, clock, history>>

\* Time passes; it is observed only as the age of a running stage.
Tick ==
  /\ status.phase = "Running"
  /\ \E n \in Names : /\ status.stages[n].phase = "Running"
                      /\ clock - status.stages[n].startedAt < MaxAge
  /\ clock' = clock + 1
  /\ UNCHANGED <<object, watch, worker, outputs, route, faults, history>>

------------------------------------------------------------------------------
Init ==
  /\ \E s \in RolloutSpecs : specs = <<s>>
  /\ status = EmptyStatus(0)
  /\ cache = [m \in Managers |-> [gen |-> 1, status |-> EmptyStatus(0)]]
  /\ current = [m \in Managers |-> TRUE]
  /\ queued = [m \in Managers |-> TRUE]
  /\ pc = [m \in Managers |-> "idle"]
  /\ local = [m \in Managers |-> NoCopy]
  /\ base = [m \in Managers |-> FALSE]
  /\ calls = [m \in Managers |-> <<>>]
  /\ after = [m \in Managers |-> "done"]
  /\ cursor = [m \in Managers |-> 1]
  /\ measured = [m \in Managers |-> FALSE]
  /\ outputs = [m \in Managers |-> {}]
  /\ route = [r \in Routes |-> [weight |-> 0, mirror |-> 0]]
  /\ clock = 0
  /\ faults = 0
  /\ passed = {}
  /\ withdrawn = {}

\* The indices of any spec's stages.
StageIndices == UNION {DOMAIN s.stages : s \in RolloutSpecs}

\* What a manager does by itself, faults aside.
Proceed(m) ==
  \/ Skip(m) \/ Get(m) \/ ManifestsMissing(m) \/ FinishPromoted(m) \/ StartOffline(m)
  \/ ReplaySession(m) \/ ReplayFails(m) \/ NothingMeasured(m)
  \/ \E outcome \in {"Promoted", "WavedOff", "Held"} : JudgeOffline(m, outcome)
  \/ \E i \in StageIndices : \/ PreflightFails(m, i)
                             \/ Enter(m, i)
                             \/ \E a \in Answers : Advance(m, i, a)
  \/ Entered(m) \/ Withdrawn(m) \/ CallRouter(m) \/ RouterRefuses(m)
  \/ WriteStatus(m) \/ WriteConflict(m)

Next ==
  \/ \E m \in Managers :
       \/ Proceed(m)
       \/ CacheSync(m) \/ Resync(m)
       \/ \E i \in StageIndices : SplitUnreadable(m, i)
       \/ RouterFails(m) \/ WriteFails(m) \/ Crash(m)
  \/ \E s \in RolloutSpecs : EditSpec(s)
  \/ EditMetadata
  \/ Tick

Spec == Init /\ [][Next]_vars

\* The work queue's workers run, watches deliver, the resync comes round and
\* time passes; faults and edits are never owed.
Fairness ==
  /\ \A m \in Managers : /\ WF_vars(Proceed(m))
                         /\ WF_vars(CacheSync(m))
                         /\ WF_vars(Resync(m))
  /\ WF_vars(Tick)

FairSpec == Spec /\ Fairness

------------------------------------------------------------------------------
(* Properties.                                                              *)

NamesApart(s) ==
  \A i, j \in DOMAIN s.stages : s.stages[i].name = s.stages[j].name => i = j

UniqueNames == \A s \in RolloutSpecs : NamesApart(s)

\* The spec the stored status reports on, if it reports on the latest.
Decided == status.phase \in {"Promoted", "WavedOff", "Held"} /\ status.observed = Generation

Reached(r) == route[r].weight > 0 \/ route[r].mirror > 0

\* A rollout is reported as promoted only when a gate promoted every one of
\* the stages of the spec it reports on, whatever stale copies, conflicts,
\* restarts and spec edits came between the stages.  Where two stages share a name
\* the first answers for both: such a spec is excepted.
PromotedMeansEveryStagePassed ==
  status.phase = "Promoted" /\ NamesApart(specs[status.observed]) =>
    \A i \in DOMAIN specs[status.observed].stages : <<status.observed, i>> \in passed

\* Terminal rollouts are left alone: until the spec changes, nothing that any
\* manager still has in flight replaces a recorded decision.
DecisionIsFinal ==
  [][ Decided /\ specs' = specs => status' = status ]_vars

\* The candidate never serves traffic and receives mirrored copies of it on
\* the same route, at any point of entering, leaving or restarting a stage.
NeverServedAndMirrored ==
  \A r \in Routes : route[r].weight = 0 \/ route[r].mirror = 0

\* A stage recorded as rolled back has no traffic left on its route: the
\* wave-off is recorded after the withdrawal and nothing re-enters the stage.
RolledBackMeansNotServing ==
  status.observed = Generation =>
    \A i \in DOMAIN specs[Generation].stages :
      LET stage == specs[Generation].stages[i] IN
      status.stages[stage.name].rolledBack => ~Reached(stage.route)

\* A route's exposure is only ever raised by a pass that is entering a stage on
\* it: its weight for a live stage, to that stage's weight, its mirror for a
\* shadow stage, and every predecessor of the stage the pass is in was promoted
\* by a gate under the generation the pass works on.
RaisedInTurn ==
  \A r \in Routes :
    LET served   == route'[r].weight > route[r].weight
        mirrored == route'[r].mirror > route[r].mirror
    IN  served \/ mirrored =>
          \E m \in Managers :
            /\ pc[m] = "enter" /\ MyStage(m).route = r
            /\ served => MyStage(m).mode = "live" /\ route'[r].weight = MyStage(m).weight
            /\ mirrored => MyStage(m).mode = "shadow"
            /\ \A j \in 1..(local[m].ix - 1) : <<local[m].gen, j>> \in passed

ExposureFollowsTheOrder == [][RaisedInTurn]_vars

\* A live or shadow stage is not promoted before it has run for its minimum
\* observation window, counted from a start that survives restarts.
WindowIsServed ==
  status.observed = Generation =>
    \A i \in DOMAIN specs[Generation].stages :
      LET stage == specs[Generation].stages[i]
          entry == status.stages[stage.name]
      IN  entry.phase = "Promoted" /\ stage.mode # "offline-replay" =>
            entry.finishedAt - entry.startedAt >= stage.min

\* Every rollout whose stages have a budget is decided in the end, once the
\* edits and faults stop: no stage runs for ever and no manager stalls.
Resolves == <>[]Decided

------------------------------------------------------------------------------
(* What agentrollout_types.go says, and the code does not do.               *)

\* A stage that fails stops the rollout: it is not promoted afterwards.
FailedStageStopsTheRollout ==
  status.phase = "Promoted" =>
    \A i \in DOMAIN specs[status.observed].stages : <<status.observed, i>> \notin withdrawn

==============================================================================
