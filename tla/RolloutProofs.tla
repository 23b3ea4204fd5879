---------------------------- MODULE RolloutProofs ----------------------------
(* Theorems about Rollout, for any managers, routes, names and specs: type  *)
(* correctness; a decision is final; and a rollout reported as promoted has *)
(* had every stage promoted, after its window.                              *)
EXTENDS Rollout, TLAPS

\* The types of the variables that only a worker touches.
WorkerOK ==
  /\ pc \in [Managers -> {"idle", "dispatch", "replay", "enter", "withdraw", "write"}]
  /\ local \in [Managers -> [gen: Nat \ {0}, status: Status, ix: Nat, stage: StageStatus]]
  /\ base \in [Managers -> BOOLEAN]
  /\ calls \in [Managers -> Seq(RouterCalls)]
  /\ after \in [Managers -> {"done", "requeue", "replay"}]
  /\ cursor \in [Managers -> Nat \ {0}]
  /\ measured \in [Managers -> BOOLEAN]

\* The types of all the others.
RestOK ==
  /\ specs \in Seq(RolloutSpecs) /\ specs # <<>>
  /\ status \in Status
  /\ cache \in [Managers -> [gen: Nat \ {0}, status: Status]]
  /\ current \in [Managers -> BOOLEAN]
  /\ queued \in [Managers -> BOOLEAN]
  /\ outputs \in [Managers -> SUBSET (Nat \X Sessions)]
  /\ route \in [Routes -> [weight: 0..100, mirror: 0..100]]
  /\ clock \in Nat
  /\ faults \in 0..MaxFaults
  /\ passed \subseteq Nat \X Nat
  /\ withdrawn \subseteq Nat \X Nat

\* A copy is of a generation that exists, and a pass that has chosen a stage
\* has chosen one of that generation's.
CopyOK(m) ==
  /\ local[m].gen <= Generation
  /\ pc[m] \in {"replay", "enter", "withdraw"} => local[m].ix \in DOMAIN MySpec(m).stages
  /\ pc[m] = "write" /\ after[m] = "replay" => local[m].ix \in DOMAIN MySpec(m).stages

Copies == \A m \in Managers : cache[m].gen <= Generation /\ CopyOK(m)

TypeInv == WorkerOK /\ RestOK /\ Copies

LEMMA TypeInvType == TypeInv => TypeOK
BY DEF TypeInv, WorkerOK, RestOK, TypeOK

\* The helpers that build statuses and steps return what TypeOK expects.
LEMMA PhasedType ==
  ASSUME NEW st \in Status, NEW g \in Nat, NEW p \in Phases, NEW r \in Reasons
  PROVE  Phased(st, g, p, r) \in Status
BY DEF Phased, Status

LEMMA RecordType ==
  ASSUME NEW st \in Status, NEW n \in Names, NEW e \in StageStatus
  PROVE  Record(st, n, e) \in Status
BY DEF Record, Status

LEMMA NoStageType == NoStage \in StageStatus
BY DEF NoStage, StageStatus, Phases

LEMMA EmptyStatusType ==
  ASSUME NEW g \in Nat
  PROVE  EmptyStatus(g) \in Status
BY NoStageType DEF EmptyStatus, Status, Phases, Reasons

LEMMA NoCopyType == NoCopy \in [gen: Nat \ {0}, status: Status, ix: Nat, stage: StageStatus]
BY NoStageType, EmptyStatusType DEF NoCopy

\* The stages of a spec that may be applied are stages.
LEMMA StageType ==
  ASSUME NEW s \in RolloutSpecs, NEW i \in DOMAIN s.stages
  PROVE  s.stages[i] \in Stage
BY RolloutAssumption DEF RolloutSpec

LEMMA RouterCallType ==
  ASSUME NEW w \in 0..100
  PROVE  SetSplit(w) \in RouterCalls /\ Mirror(w) \in RouterCalls
BY DEF SetSplit, Mirror, RouterCalls

LEMMA PairOfCallsType ==
  ASSUME NEW c \in RouterCalls, NEW d \in RouterCalls
  PROVE  <<c, d>> \in Seq(RouterCalls)
OBVIOUS

LEMMA EnterCallsType ==
  ASSUME NEW s \in Stage
  PROVE  EnterCalls(s) \in Seq(RouterCalls)
<1> DEFINE p == IF s.mirror = 0 THEN 100 ELSE s.mirror
<1>1. s.weight \in 0..100 /\ p \in 0..100
  BY DEF Stage
<1>2. SetSplit(0) \in RouterCalls /\ Mirror(0) \in RouterCalls
  BY RouterCallType
<1>3. Mirror(p) \in RouterCalls /\ SetSplit(s.weight) \in RouterCalls
  BY <1>1, RouterCallType
<1>4. <<SetSplit(0), Mirror(p)>> \in Seq(RouterCalls)
  BY <1>2, <1>3, PairOfCallsType
<1>5. <<Mirror(0), SetSplit(s.weight)>> \in Seq(RouterCalls)
  BY <1>2, <1>3, PairOfCallsType
<1>6. QED
  BY <1>4, <1>5 DEF EnterCalls

LEMMA WithdrawCallsType ==
  ASSUME NEW s \in Stage
  PROVE  WithdrawCalls(s) \in Seq(RouterCalls)
<1>1. SetSplit(0) \in RouterCalls /\ Mirror(0) \in RouterCalls
  BY RouterCallType
<1>2. QED
  BY <1>1, PairOfCallsType DEF WithdrawCalls

LEMMA TypeInit == Init => TypeInv
<1> SUFFICES ASSUME Init PROVE TypeInv
  OBVIOUS
<1>1. PICK s \in RolloutSpecs : specs = <<s>>
  BY DEF Init
<1>2. specs \in Seq(RolloutSpecs) /\ specs # <<>> /\ Generation = 1
  BY <1>1 DEF Generation
<1>3. status \in Status
  BY EmptyStatusType DEF Init
<1>4. cache \in [Managers -> [gen: Nat \ {0}, status: Status]]
  BY EmptyStatusType DEF Init
<1>5. WorkerOK
  BY NoCopyType DEF Init, WorkerOK
<1>6. RestOK
  BY <1>2, <1>3, <1>4, RolloutAssumption DEF Init, RestOK
<1>7. ASSUME NEW m \in Managers PROVE cache[m].gen <= Generation /\ CopyOK(m)
  <2>1. cache[m].gen = 1 /\ local[m] = NoCopy /\ pc[m] = "idle"
    BY DEF Init
  <2>2. NoCopy.gen = 1
    BY DEF NoCopy
  <2>3. QED
    BY <1>2, <2>1, <2>2 DEF CopyOK
<1>8. QED
  BY <1>5, <1>6, <1>7 DEF TypeInv, Copies

\* A pass that ends in a write of a well-formed status leaves a well-formed
\* worker, and changes the copy of no other manager.
LEMMA WriteNextType ==
  ASSUME TypeInv, NEW m \in Managers, NEW ix \in Nat, NEW st \in Status,
         NEW then \in {"done", "requeue", "replay"},
         then = "replay" => ix \in DOMAIN MySpec(m).stages,
         WriteNext(m, ix, st, then), specs' = specs
  PROVE  WorkerOK' /\ \A x \in Managers : CopyOK(x)'
<1>1. WorkerOK'
  <2> USE DEF TypeInv, WorkerOK, WriteNext
  <2>1. [local[m] EXCEPT !.status = st, !.ix = ix]
          \in [gen: Nat \ {0}, status: Status, ix: Nat, stage: StageStatus]
    <3> DEFINE c == local[m]
    <3>1. c \in [gen: Nat \ {0}, status: Status, ix: Nat, stage: StageStatus]
      OBVIOUS
    <3> HIDE DEF c
    <3>2. [c EXCEPT !.status = st, !.ix = ix]
            \in [gen: Nat \ {0}, status: Status, ix: Nat, stage: StageStatus]
      BY <3>1
    <3>3. QED
      BY <3>2 DEF c
  <2>2. local' = [local EXCEPT ![m] = [local[m] EXCEPT !.status = st, !.ix = ix]]
    OBVIOUS
  <2>3. local' \in [Managers -> [gen: Nat \ {0}, status: Status, ix: Nat, stage: StageStatus]]
    BY <2>1, <2>2
  <2>4. pc' \in [Managers -> {"idle", "dispatch", "replay", "enter", "withdraw", "write"}]
        /\ after' \in [Managers -> {"done", "requeue", "replay"}]
    OBVIOUS
  <2>5. QED
    BY <2>3, <2>4
<1>2. local'[m].gen = local[m].gen /\ local'[m].ix = ix /\ pc'[m] = "write" /\ after'[m] = then
  BY DEF TypeInv, WorkerOK, WriteNext
<1>3. ASSUME NEW x \in Managers, x # m
      PROVE  local'[x] = local[x] /\ pc'[x] = pc[x] /\ after'[x] = after[x]
  BY <1>3 DEF TypeInv, WorkerOK, WriteNext
<1>4. ASSUME NEW x \in Managers PROVE CopyOK(x)'
  <2> CopyOK(x)
    BY DEF TypeInv, Copies
  <2>1. CASE x = m
    BY <1>2, <2>1 DEF CopyOK, MySpec, Generation
  <2>2. CASE x # m
    BY <1>3, <2>2 DEF CopyOK, MySpec, Generation
  <2>3. QED
    BY <2>1, <2>2
<1>5. QED
  BY <1>1, <1>4

------------------------------------------------------------------------------
(* Every action keeps the types.  The lemmas of this part each settle one   *)
(* kind of effect; TypeStep puts them together, one step per action.        *)

\* What is left once the worker's variables and the stored ones are settled.
LEMMA TypeKept ==
  ASSUME TypeInv, UNCHANGED <<specs, cache>>, WorkerOK', RestOK',
         \A x \in Managers : CopyOK(x)'
  PROVE  TypeInv'
BY DEF TypeInv, Copies, Generation

LEMMA MyStageType ==
  ASSUME TypeInv, NEW m \in Managers, NEW i \in DOMAIN MySpec(m).stages
  PROVE  /\ MySpec(m) \in RolloutSpecs
         /\ MySpec(m).stages[i] \in Stage
         /\ i \in Nat
<1>1. local[m].gen \in DOMAIN specs
  BY DEF TypeInv, WorkerOK, RestOK, Copies, CopyOK, Generation
<1>2. MySpec(m) \in RolloutSpecs
  BY <1>1 DEF TypeInv, RestOK, MySpec
<1>3. MySpec(m).stages \in Seq(Stage)
  BY <1>2, RolloutAssumption DEF RolloutSpec
<1>4. QED
  BY <1>2, <1>3

LEMMA CopyType ==
  ASSUME TypeInv, NEW m \in Managers
  PROVE  /\ local[m] \in [gen: Nat \ {0}, status: Status, ix: Nat, stage: StageStatus]
         /\ cache[m] \in [gen: Nat \ {0}, status: Status]
BY DEF TypeInv, WorkerOK, RestOK

LEMMA EntryType ==
  ASSUME TypeInv, NEW st \in Status, NEW n \in Names
  PROVE  st.stages[n] \in StageStatus
BY DEF Status

LEMMA EndedType ==
  ASSUME TypeInv, NEW m \in Managers, NEW i \in DOMAIN MySpec(m).stages,
         NEW entry \in StageStatus, NEW outcome
  PROVE  Ended(m, i, entry, outcome) \in Status
<1> DEFINE st == Record(local[m].status, MySpec(m).stages[i].name, entry)
<1>1. st \in Status /\ local[m].gen \in Nat
  BY MyStageType, CopyType, RecordType DEF Stage
<1>2. \A p \in Phases, r \in Reasons : Phased(st, local[m].gen, p, r) \in Status
  BY <1>1, PhasedType
<1> HIDE DEF st
<1>3. /\ Phased(st, local[m].gen, "Running", "passed") \in Status
      /\ Phased(st, local[m].gen, "Promoted", "passed") \in Status
      /\ Phased(st, local[m].gen, "WavedOff", "rejected") \in Status
      /\ Phased(st, local[m].gen, "Held", "inconclusive") \in Status
  BY <1>2 DEF Phases, Reasons
<1>4. QED
  BY <1>3 DEF Ended, st

LEMMA HoldType ==
  ASSUME TypeInv, NEW m \in Managers, NEW r \in Reasons, Hold(m, r), specs' = specs
  PROVE  WorkerOK' /\ \A x \in Managers : CopyOK(x)'
<1>1. Phased(local[m].status, local[m].gen, "Held", r) \in Status /\ local[m].ix \in Nat
  BY CopyType, PhasedType DEF Phases
<1>2. QED
  BY <1>1, WriteNextType DEF Hold

LEMMA RestType ==
  ASSUME TypeInv, NEW m \in Managers, Rest(m), base' \in [Managers -> BOOLEAN],
         specs' = specs
  PROVE  WorkerOK' /\ \A x \in Managers : CopyOK(x)'
<1>1. WorkerOK'
  <2> USE DEF TypeInv, WorkerOK, Rest
  <2>1. local' \in [Managers -> [gen: Nat \ {0}, status: Status, ix: Nat, stage: StageStatus]]
    BY NoCopyType
  <2>2. calls' \in [Managers -> Seq(RouterCalls)]
    OBVIOUS
  <2>3. pc' \in [Managers -> {"idle", "dispatch", "replay", "enter", "withdraw", "write"}]
        /\ after' \in [Managers -> {"done", "requeue", "replay"}]
        /\ cursor' \in [Managers -> Nat \ {0}] /\ measured' \in [Managers -> BOOLEAN]
    OBVIOUS
  <2>4. QED
    BY <2>1, <2>2, <2>3
<1>2. ASSUME NEW x \in Managers PROVE CopyOK(x)'
  <2> CopyOK(x) /\ specs # <<>> /\ specs \in Seq(RolloutSpecs)
    BY DEF TypeInv, Copies, RestOK
  <2>1. CASE x = m
    BY <2>1 DEF TypeInv, WorkerOK, Rest, CopyOK, NoCopy, Generation
  <2>2. CASE x # m
    BY <2>2 DEF TypeInv, WorkerOK, Rest, CopyOK, MySpec, Generation
  <2>3. QED
    BY <2>1, <2>2
<1>3. QED
  BY <1>1, <1>2

LEMMA StoreType ==
  ASSUME TypeInv, NEW m \in Managers, NEW kept \in BOOLEAN, Store(m, kept)
  PROVE  /\ status' \in Status
         /\ current' \in [Managers -> BOOLEAN]
         /\ base' \in [Managers -> BOOLEAN]
BY CopyType DEF Store

LEMMA BegunType ==
  ASSUME NEW e \in StageStatus, NEW p \in Phases, NEW t \in Nat
  PROVE  [e EXCEPT !.phase = p, !.startedAt = t] \in StageStatus
BY DEF StageStatus

LEMMA FinishedType ==
  ASSUME NEW e \in StageStatus, NEW p \in Phases, NEW t \in Nat, NEW u \in Nat
  PROVE  /\ [e EXCEPT !.phase = p, !.startedAt = t, !.finishedAt = u] \in StageStatus
         /\ [e EXCEPT !.phase = p, !.finishedAt = u] \in StageStatus
         /\ [e EXCEPT !.phase = p, !.rolledBack = TRUE, !.finishedAt = u] \in StageStatus
BY DEF StageStatus

LEMMA WeighedType ==
  ASSUME NEW e \in StageStatus, NEW w \in 0..100
  PROVE  [e EXCEPT !.weight = w] \in StageStatus
BY DEF StageStatus

LEMMA TriggeredType ==
  ASSUME NEW e \in StageStatus, NEW g \in Triggers \cup {""}
  PROVE  [e EXCEPT !.trigger = g] \in StageStatus
BY DEF StageStatus

LEMMA RoutedType ==
  ASSUME NEW r \in [weight: 0..100, mirror: 0..100], NEW c \in RouterCalls
  PROVE  Routed(r, c) \in [weight: 0..100, mirror: 0..100]
BY DEF Routed, RouterCalls

\* A pass over a running stage ends in one of four ways, and names a trigger
\* of the policy or none.
LEMMA AdvanceStepType ==
  ASSUME NEW spec, NEW stage, NEW elapsed, NEW a
  PROVE  /\ AdvanceStep(spec, stage, elapsed, a).outcome
              \in {"error", "continue", "promote", "roll-back"}
         /\ AdvanceStep(spec, stage, elapsed, a).trigger \in Triggers \cup {""}
         /\ AdvanceStep(spec, stage, elapsed, a).requeue \in BOOLEAN
BY DEF AdvanceStep, Step, Triggers

\* A pass that has chosen a stage of its spec and has router calls to make.
LEMMA ChosenType ==
  ASSUME TypeInv, NEW m \in Managers, NEW i \in DOMAIN MySpec(m).stages, i \in Nat,
         NEW e \in StageStatus, NEW c \in Seq(RouterCalls), NEW p \in {"enter", "withdraw"},
         pc' = [pc EXCEPT ![m] = p],
         local' = [local EXCEPT ![m].ix = i, ![m].stage = e],
         calls' = [calls EXCEPT ![m] = c],
         UNCHANGED <<base, after, cursor, measured, specs>>
  PROVE  WorkerOK' /\ \A x \in Managers : CopyOK(x)'
<1> DEFINE copy == [local[m] EXCEPT !.ix = i, !.stage = e]
<1>1. copy \in [gen: Nat \ {0}, status: Status, ix: Nat, stage: StageStatus]
      /\ copy.gen = local[m].gen /\ copy.ix = i
  BY CopyType
<1>2. local' = [local EXCEPT ![m] = copy]
  BY DEF TypeInv, WorkerOK
<1> HIDE DEF copy
<1>3. WorkerOK'
  <2>1. local' \in [Managers -> [gen: Nat \ {0}, status: Status, ix: Nat, stage: StageStatus]]
    BY <1>1, <1>2 DEF TypeInv, WorkerOK
  <2>2. calls' \in [Managers -> Seq(RouterCalls)]
    BY DEF TypeInv, WorkerOK
  <2>3. pc' \in [Managers -> {"idle", "dispatch", "replay", "enter", "withdraw", "write"}]
    BY DEF TypeInv, WorkerOK
  <2>4. QED
    BY <2>1, <2>2, <2>3 DEF TypeInv, WorkerOK
<1>4. ASSUME NEW x \in Managers PROVE CopyOK(x)'
  <2> CopyOK(x)
    BY DEF TypeInv, Copies
  <2>1. CASE x = m
    BY <1>1, <1>2, <2>1 DEF CopyOK, MySpec, Generation, TypeInv, WorkerOK
  <2>2. CASE x # m
    BY <1>2, <2>2 DEF CopyOK, MySpec, Generation, TypeInv, WorkerOK
  <2>3. QED
    BY <2>1, <2>2
<1>5. QED
  BY <1>3, <1>4

\* The effect of the next router call on the route of the chosen stage.
LEMMA CallType ==
  ASSUME TypeInv, NEW m \in Managers, calls[m] # <<>>,
         pc[m] \in {"enter", "withdraw"},
         route' = [route EXCEPT ![MyStage(m).route] = Routed(@, Head(calls[m]))]
  PROVE  route' \in [Routes -> [weight: 0..100, mirror: 0..100]]
<1>1. Head(calls[m]) \in RouterCalls
  BY DEF TypeInv, WorkerOK
<1>2. MyStage(m).route \in Routes
  BY MyStageType DEF TypeInv, Copies, CopyOK, MyStage, Stage
<1>3. route[MyStage(m).route] \in [weight: 0..100, mirror: 0..100]
  BY <1>2 DEF TypeInv, RestOK
<1>4. Routed(route[MyStage(m).route], Head(calls[m])) \in [weight: 0..100, mirror: 0..100]
  BY <1>1, <1>3, RoutedType
<1>5. QED
  BY <1>4 DEF TypeInv, RestOK

\* Actions of a manager that end its pass in a write or a hold.
LEMMA TypeWriteNext ==
  ASSUME TypeInv, NEW m \in Managers,
         \/ ManifestsMissing(m) \/ FinishPromoted(m) \/ StartOffline(m)
         \/ ReplayFails(m) \/ NothingMeasured(m) \/ RouterRefuses(m) \/ RouterFails(m)
         \/ Entered(m) \/ Withdrawn(m)
         \/ \E i \in StageIndices : PreflightFails(m, i) \/ SplitUnreadable(m, i)
         \/ \E outcome \in {"Promoted", "WavedOff", "Held"} : JudgeOffline(m, outcome)
  PROVE  TypeInv'
<1> USE DEF object, watch, history
<1>1. CASE ManifestsMissing(m)
  <2>1. RestOK' /\ UNCHANGED <<specs, cache>>
    BY <1>1 DEF ManifestsMissing, TypeInv, RestOK
  <2>2. QED
    BY <1>1, <2>1, HoldType, TypeKept DEF ManifestsMissing, Reasons
<1>2. CASE FinishPromoted(m)
  <2>1. RestOK' /\ UNCHANGED <<specs, cache>>
    BY <1>2 DEF FinishPromoted, TypeInv, RestOK
  <2>2. Phased(local[m].status, local[m].gen, "Promoted", "passed") \in Status
    BY CopyType, PhasedType DEF Phases, Reasons
  <2>3. QED
    BY <1>2, <2>1, <2>2, WriteNextType, TypeKept DEF FinishPromoted
<1>3. CASE StartOffline(m)
  <2>1. RestOK' /\ UNCHANGED <<specs, cache>>
    BY <1>3 DEF StartOffline, TypeInv, RestOK
  <2>2. PICK i \in DOMAIN MySpec(m).stages :
          WriteNext(m, i, Phased(local[m].status, local[m].gen, "Running", "running"), "replay")
    BY <1>3 DEF StartOffline
  <2>3. Phased(local[m].status, local[m].gen, "Running", "running") \in Status /\ i \in Nat
    BY CopyType, PhasedType, MyStageType DEF Phases, Reasons
  <2>4. QED
    BY <2>1, <2>2, <2>3, WriteNextType, TypeKept
<1>4. CASE ReplayFails(m)
  <2>1. RestOK' /\ UNCHANGED <<specs, cache>>
    BY <1>4 DEF ReplayFails, TypeInv, RestOK
  <2>2. QED
    BY <1>4, <2>1, HoldType, TypeKept DEF ReplayFails, Reasons
<1>5. CASE NothingMeasured(m)
  <2>1. RestOK' /\ UNCHANGED <<specs, cache>>
    BY <1>5 DEF NothingMeasured, TypeInv, RestOK
  <2>2. QED
    BY <1>5, <2>1, HoldType, TypeKept DEF NothingMeasured, Reasons
<1>6. CASE RouterRefuses(m)
  <2>1. RestOK' /\ UNCHANGED <<specs, cache>>
    BY <1>6 DEF RouterRefuses, TypeInv, RestOK
  <2>2. QED
    BY <1>6, <2>1, HoldType, TypeKept DEF RouterRefuses, Reasons
<1>7. CASE RouterFails(m)
  <2>1. route' \in [Routes -> [weight: 0..100, mirror: 0..100]]
    BY <1>7, CallType DEF RouterFails, TypeInv, RestOK
  <2>2. RestOK' /\ UNCHANGED <<specs, cache>>
    BY <1>7, <2>1, RolloutAssumption DEF RouterFails, TypeInv, RestOK
  <2>3. QED
    BY <1>7, <2>2, HoldType, TypeKept DEF RouterFails, Reasons
<1>8. CASE Entered(m)
  <2>1. RestOK' /\ UNCHANGED <<specs, cache>>
    BY <1>8 DEF Entered, TypeInv, RestOK
  <2>2. local[m].ix \in DOMAIN MySpec(m).stages
    BY <1>8 DEF Entered, TypeInv, Copies, CopyOK
  <2>3. MyStage(m).name \in Names /\ local[m].ix \in Nat
    BY <2>2, MyStageType DEF MyStage, Stage
  <2> DEFINE entry == [NoStage EXCEPT !.phase = "Running", !.startedAt = clock]
             st    == Record(local[m].status, MyStage(m).name, entry)
  <2>4. entry \in StageStatus
    <3>1. clock \in Nat /\ "Running" \in Phases
      BY DEF Phases, TypeInv, RestOK
    <3>2. QED
      BY <3>1, NoStageType, BegunType
  <2>5. st \in Status
    BY <2>3, <2>4, CopyType, RecordType
  <2> HIDE DEF st
  <2>6. Phased(st, local[m].gen, "Running", "running") \in Status
    BY <2>5, CopyType, PhasedType DEF Phases, Reasons
  <2>7. WriteNext(m, local[m].ix, Phased(st, local[m].gen, "Running", "running"), "requeue")
    BY <1>8 DEF Entered, st
  <2>8. QED
    BY <2>1, <2>3, <2>6, <2>7, WriteNextType, TypeKept
<1>9. CASE Withdrawn(m)
  <2>1. local[m].ix \in DOMAIN MySpec(m).stages
    BY <1>9 DEF Withdrawn, TypeInv, Copies, CopyOK
  <2>2. RestOK' /\ UNCHANGED <<specs, cache>>
    <3>1. <<local[m].gen, local[m].ix>> \in Nat \X Nat
      BY CopyType
    <3>2. QED
      BY <1>9, <3>1 DEF Withdrawn, TypeInv, RestOK
  <2> DEFINE entry == [local[m].stage EXCEPT !.phase = "WavedOff", !.rolledBack = TRUE,
                                             !.finishedAt = clock]
  <2>3. entry \in StageStatus
    <3>1. clock \in Nat /\ "WavedOff" \in Phases /\ local[m].stage \in StageStatus
      BY CopyType DEF Phases, TypeInv, RestOK
    <3>2. QED
      BY <3>1, FinishedType
  <2> HIDE DEF entry
  <2>4. Ended(m, local[m].ix, entry, "WavedOff") \in Status
    BY <2>1, <2>3, EndedType
  <2>5. AfterEnd(m, local[m].ix, "WavedOff") = "done" /\ local[m].ix \in Nat
    BY CopyType DEF AfterEnd
  <2>6. WriteNext(m, local[m].ix, Ended(m, local[m].ix, entry, "WavedOff"), "done")
    BY <1>9, <2>5 DEF Withdrawn, entry
  <2>7. QED
    BY <2>2, <2>4, <2>5, <2>6, WriteNextType, TypeKept
<1>10. ASSUME NEW i \in StageIndices, PreflightFails(m, i) \/ SplitUnreadable(m, i)
       PROVE  TypeInv'
  <2>1. RestOK' /\ UNCHANGED <<specs, cache>>
    <3>1. UNCHANGED <<object, watch, outputs, route, clock, history>>
      BY <1>10 DEF PreflightFails, SplitUnreadable
    <3>2. faults' = faults \/ (faults < MaxFaults /\ faults' = faults + 1)
      BY <1>10 DEF PreflightFails, SplitUnreadable
    <3>3. faults' \in 0..MaxFaults
      BY <3>2, RolloutAssumption DEF TypeInv, RestOK
    <3>4. QED
      BY <3>1, <3>3 DEF TypeInv, RestOK, object, watch, history
  <2>2. Hold(m, "preflight") \/ Hold(m, "traffic")
    BY <1>10 DEF PreflightFails, SplitUnreadable
  <2>3. QED
    BY <2>1, <2>2, HoldType, TypeKept DEF Reasons
<1>11. ASSUME NEW outcome \in {"Promoted", "WavedOff", "Held"}, JudgeOffline(m, outcome)
       PROVE  TypeInv'
  <2>1. local[m].ix \in DOMAIN MySpec(m).stages
    BY <1>11 DEF JudgeOffline, TypeInv, Copies, CopyOK
  <2>2. RestOK' /\ UNCHANGED <<specs, cache>>
    <3>1. <<local[m].gen, local[m].ix>> \in Nat \X Nat
      BY CopyType
    <3>2. passed' \subseteq Nat \X Nat
      BY <1>11, <3>1 DEF JudgeOffline, TypeInv, RestOK
    <3>3. QED
      BY <1>11, <3>2 DEF JudgeOffline, TypeInv, RestOK
  <2> DEFINE entry == [NoStage EXCEPT !.phase = outcome, !.startedAt = clock,
                                      !.finishedAt = clock]
  <2>3. entry \in StageStatus
    <3>1. clock \in Nat /\ outcome \in Phases
      BY <1>11 DEF Phases, TypeInv, RestOK
    <3>2. QED
      BY <3>1, NoStageType, FinishedType
  <2> HIDE DEF entry
  <2>4. Ended(m, local[m].ix, entry, outcome) \in Status
    BY <2>1, <2>3, EndedType
  <2>5. AfterEnd(m, local[m].ix, outcome) \in {"done", "requeue"} /\ local[m].ix \in Nat
    BY CopyType DEF AfterEnd
  <2>6. WriteNext(m, local[m].ix, Ended(m, local[m].ix, entry, outcome),
                  AfterEnd(m, local[m].ix, outcome))
    BY <1>11 DEF JudgeOffline, entry
  <2>7. QED
    BY <2>2, <2>4, <2>5, <2>6, WriteNextType, TypeKept
<1>12. QED
  BY <1>1, <1>2, <1>3, <1>4, <1>5, <1>6, <1>7, <1>8, <1>9, <1>10, <1>11

LEMMA TypeAdvance ==
  ASSUME TypeInv, NEW m \in Managers, NEW i \in StageIndices, NEW a \in Answers,
         Advance(m, i, a)
  PROVE  TypeInv'
<1> DEFINE stage == MySpec(m).stages[i]
           old   == local[m].status.stages[stage.name]
           entry == [old EXCEPT !.weight = route[stage.route].weight]
           step  == AdvanceStep(MySpec(m), stage, clock - old.startedAt, a)
           done  == [entry EXCEPT !.phase = "Promoted", !.finishedAt = clock]
           kept  == [entry EXCEPT !.trigger = step.trigger]
<1>1. i \in DOMAIN MySpec(m).stages /\ UNCHANGED <<object, watch, outputs, route, clock, faults>>
  BY DEF Advance, LiveNext
<1>2. stage \in Stage /\ i \in Nat /\ MySpec(m) \in RolloutSpecs
  BY <1>1, MyStageType
<1>3. stage.name \in Names /\ stage.route \in Routes
  BY <1>2 DEF Stage
<1>4. old \in StageStatus /\ local[m].status \in Status /\ local[m].gen \in Nat
  BY <1>3, CopyType, EntryType
<1>5. route[stage.route].weight \in 0..100 /\ clock \in Nat
  BY <1>3 DEF TypeInv, RestOK
<1>6. step.outcome \in {"error", "continue", "promote", "roll-back"}
      /\ step.trigger \in Triggers \cup {""}
  BY AdvanceStepType
<1>7. entry \in StageStatus
  BY <1>4, <1>5, WeighedType
<1>8. kept \in StageStatus
  BY <1>6, <1>7, TriggeredType
<1>9. done \in StageStatus
  BY <1>5, <1>7, FinishedType DEF Phases
<1>10. CASE step.outcome = "error"
  <2>1. Hold(m, "measurement") /\ UNCHANGED history
    BY <1>10 DEF Advance
  <2>2. RestOK' /\ UNCHANGED <<specs, cache>>
    BY <1>1, <2>1 DEF TypeInv, RestOK, object, watch, history
  <2>3. QED
    BY <2>1, <2>2, HoldType, TypeKept DEF Reasons
<1>11. CASE step.outcome = "continue"
  <2> DEFINE st   == Record(local[m].status, stage.name, entry)
             then == IF step.requeue THEN "requeue" ELSE "done"
  <2>1. WriteNext(m, i, Phased(st, local[m].gen, "Running", "running"), then)
        /\ UNCHANGED history
    BY <1>11 DEF Advance
  <2>2. RestOK' /\ UNCHANGED <<specs, cache>>
    BY <1>1, <2>1 DEF TypeInv, RestOK, object, watch, history
  <2>3. st \in Status
    BY <1>3, <1>4, <1>7, RecordType
  <2> HIDE DEF st
  <2>4. Phased(st, local[m].gen, "Running", "running") \in Status
    BY <2>3, <1>4, PhasedType DEF Phases, Reasons
  <2>5. then \in {"done", "requeue"}
    OBVIOUS
  <2> HIDE DEF then
  <2>6. QED
    BY <1>2, <2>1, <2>2, <2>4, <2>5, WriteNextType, TypeKept
<1>12. CASE step.outcome = "promote"
  <2>1. WriteNext(m, i, Ended(m, i, done, "Promoted"), AfterEnd(m, i, "Promoted"))
        /\ passed' = passed \cup {<<local[m].gen, i>>} /\ UNCHANGED withdrawn
    BY <1>12 DEF Advance
  <2>2. passed' \subseteq Nat \X Nat
    <3>1. passed \subseteq Nat \X Nat
      BY DEF TypeInv, RestOK
    <3>2. <<local[m].gen, i>> \in Nat \X Nat
      BY <1>2, <1>4
    <3>3. QED
      BY <2>1, <3>1, <3>2
  <2>3. RestOK' /\ UNCHANGED <<specs, cache>>
    BY <1>1, <2>1, <2>2 DEF TypeInv, RestOK, object, watch
  <2> HIDE DEF done
  <2>4. Ended(m, i, done, "Promoted") \in Status
    BY <1>1, <1>9, EndedType
  <2>5. AfterEnd(m, i, "Promoted") \in {"done", "requeue"}
    BY DEF AfterEnd
  <2>6. QED
    BY <1>2, <2>1, <2>3, <2>4, <2>5, WriteNextType, TypeKept
<1>13. CASE step.outcome = "roll-back"
  <2>1. /\ pc' = [pc EXCEPT ![m] = "withdraw"]
        /\ local' = [local EXCEPT ![m].ix = i, ![m].stage = kept]
        /\ calls' = [calls EXCEPT ![m] = WithdrawCalls(stage)]
        /\ UNCHANGED <<base, after, cursor, measured, history>>
    BY <1>13 DEF Advance
  <2>2. RestOK' /\ UNCHANGED <<specs, cache>>
    BY <1>1, <2>1 DEF TypeInv, RestOK, object, watch, history
  <2> HIDE DEF kept, stage
  <2>3. WithdrawCalls(stage) \in Seq(RouterCalls)
    BY <1>2, WithdrawCallsType
  <2>4. WorkerOK' /\ \A x \in Managers : CopyOK(x)'
    BY <1>1, <1>2, <1>8, <2>1, <2>2, <2>3, ChosenType
  <2>5. QED
    BY <2>2, <2>4, TypeKept
<1>14. QED
  BY <1>6, <1>10, <1>11, <1>12, <1>13

LEMMA TypeProceed ==
  ASSUME TypeInv, NEW m \in Managers,
         \/ Skip(m) \/ Get(m) \/ ReplaySession(m) \/ CallRouter(m) \/ WriteStatus(m)
         \/ WriteConflict(m) \/ WriteFails(m) \/ Crash(m) \/ CacheSync(m) \/ Resync(m)
         \/ \E i \in StageIndices : Enter(m, i)
  PROVE  TypeInv'
<1>1. CASE Skip(m)
  BY <1>1 DEF Skip, TypeInv, WorkerOK, RestOK, Copies, CopyOK, MySpec, Generation,
              object, worker, history
<1>2. CASE Get(m)
  <2>1. UNCHANGED <<object, cache, current, calls, after, cursor, measured, outputs,
                    route, clock, faults, history>>
    BY <1>2 DEF Get
  <2>2. RestOK' /\ UNCHANGED <<specs, cache>>
    BY <1>2, <2>1 DEF Get, TypeInv, RestOK, object, history
  <2> DEFINE copy == [gen |-> cache[m].gen, status |-> StatusFor(cache[m]),
                      ix |-> 0, stage |-> NoStage]
  <2>3. copy \in [gen: Nat \ {0}, status: Status, ix: Nat, stage: StageStatus]
    BY CopyType, EmptyStatusType, NoStageType DEF StatusFor
  <2>4. copy.gen <= Generation
    BY DEF TypeInv, Copies
  <2> HIDE DEF copy
  <2>5. local' = [local EXCEPT ![m] = copy] /\ pc' = [pc EXCEPT ![m] = "dispatch"]
        /\ base' = [base EXCEPT ![m] = current[m]]
    BY <1>2 DEF Get, copy
  <2>6. WorkerOK'
    BY <2>1, <2>3, <2>5 DEF TypeInv, WorkerOK, RestOK
  <2>7. ASSUME NEW x \in Managers PROVE CopyOK(x)'
    BY <2>1, <2>4, <2>5 DEF TypeInv, WorkerOK, Copies, CopyOK, MySpec, Generation, object
  <2>8. QED
    BY <2>2, <2>6, <2>7, TypeKept
<1>3. CASE ReplaySession(m)
  <2> DEFINE out == <<local[m].gen, MyStage(m).sessions[cursor[m]]>>
  <2>1. local[m].ix \in DOMAIN MySpec(m).stages /\ pc[m] = "replay"
    BY <1>3 DEF ReplaySession, TypeInv, Copies, CopyOK
  <2>2. CASE Hold(m, "collision") /\ UNCHANGED outputs
    <3>1. RestOK' /\ UNCHANGED <<specs, cache>>
      BY <1>3, <2>2 DEF ReplaySession, TypeInv, RestOK, object, watch, history
    <3>2. QED
      BY <2>2, <3>1, HoldType, TypeKept DEF Reasons
  <2>3. CASE /\ outputs' = [outputs EXCEPT ![m] = @ \cup {out}]
             /\ cursor' = [cursor EXCEPT ![m] = @ + 1]
             /\ measured' = [measured EXCEPT ![m] =
                              @ \/ (AgentDriven /\ MyStage(m).sessions[cursor[m]] \in Usable)]
             /\ UNCHANGED <<pc, local, base, calls, after>>
    <3>1. MyStage(m).sessions \in Seq(Sessions)
      BY <2>1, MyStageType DEF MyStage, Stage
    <3>2. cursor[m] <= Len(MyStage(m).sessions)
      BY <1>3 DEF ReplaySession
    <3>3. MyStage(m).sessions[cursor[m]] \in Sessions
      BY <3>1, <3>2 DEF TypeInv, WorkerOK
    <3>4. out \in Nat \X Sessions
      BY <3>3, CopyType
    <3> HIDE DEF out
    <3>5. outputs' \in [Managers -> SUBSET (Nat \X Sessions)]
      BY <2>3, <3>4 DEF TypeInv, RestOK
    <3>6. RestOK' /\ UNCHANGED <<specs, cache>>
      BY <1>3, <3>5 DEF ReplaySession, TypeInv, RestOK, object, watch, history
    <3>7. measured' \in [Managers -> BOOLEAN]
      BY <2>3 DEF TypeInv, WorkerOK
    <3>8. WorkerOK' /\ \A x \in Managers : CopyOK(x)'
      BY <2>3, <3>6, <3>7 DEF TypeInv, WorkerOK, Copies, CopyOK, MySpec, Generation
    <3>9. QED
      BY <3>6, <3>8, TypeKept
  <2>4. QED
    BY <1>3, <2>2, <2>3 DEF ReplaySession
<1>4. CASE CallRouter(m)
  <2>1. route' \in [Routes -> [weight: 0..100, mirror: 0..100]]
    BY <1>4, CallType DEF CallRouter
  <2>2. RestOK' /\ UNCHANGED <<specs, cache>>
    BY <1>4, <2>1 DEF CallRouter, TypeInv, RestOK, object, watch, history
  <2>3. WorkerOK' /\ \A x \in Managers : CopyOK(x)'
    BY <1>4, <2>2 DEF CallRouter, TypeInv, WorkerOK, Copies, CopyOK, MySpec, Generation
  <2>4. QED
    BY <2>2, <2>3, TypeKept
<1>5. CASE WriteStatus(m)
  <2>1. status' \in Status /\ current' \in [Managers -> BOOLEAN]
        /\ base' \in [Managers -> BOOLEAN]
    <3>1. CASE Store(m, after[m] = "replay")
      BY <3>1, StoreType
    <3>2. CASE StoreNothing(m, after[m] = "replay")
      BY <3>2 DEF StoreNothing, TypeInv, WorkerOK, RestOK
    <3>3. QED
      BY <1>5, <3>1, <3>2 DEF WriteStatus
  <2>2. CASE after[m] = "replay"
    <3>1. RestOK' /\ UNCHANGED <<specs, cache>>
      BY <1>5, <2>1, <2>2 DEF WriteStatus, TypeInv, RestOK, history
    <3>2. pc' = [pc EXCEPT ![m] = "replay"]
          /\ UNCHANGED <<local, calls, after, cursor, measured>>
      BY <1>5, <2>2 DEF WriteStatus
    <3>3. WorkerOK'
      BY <2>1, <3>2 DEF TypeInv, WorkerOK
    <3>4. \A x \in Managers : CopyOK(x)'
      BY <1>5, <2>2, <3>1, <3>2
         DEF WriteStatus, TypeInv, WorkerOK, Copies, CopyOK, MySpec, Generation
    <3>5. QED
      BY <3>1, <3>3, <3>4, TypeKept
  <2>3. CASE after[m] # "replay"
    <3>1. Rest(m) /\ queued' = [queued EXCEPT ![m] = @ \/ after[m] = "requeue"]
          /\ UNCHANGED <<specs, cache, outputs, route, clock, faults, history>>
      BY <1>5, <2>3 DEF WriteStatus
    <3>2. queued' \in [Managers -> BOOLEAN]
      BY <3>1 DEF TypeInv, RestOK
    <3>3. RestOK'
      BY <2>1, <3>1, <3>2 DEF TypeInv, RestOK, history
    <3>4. QED
      BY <2>1, <3>1, <3>3, RestType, TypeKept
  <2>4. QED
    BY <2>2, <2>3
<1>6. CASE WriteConflict(m)
  <2>1. RestOK' /\ UNCHANGED <<specs, cache>>
    BY <1>6 DEF WriteConflict, TypeInv, RestOK, object, history
  <2>2. Rest(m) /\ base' \in [Managers -> BOOLEAN]
    BY <1>6 DEF WriteConflict, TypeInv, WorkerOK
  <2>3. QED
    BY <2>1, <2>2, RestType, TypeKept
<1>7. CASE WriteFails(m)
  <2>1. status' \in Status /\ current' \in [Managers -> BOOLEAN]
        /\ base' \in [Managers -> BOOLEAN]
    <3>1. CASE Store(m, FALSE)
      BY <3>1, StoreType
    <3>2. CASE base' = [base EXCEPT ![m] = FALSE] /\ UNCHANGED <<status, current>>
      BY <3>2 DEF TypeInv, WorkerOK, RestOK
    <3>3. QED
      BY <1>7, <3>1, <3>2 DEF WriteFails
  <2>2. faults' \in 0..MaxFaults /\ queued' \in [Managers -> BOOLEAN]
    BY <1>7, RolloutAssumption DEF WriteFails, TypeInv, RestOK
  <2>3. UNCHANGED <<specs, cache, outputs, route, clock, passed, withdrawn>> /\ Rest(m)
    BY <1>7 DEF WriteFails, history
  <2>4. RestOK'
    BY <2>1, <2>2, <2>3 DEF TypeInv, RestOK
  <2>5. QED
    BY <2>1, <2>3, <2>4, RestType, TypeKept
<1>8. CASE Crash(m) \/ CacheSync(m)
  <2> DEFINE stored == [gen |-> Generation, status |-> status]
  <2>1. cache' = [cache EXCEPT ![m] = stored] /\ specs' = specs
    BY <1>8 DEF Crash, CacheSync, object
  <2>2. stored \in [gen: Nat \ {0}, status: Status] /\ stored.gen = Generation
    BY DEF TypeInv, RestOK, Generation
  <2> HIDE DEF stored
  <2>3. cache' \in [Managers -> [gen: Nat \ {0}, status: Status]]
        /\ \A x \in Managers : cache'[x].gen <= Generation'
    BY <2>1, <2>2 DEF TypeInv, RestOK, Copies, Generation
  <2>4. RestOK'
    <3>1. faults' \in 0..MaxFaults
      BY <1>8, RolloutAssumption DEF Crash, CacheSync, TypeInv, RestOK
    <3>2. current' \in [Managers -> BOOLEAN] /\ queued' \in [Managers -> BOOLEAN]
      BY <1>8 DEF Crash, CacheSync, TypeInv, RestOK
    <3>3. UNCHANGED <<specs, status, outputs, route, clock, passed, withdrawn>>
      BY <1>8 DEF Crash, CacheSync, object, history
    <3>4. QED
      BY <2>3, <3>1, <3>2, <3>3 DEF TypeInv, RestOK
  <2>5. WorkerOK' /\ \A x \in Managers : CopyOK(x)'
    <3>1. CASE Crash(m)
      BY <2>1, <3>1, RestType DEF Crash, TypeInv, WorkerOK
    <3>2. CASE CacheSync(m)
      BY <2>1, <3>2 DEF CacheSync, TypeInv, WorkerOK, Copies, CopyOK, MySpec, Generation, worker
    <3>3. QED
      BY <1>8, <3>1, <3>2
  <2>6. QED
    BY <2>3, <2>4, <2>5 DEF TypeInv, Copies
<1>9. CASE Resync(m)
  BY <1>9 DEF Resync, TypeInv, WorkerOK, RestOK, Copies, CopyOK, MySpec, Generation,
              object, worker, history
<1>10. ASSUME NEW i \in StageIndices, Enter(m, i) PROVE TypeInv'
  <2> DEFINE c == EnterCalls(MySpec(m).stages[i])
  <2>1. i \in DOMAIN MySpec(m).stages
    BY <1>10 DEF Enter, LiveNext
  <2>2. c \in Seq(RouterCalls) /\ i \in Nat
    BY <2>1, MyStageType, EnterCallsType
  <2>3. RestOK' /\ UNCHANGED <<specs, cache>>
    BY <1>10 DEF Enter, TypeInv, RestOK, object, watch, history
  <2>4. pc' = [pc EXCEPT ![m] = "enter"] /\ calls' = [calls EXCEPT ![m] = c]
        /\ local' = [local EXCEPT ![m].ix = i]
        /\ UNCHANGED <<base, after, cursor, measured, specs>>
    BY <1>10 DEF Enter, object
  <2>5. local' = [local EXCEPT ![m].ix = i, ![m].stage = local[m].stage]
    BY <2>4, CopyType DEF TypeInv, WorkerOK
  <2> HIDE DEF c
  <2>6. WorkerOK' /\ \A x \in Managers : CopyOK(x)'
    BY <2>1, <2>2, <2>4, <2>5, CopyType, ChosenType
  <2>7. QED
    BY <2>3, <2>6, TypeKept
<1>11. QED
  BY <1>1, <1>2, <1>3, <1>4, <1>5, <1>6, <1>7, <1>8, <1>9, <1>10

\* What users and time do.
LEMMA TypeEnvironment ==
  ASSUME TypeInv, (\E s \in RolloutSpecs : EditSpec(s)) \/ EditMetadata \/ Tick
  PROVE  TypeInv'
<1>1. ASSUME NEW s \in RolloutSpecs, EditSpec(s) PROVE TypeInv'
  <2>1. specs' = Append(specs, s) /\ specs \in Seq(RolloutSpecs) /\ specs # <<>>
    BY <1>1 DEF EditSpec, TypeInv, RestOK
  <2>2. specs' \in Seq(RolloutSpecs) /\ specs' # <<>> /\ Generation' = Generation + 1
        /\ \A g \in 1..Generation : specs'[g] = specs[g]
    BY <2>1 DEF Generation
  <2>3. RestOK' /\ WorkerOK'
    BY <1>1, <2>2 DEF EditSpec, TypeInv, RestOK, WorkerOK, history
  <2>4. Generation \in Nat
    BY <2>1 DEF Generation
  <2>5. ASSUME NEW x \in Managers PROVE cache'[x].gen <= Generation' /\ CopyOK(x)'
    <3>1. local[x].gen \in 1..Generation /\ cache[x].gen \in 1..Generation
      BY <2>4, CopyType DEF TypeInv, Copies, CopyOK
    <3>2. specs'[local[x].gen] = specs[local[x].gen]
      BY <2>2, <3>1
    <3>3. UNCHANGED <<cache, local, pc, after>>
      BY <1>1 DEF EditSpec
    <3>4. QED
      BY <2>2, <2>4, <3>1, <3>2, <3>3 DEF TypeInv, Copies, CopyOK, MySpec
  <2>6. QED
    BY <2>3, <2>5 DEF TypeInv, Copies
<1>2. CASE EditMetadata
  BY <1>2, RolloutAssumption DEF EditMetadata, TypeInv, WorkerOK, RestOK, Copies, CopyOK,
     MySpec, Generation, object, history
<1>3. CASE Tick
  BY <1>3 DEF Tick, TypeInv, WorkerOK, RestOK, Copies, CopyOK, MySpec, Generation,
     object, watch, worker, history
<1>4. QED
  BY <1>1, <1>2, <1>3

LEMMA TypeStep == TypeInv /\ [Next]_vars => TypeInv'
<1> SUFFICES ASSUME TypeInv, [Next]_vars PROVE TypeInv'
  OBVIOUS
<1>1. CASE UNCHANGED vars
  BY <1>1 DEF vars, TypeInv, WorkerOK, RestOK, Copies, CopyOK, MySpec, Generation
<1>2. ASSUME NEW m \in Managers, Proceed(m) PROVE TypeInv'
  BY <1>2, TypeWriteNext, TypeAdvance, TypeProceed DEF Proceed
<1>3. ASSUME NEW m \in Managers,
             \/ CacheSync(m) \/ Resync(m) \/ RouterFails(m) \/ WriteFails(m) \/ Crash(m)
             \/ \E i \in StageIndices : SplitUnreadable(m, i)
      PROVE  TypeInv'
  BY <1>3, TypeWriteNext, TypeProceed
<1>4. CASE (\E s \in RolloutSpecs : EditSpec(s)) \/ EditMetadata \/ Tick
  BY <1>4, TypeEnvironment
<1>5. QED
  BY <1>1, <1>2, <1>3, <1>4 DEF Next

\* Whatever the specs, the managers and the faults, the object, the copies the
\* managers hold of it and the calls they have still to make are well formed.
THEOREM TypeCorrect == Spec => []TypeOK
<1>1. Init => TypeInv
  BY TypeInit
<1>2. TypeInv /\ [Next]_vars => TypeInv'
  BY TypeStep
<1>3. TypeInv => TypeOK
  BY TypeInvType
<1>4. QED
  BY <1>1, <1>2, <1>3, PTL DEF Spec

------------------------------------------------------------------------------
(* A decision is final.                                                     *)

\* What a resourceVersion guarantees.  A cache of the stored version holds the
\* stored object.  A copy of the stored version is held by a pass over the
\* latest generation, and that generation is not decided: the pass checked it
\* when it took the copy, and any later write would have moved the version on.
VersionOK(m) ==
  /\ current[m] => cache[m] = [gen |-> Generation, status |-> status]
  /\ base[m] => pc[m] # "idle" /\ local[m].gen = Generation /\ ~Decided
  /\ pc[m] = "write" /\ after[m] = "replay" => local[m].status.phase = "Running"

VersionInv == TypeInv /\ \A m \in Managers : VersionOK(m)

\* A pass that ends in a write: only its writer's copy and place change.
LEMMA VersionWriteNext ==
  ASSUME VersionInv, NEW m \in Managers, NEW ix, NEW st, NEW then,
         then = "replay" => st.phase = "Running",
         WriteNext(m, ix, st, then), UNCHANGED <<object, watch>>
  PROVE  \A x \in Managers : VersionOK(x)'
<1> USE DEF VersionInv, TypeInv, WorkerOK
<1>1. local'[m].gen = local[m].gen /\ local'[m].status = st /\ pc'[m] = "write"
      /\ after'[m] = then
  BY DEF WriteNext
<1>2. base' = base
  BY DEF WriteNext
<1>3. ASSUME NEW x \in Managers, x # m
      PROVE  local'[x] = local[x] /\ pc'[x] = pc[x] /\ after'[x] = after[x]
  BY <1>3 DEF WriteNext
<1>4. ASSUME NEW x \in Managers PROVE VersionOK(x)'
  <2>1. VersionOK(x) /\ VersionOK(m)
    OBVIOUS
  <2>2. CASE x = m
    BY <1>1, <1>2, <2>1, <2>2 DEF VersionOK, Decided, Generation, object, watch
  <2>3. CASE x # m
    BY <1>2, <1>3, <2>1, <2>3 DEF VersionOK, Decided, Generation, object, watch
  <2>4. QED
    BY <2>2, <2>3
<1>5. QED
  BY <1>4

\* A stored status: the writer's copy stays of the stored version only when the
\* status it wrote is a running one, and every other copy falls behind.
LEMMA VersionStore ==
  ASSUME VersionInv, NEW m \in Managers, pc[m] = "write", base[m], UNCHANGED <<specs, cache>>,
         \/ /\ after[m] = "replay"
            /\ Store(m, TRUE) \/ StoreNothing(m, TRUE)
            /\ pc' = [pc EXCEPT ![m] = "replay"]
            /\ UNCHANGED <<local, after>>
         \/ /\ \/ Store(m, FALSE) \/ StoreNothing(m, FALSE)
               \/ base' = [base EXCEPT ![m] = FALSE] /\ UNCHANGED <<status, current>>
            /\ Rest(m)
  PROVE  \A x \in Managers : VersionOK(x)'
<1> USE DEF VersionInv, TypeInv, WorkerOK, RestOK
<1>1. ASSUME NEW x \in Managers PROVE VersionOK(x)'
  <2>0. VersionOK(x) /\ VersionOK(m)
    OBVIOUS
  <2>1. CASE /\ after[m] = "replay"
             /\ Store(m, TRUE) \/ StoreNothing(m, TRUE)
             /\ pc' = [pc EXCEPT ![m] = "replay"]
             /\ UNCHANGED <<local, after>>
    <3>1. local[m].status.phase = "Running"
      BY <2>0, <2>1 DEF VersionOK
    <3>2. CASE Store(m, TRUE)
      BY <2>0, <2>1, <3>1, <3>2 DEF Store, VersionOK, Decided, Generation
    <3>3. CASE StoreNothing(m, TRUE)
      BY <2>0, <2>1, <3>1, <3>3 DEF StoreNothing, VersionOK, Decided, Generation
    <3>4. QED
      BY <2>1, <3>2, <3>3
  <2>2. CASE Store(m, FALSE) /\ Rest(m)
    BY <2>0, <2>2 DEF Store, Rest, VersionOK, Decided, Generation
  <2>3. CASE /\ base' = [base EXCEPT ![m] = FALSE] /\ UNCHANGED <<status, current>>
             /\ Rest(m)
    BY <2>0, <2>3 DEF Rest, VersionOK, Decided, Generation
  <2>4. QED
    BY <2>1, <2>2, <2>3 DEF StoreNothing
<1>2. QED
  BY <1>1

LEMMA PhasedFields ==
  ASSUME NEW st \in Status, NEW g, NEW p, NEW r
  PROVE  /\ Phased(st, g, p, r).phase = p
         /\ Phased(st, g, p, r).observed = g
         /\ Phased(st, g, p, r).stages = st.stages
BY DEF Phased, Status

\* The actions of a manager that end in WriteNext, said once for every
\* invariant that follows: the status they write, and what is to follow it.
LEMMA PassEnds ==
  ASSUME TypeInv, NEW m \in Managers,
         \/ ManifestsMissing(m) \/ FinishPromoted(m) \/ StartOffline(m)
         \/ ReplayFails(m) \/ NothingMeasured(m) \/ RouterRefuses(m) \/ RouterFails(m)
         \/ Entered(m) \/ Withdrawn(m)
         \/ \E i \in StageIndices : PreflightFails(m, i) \/ SplitUnreadable(m, i)
         \/ \E outcome \in {"Promoted", "WavedOff", "Held"} : JudgeOffline(m, outcome)
  PROVE  /\ UNCHANGED <<object, watch>>
         /\ \E ix, st, then : /\ WriteNext(m, ix, st, then)
                              /\ then = "replay" => st.phase = "Running"
<1> USE DEF Hold
<1>1. CASE ManifestsMissing(m) \/ ReplayFails(m) \/ NothingMeasured(m) \/ RouterRefuses(m)
  <2>1. (\E r \in Reasons : Hold(m, r)) /\ UNCHANGED <<object, watch>>
    BY <1>1 DEF ManifestsMissing, ReplayFails, NothingMeasured, RouterRefuses, Reasons
  <2>2. QED
    BY <2>1
<1>2. CASE RouterFails(m) \/ \E i \in StageIndices : PreflightFails(m, i) \/ SplitUnreadable(m, i)
  <2>1. (\E r \in Reasons : Hold(m, r)) /\ UNCHANGED <<object, watch>>
    BY <1>2 DEF RouterFails, PreflightFails, SplitUnreadable, Reasons
  <2>2. QED
    BY <2>1
<1>3. CASE FinishPromoted(m)
  BY <1>3 DEF FinishPromoted
<1>4. CASE StartOffline(m)
  <2>1. Phased(local[m].status, local[m].gen, "Running", "running").phase = "Running"
    BY CopyType, PhasedFields
  <2>2. QED
    BY <1>4, <2>1 DEF StartOffline
<1>5. CASE Entered(m)
  BY <1>5 DEF Entered
<1>6. CASE Withdrawn(m)
  BY <1>6 DEF Withdrawn, AfterEnd
<1>7. ASSUME NEW outcome \in {"Promoted", "WavedOff", "Held"}, JudgeOffline(m, outcome)
      PROVE  /\ UNCHANGED <<object, watch>>
             /\ \E ix, st, then : /\ WriteNext(m, ix, st, then)
                                  /\ then = "replay" => st.phase = "Running"
  BY <1>7 DEF JudgeOffline, AfterEnd
<1>8. QED
  BY <1>1, <1>2, <1>3, <1>4, <1>5, <1>6, <1>7

LEMMA AdvanceEnds ==
  ASSUME NEW m \in Managers, NEW i \in StageIndices, NEW a \in Answers, Advance(m, i, a)
  PROVE  /\ UNCHANGED <<object, watch>>
         /\ \/ \E ix, st : WriteNext(m, ix, st, "requeue") \/ WriteNext(m, ix, st, "done")
            \/ /\ pc[m] = "dispatch" /\ pc' = [pc EXCEPT ![m] = "withdraw"]
               /\ \E e : local' = [local EXCEPT ![m].ix = i, ![m].stage = e]
               /\ UNCHANGED <<base, after>>
<1> DEFINE stage == MySpec(m).stages[i]
           old   == local[m].status.stages[stage.name]
           step  == AdvanceStep(MySpec(m), stage, clock - old.startedAt, a)
<1>1. UNCHANGED <<object, watch>> /\ pc[m] = "dispatch"
  BY DEF Advance, LiveNext
<1>2. step.outcome \in {"error", "continue", "promote", "roll-back"}
  BY AdvanceStepType
<1>3. CASE step.outcome = "error"
  BY <1>1, <1>3 DEF Advance, Hold
<1>4. CASE step.outcome = "continue"
  BY <1>1, <1>4 DEF Advance
<1>5. CASE step.outcome = "promote"
  BY <1>1, <1>5 DEF Advance, AfterEnd
<1>6. CASE step.outcome = "roll-back"
  BY <1>1, <1>6 DEF Advance
<1>7. QED
  BY <1>2, <1>3, <1>4, <1>5, <1>6

LEMMA VersionProceed ==
  ASSUME VersionInv, NEW m \in Managers, Proceed(m)
  PROVE  \A x \in Managers : VersionOK(x)'
<1> USE DEF VersionInv, TypeInv, WorkerOK
<1>1. CASE Skip(m)
  BY <1>1 DEF Skip, VersionOK, Decided, Generation, object, worker
<1>2. CASE Get(m)
  <2>1. ASSUME NEW x \in Managers PROVE VersionOK(x)'
    <3>1. VersionOK(x) /\ VersionOK(m)
      OBVIOUS
    <3>2. CASE x = m
      <4>1. base'[m] = current[m] /\ pc'[m] = "dispatch" /\ local'[m].gen = cache[m].gen
        BY <1>2 DEF Get
      <4>2. current[m] => cache[m].gen = Generation /\ ~Decided
        BY <1>2, <3>1 DEF Get, VersionOK, Decided, Terminal
      <4>3. UNCHANGED <<object, cache, current>>
        BY <1>2 DEF Get
      <4>4. QED
        BY <3>1, <3>2, <4>1, <4>2, <4>3 DEF VersionOK, Decided, Generation, object
    <3>3. CASE x # m
      BY <1>2, <3>1, <3>3 DEF Get, VersionOK, Decided, Generation, object
    <3>4. QED
      BY <3>2, <3>3
  <2>2. QED
    BY <2>1
<1>3. CASE \/ ManifestsMissing(m) \/ FinishPromoted(m) \/ StartOffline(m)
           \/ ReplayFails(m) \/ NothingMeasured(m) \/ RouterRefuses(m)
           \/ Entered(m) \/ Withdrawn(m)
           \/ \E i \in StageIndices : PreflightFails(m, i)
           \/ \E outcome \in {"Promoted", "WavedOff", "Held"} : JudgeOffline(m, outcome)
  BY <1>3, PassEnds, VersionWriteNext
<1>4. CASE ReplaySession(m)
  <2>1. CASE Hold(m, "collision")
    BY <1>4, <2>1, VersionWriteNext DEF ReplaySession, Hold
  <2>2. CASE UNCHANGED <<pc, local, base, calls, after>>
    BY <1>4, <2>2 DEF ReplaySession, VersionOK, Decided, Generation, object, watch
  <2>3. QED
    BY <1>4, <2>1, <2>2 DEF ReplaySession
<1>5. ASSUME NEW i \in StageIndices, Enter(m, i)
      PROVE  \A x \in Managers : VersionOK(x)'
  <2>1. ASSUME NEW x \in Managers PROVE VersionOK(x)'
    <3>1. VersionOK(x) /\ UNCHANGED <<object, watch, base, after>>
      BY <1>5 DEF Enter
    <3>2. local'[x].gen = local[x].gen /\ local'[x].status = local[x].status
      BY <1>5 DEF Enter
    <3>3. pc'[x] = IF x = m THEN "enter" ELSE pc[x]
      BY <1>5 DEF Enter
    <3>4. QED
      BY <1>5, <3>1, <3>2, <3>3 DEF VersionOK, Decided, Generation, object, watch
  <2>2. QED
    BY <2>1
<1>6. ASSUME NEW i \in StageIndices, NEW a \in Answers, Advance(m, i, a)
      PROVE  \A x \in Managers : VersionOK(x)'
  <2>1. UNCHANGED <<object, watch>>
    BY <1>6, AdvanceEnds
  <2>2. CASE \E ix, st : WriteNext(m, ix, st, "requeue") \/ WriteNext(m, ix, st, "done")
    BY <2>1, <2>2, VersionWriteNext
  <2>3. CASE /\ pc' = [pc EXCEPT ![m] = "withdraw"]
             /\ \E e : local' = [local EXCEPT ![m].ix = i, ![m].stage = e]
             /\ UNCHANGED <<base, after>>
    <3>1. ASSUME NEW x \in Managers PROVE VersionOK(x)'
      <4>1. VersionOK(x)
        OBVIOUS
      <4>2. local'[x].gen = local[x].gen /\ local'[x].status = local[x].status
        BY <2>3
      <4>3. pc'[x] = IF x = m THEN "withdraw" ELSE pc[x]
        BY <2>3
      <4>4. QED
        BY <2>1, <2>3, <4>1, <4>2, <4>3 DEF VersionOK, Decided, Generation, object, watch
    <3>2. QED
      BY <3>1
  <2>4. QED
    BY <1>6, <2>2, <2>3, AdvanceEnds
<1>7. CASE CallRouter(m)
  BY <1>7 DEF CallRouter, VersionOK, Decided, Generation, object, watch
<1>8. CASE WriteStatus(m)
  BY <1>8, VersionStore DEF WriteStatus
<1>9. CASE WriteConflict(m)
  BY <1>9 DEF WriteConflict, Rest, VersionOK, Decided, Generation, object
<1>10. QED
  BY <1>1, <1>2, <1>3, <1>4, <1>5, <1>6, <1>7, <1>8, <1>9 DEF Proceed

LEMMA VersionStep == VersionInv /\ [Next]_vars => VersionInv'
<1> SUFFICES ASSUME VersionInv, [Next]_vars PROVE \A x \in Managers : VersionOK(x)'
  BY TypeStep DEF VersionInv
<1> USE DEF VersionInv, TypeInv, WorkerOK, RestOK
<1>1. CASE UNCHANGED vars
  BY <1>1 DEF vars, VersionOK, Decided, Generation
<1>2. ASSUME NEW m \in Managers, Proceed(m) PROVE \A x \in Managers : VersionOK(x)'
  BY <1>2, VersionProceed
<1>3. ASSUME NEW m \in Managers, CacheSync(m) PROVE \A x \in Managers : VersionOK(x)'
  BY <1>3 DEF CacheSync, VersionOK, Decided, Generation, object, worker
<1>4. ASSUME NEW m \in Managers, Resync(m) PROVE \A x \in Managers : VersionOK(x)'
  BY <1>4 DEF Resync, VersionOK, Decided, Generation, object, worker
<1>5. ASSUME NEW m \in Managers,
             RouterFails(m) \/ \E i \in StageIndices : SplitUnreadable(m, i)
      PROVE  \A x \in Managers : VersionOK(x)'
  BY <1>5, PassEnds, VersionWriteNext
<1>6. ASSUME NEW m \in Managers, WriteFails(m) PROVE \A x \in Managers : VersionOK(x)'
  BY <1>6, VersionStore DEF WriteFails
<1>7. ASSUME NEW m \in Managers, Crash(m) PROVE \A x \in Managers : VersionOK(x)'
  BY <1>7 DEF Crash, Rest, VersionOK, Decided, Generation, object
<1>8. ASSUME NEW s \in RolloutSpecs, EditSpec(s) PROVE \A x \in Managers : VersionOK(x)'
  BY <1>8 DEF EditSpec, VersionOK
<1>9. CASE EditMetadata
  BY <1>9 DEF EditMetadata, VersionOK
<1>10. CASE Tick
  BY <1>10 DEF Tick, VersionOK, Decided, Generation, object, watch, worker
<1>11. QED
  BY <1>1, <1>2, <1>3, <1>4, <1>5, <1>6, <1>7, <1>8, <1>9, <1>10 DEF Next

LEMMA VersionInit == Init => VersionInv
<1> SUFFICES ASSUME Init PROVE \A m \in Managers : VersionOK(m)
  BY TypeInit DEF VersionInv
<1>1. Generation = 1
  BY DEF Init, Generation
<1>2. QED
  BY <1>1 DEF Init, VersionOK

\* The one place a status is stored.
LEMMA StatusChanges ==
  ASSUME [Next]_vars, status' # status
  PROVE  \E m \in Managers : base[m]
<1> USE DEF object, worker, history
<1>1. ASSUME NEW m \in Managers, WriteStatus(m) \/ WriteFails(m) PROVE base[m]
  BY <1>1 DEF WriteStatus, WriteFails
<1>2. ASSUME NEW m \in Managers, Proceed(m), ~WriteStatus(m) PROVE status' = status
  BY <1>2 DEF Proceed, Skip, Get, ManifestsMissing, FinishPromoted, StartOffline,
     ReplaySession, ReplayFails, NothingMeasured, JudgeOffline, PreflightFails, Enter,
     Advance, Entered, Withdrawn, CallRouter, RouterRefuses, WriteConflict
<1>3. ASSUME NEW m \in Managers, CacheSync(m) \/ Resync(m) \/ RouterFails(m) \/ Crash(m)
                                  \/ \E i \in StageIndices : SplitUnreadable(m, i)
      PROVE  status' = status
  BY <1>3 DEF CacheSync, Resync, RouterFails, Crash, SplitUnreadable
<1>4. CASE (\E s \in RolloutSpecs : EditSpec(s)) \/ EditMetadata \/ Tick \/ UNCHANGED vars
  BY <1>4 DEF EditSpec, EditMetadata, Tick, vars
<1>5. QED
  BY <1>1, <1>2, <1>3, <1>4 DEF Next

\* Terminal rollouts are left alone: however many managers reconcile, with
\* whatever stale copies, retries and restarts, a recorded decision is replaced
\* only after the spec has been edited.
THEOREM DecisionStands == Spec => DecisionIsFinal
<1>1. Init => VersionInv
  BY VersionInit
<1>2. VersionInv /\ [Next]_vars => VersionInv'
  BY VersionStep
<1>3. VersionInv /\ [Next]_vars => [Decided /\ specs' = specs => status' = status]_vars
  BY StatusChanges DEF VersionInv, VersionOK
<1>4. QED
  BY <1>1, <1>2, <1>3, PTL DEF Spec, DecisionIsFinal

------------------------------------------------------------------------------
(* Promoted means every stage passed, where no two stages share a name.     *)

\* An entry shows the minimum window of a live or shadow stage.
Served(stage, e) ==
  stage.mode # "offline-replay" => e.finishedAt - e.startedAt >= stage.min

\* A status is sound with respect to the specs applied so far and the gates
\* that promoted a stage: it reports on a generation that exists, the stages it
\* records as promoted were promoted by a gate under that generation and after
\* their window, and if it reports the whole rollout as promoted then a gate
\* promoted all of them.
Backed(sp, st, gates) ==
  \A i \in DOMAIN sp[st.observed].stages :
    ~StageOpen(sp[st.observed], st, i) =>
      /\ <<st.observed, i>> \in gates
      /\ Served(sp[st.observed].stages[i], st.stages[sp[st.observed].stages[i].name])

Sound(sp, st, gates) ==
  /\ st.observed \in 0..Len(sp)
  /\ st.observed # 0 => Backed(sp, st, gates)
  /\ st.phase = "Promoted" =>
       /\ st.observed # 0
       /\ \A i \in DOMAIN sp[st.observed].stages : <<st.observed, i>> \in gates

\* Every copy is sound; a pass works on a status of its own generation; and a
\* stage is replayed or entered only once the ones before it are recorded as
\* promoted, and replayed only if it is an offline one.
CopySound(m) ==
  /\ Sound(specs, cache[m].status, passed)
  /\ Sound(specs, local[m].status, passed)
  /\ pc[m] # "idle" => local[m].status.observed = local[m].gen
  /\ pc[m] \in {"replay", "enter"} \/ (pc[m] = "write" /\ after[m] = "replay") =>
       \A j \in 1..(local[m].ix - 1) : ~StageOpen(MySpec(m), local[m].status, j)
  /\ pc[m] = "replay" \/ (pc[m] = "write" /\ after[m] = "replay") =>
       MySpec(m).stages[local[m].ix].mode = "offline-replay"

SoundInv == TypeInv /\ Sound(specs, status, passed) /\ \A m \in Managers : CopySound(m)

\* Soundness is not lost as gates promote more stages.
LEMMA SoundMore ==
  ASSUME NEW st, NEW g, NEW h, g \subseteq h, Sound(specs, st, g)
  PROVE  Sound(specs, st, h)
BY DEF Sound, Backed

LEMMA EmptySound ==
  ASSUME TypeInv, NEW g \in 0..Generation, NEW gates
  PROVE  Sound(specs, EmptyStatus(g), gates)
<1>1. ASSUME g # 0, NEW i \in DOMAIN specs[g].stages
      PROVE  StageOpen(specs[g], EmptyStatus(g), i)
  <2>1. specs[g] \in RolloutSpecs
    BY <1>1 DEF TypeInv, RestOK, Generation
  <2>2. specs[g].stages[i].name \in Names
    BY <2>1, StageType DEF Stage
  <2>3. QED
    BY <2>2 DEF StageOpen, EmptyStatus, NoStage
<1>2. QED
  BY <1>1 DEF Sound, Backed, EmptyStatus, Generation

\* A new phase for the rollout that is not a promotion.
LEMMA PhasedSound ==
  ASSUME TypeInv, NEW st \in Status, NEW gates, Sound(specs, st, gates), NEW p, p # "Promoted", NEW r
  PROVE  Sound(specs, Phased(st, st.observed, p, r), gates)
<1> DEFINE next == Phased(st, st.observed, p, r)
<1>1. next.phase = p /\ next.observed = st.observed /\ next.stages = st.stages
  BY PhasedFields
<1>2. \A spec, i : StageOpen(spec, next, i) <=> StageOpen(spec, st, i)
  BY <1>1, Zenon DEF StageOpen
<1> HIDE DEF next
<1>3. QED
  BY <1>1, <1>2 DEF Sound, Backed, next

\* A new entry for one stage, and a new phase for the rollout.
LEMMA RecordSound ==
  ASSUME TypeInv, UniqueNames, NEW st \in Status, NEW gates, Sound(specs, st, gates), st.observed # 0,
         NEW i \in DOMAIN specs[st.observed].stages, NEW e \in StageStatus,
         e.phase = "Promoted" => <<st.observed, i>> \in gates
                                 /\ Served(specs[st.observed].stages[i], e),
         NEW p, NEW r,
         p = "Promoted" => \A j \in DOMAIN specs[st.observed].stages : <<st.observed, j>> \in gates
  PROVE  Sound(specs, Phased(Record(st, specs[st.observed].stages[i].name, e), st.observed, p, r), gates)
<1> DEFINE spec == specs[st.observed]
           rec  == Record(st, spec.stages[i].name, e)
<1>1. spec \in RolloutSpecs
  BY DEF TypeInv, RestOK, Sound
<1>2. spec.stages[i].name \in Names
  BY <1>1, StageType DEF Stage
<1>3. rec \in Status /\ rec.observed = st.observed
      /\ rec.stages = [st.stages EXCEPT ![spec.stages[i].name] = e]
  BY <1>2, RecordType DEF Record, Status
<1>4. ASSUME NEW j \in DOMAIN spec.stages, ~StageOpen(spec, rec, j)
      PROVE  <<st.observed, j>> \in gates /\ Served(spec.stages[j], rec.stages[spec.stages[j].name])
  <2>1. spec.stages[j].name \in Names
    BY <1>1, StageType DEF Stage
  <2>2. CASE j = i
    <3>1. rec.stages[spec.stages[i].name] = e
      BY <1>2, <1>3 DEF Status
    <3>2. QED
      BY <1>4, <2>2, <3>1 DEF StageOpen
  <2>3. CASE j # i
    <3>1. spec.stages[j].name # spec.stages[i].name
      BY <1>1, <2>3 DEF UniqueNames, NamesApart
    <3>2. rec.stages[spec.stages[j].name] = st.stages[spec.stages[j].name]
      BY <1>3, <2>1, <3>1 DEF Status
    <3>3. QED
      BY <1>4, <3>2 DEF StageOpen, Sound, Backed
  <2>4. QED
    BY <2>2, <2>3
<1> HIDE DEF rec
<1>5. Phased(rec, st.observed, p, r).phase = p
      /\ Phased(rec, st.observed, p, r).observed = st.observed
      /\ Phased(rec, st.observed, p, r).stages = rec.stages
  BY <1>3, PhasedFields
<1>6. QED
  BY <1>4, <1>5 DEF Sound, Backed, StageOpen, rec

\* A pass that ends in the write of a sound status.
LEMMA SoundWriteNext ==
  ASSUME SoundInv, NEW m \in Managers, NEW ix \in Nat, NEW st \in Status,
         NEW then \in {"done", "requeue", "replay"},
         st.observed = local[m].gen, Sound(specs, st, passed'), passed \subseteq passed',
         then = "replay" => /\ \A j \in 1..(ix - 1) : ~StageOpen(MySpec(m), st, j)
                            /\ MySpec(m).stages[ix].mode = "offline-replay",
         WriteNext(m, ix, st, then), UNCHANGED <<object, watch>>
  PROVE  Sound(specs, status, passed)' /\ \A x \in Managers : CopySound(x)'
<1> USE DEF SoundInv, TypeInv, WorkerOK
<1>1. specs' = specs /\ status' = status
  BY DEF object
<1>2. Sound(specs, status, passed)'
  BY <1>1, SoundMore
<1>3. local'[m].gen = local[m].gen /\ local'[m].status = st /\ local'[m].ix = ix
      /\ pc'[m] = "write" /\ after'[m] = then
  BY DEF WriteNext
<1>4. ASSUME NEW x \in Managers, x # m
      PROVE  local'[x] = local[x] /\ pc'[x] = pc[x] /\ after'[x] = after[x]
  BY <1>4 DEF WriteNext
<1>5. ASSUME NEW x \in Managers PROVE CopySound(x)'
  <2>1. CopySound(x) /\ cache'[x] = cache[x]
    BY DEF watch
  <2>2. Sound(specs, cache[x].status, passed') /\ Sound(specs, local[x].status, passed')
    BY <2>1, SoundMore DEF CopySound
  <2>3. CASE x = m
    <3>1. MySpec(m)' = MySpec(m)
      BY <1>1, <1>3 DEF MySpec
    <3>2. /\ Sound(specs, local[m].status, passed)'
          /\ Sound(specs, cache[m].status, passed)'
      BY <1>1, <1>3, <2>1, <2>2, <2>3
    <3> HIDE DEF SoundInv, TypeInv, WorkerOK
    <3>9. QED
      BY <1>1, <1>3, <2>1, <2>3, <3>1, <3>2 DEF CopySound, StageOpen
  <2>4. CASE x # m
    <3>1. local'[x] = local[x] /\ pc'[x] = pc[x] /\ after'[x] = after[x]
      BY <1>4, <2>4
    <3> HIDE DEF SoundInv, TypeInv, WorkerOK
    <3>2. QED
      BY <1>1, <2>1, <2>2, <3>1 DEF CopySound, MySpec, StageOpen
  <2>5. QED
    BY <2>3, <2>4
<1>6. QED
  BY <1>2, <1>5

LEMMA SoundHold ==
  ASSUME SoundInv, NEW m \in Managers, pc[m] # "idle", NEW r \in Reasons, Hold(m, r),
         UNCHANGED <<object, watch, passed>>
  PROVE  Sound(specs, status, passed)' /\ \A x \in Managers : CopySound(x)'
<1> DEFINE st == Phased(local[m].status, local[m].gen, "Held", r)
<1>1. local[m].status \in Status /\ local[m].ix \in Nat /\ local[m].gen \in Nat
  BY CopyType DEF SoundInv
<1>2. Sound(specs, local[m].status, passed) /\ local[m].status.observed = local[m].gen
  BY DEF SoundInv, CopySound
<1>3. st \in Status /\ st.observed = local[m].gen
  <2>1. st \in Status
    BY <1>1, PhasedType DEF Phases
  <2>2. QED
    BY <1>1, <2>1, PhasedFields
<1>4. Sound(specs, st, passed')
  BY <1>1, <1>2, PhasedSound DEF SoundInv
<1> HIDE DEF st
<1>5. WriteNext(m, local[m].ix, st, "done")
  BY DEF Hold, st
<1>6. QED
  BY <1>1, <1>3, <1>4, <1>5, SoundWriteNext

\* A pass that is over: its copy is the empty one.  Any cache may have been
\* filled from the stored status.
LEMMA SoundRest ==
  ASSUME SoundInv, NEW m \in Managers, Rest(m), UNCHANGED <<specs, passed>>,
         Sound(specs, status, passed)',
         \A x \in Managers : cache'[x].status = cache[x].status \/ cache'[x].status = status
  PROVE  Sound(specs, status, passed)' /\ \A x \in Managers : CopySound(x)'
<1>1. Sound(specs, EmptyStatus(0), passed)
  <2>1. TypeInv /\ 0 \in 0..Generation
    BY DEF SoundInv, TypeInv, RestOK, Generation
  <2>2. QED
    BY <2>1, EmptySound
<1>2. ASSUME NEW x \in Managers PROVE CopySound(x)'
  <2>1. CopySound(x) /\ Sound(specs, cache'[x].status, passed)
    <3>1. CopySound(x) /\ Sound(specs, status, passed)
      BY DEF SoundInv
    <3>2. Sound(specs, cache[x].status, passed)
      BY <3>1 DEF CopySound
    <3>3. CASE cache'[x].status = cache[x].status
      BY <3>1, <3>2, <3>3
    <3>4. CASE cache'[x].status = status
      BY <3>1, <3>4
    <3>5. QED
      BY <3>3, <3>4
  <2>2. CASE x = m
    <3>1. pc'[m] = "idle" /\ local'[m].status = EmptyStatus(0)
      BY DEF Rest, NoCopy, SoundInv, TypeInv, WorkerOK
    <3>2. QED
      BY <1>1, <2>1, <2>2, <3>1 DEF CopySound
  <2>3. CASE x # m
    BY <2>1, <2>3 DEF Rest, CopySound, MySpec, SoundInv, TypeInv, WorkerOK
  <2>4. QED
    BY <2>2, <2>3
<1>3. QED
  BY <1>2

\* How a stage ends: with a promotion only if a gate promoted it, and with the
\* promotion of the rollout only if it was the last and the others had passed.
LEMMA EndedSound ==
  ASSUME SoundInv, UniqueNames, NEW m \in Managers, pc[m] # "idle",
         NEW i \in DOMAIN MySpec(m).stages, NEW e \in StageStatus, NEW outcome,
         outcome = "Promoted" => \A j \in 1..(i - 1) : ~StageOpen(MySpec(m), local[m].status, j),
         e.phase = outcome,
         NEW gates, passed \subseteq gates,
         outcome = "Promoted" => <<local[m].gen, i>> \in gates /\ Served(MySpec(m).stages[i], e)
  PROVE  /\ Sound(specs, Ended(m, i, e, outcome), gates)
         /\ Ended(m, i, e, outcome).observed = local[m].gen
<1> DEFINE g  == local[m].gen
           st == Record(local[m].status, MySpec(m).stages[i].name, e)
<1>1. local[m].status \in Status /\ g \in Nat \ {0} /\ i \in Nat
      /\ MySpec(m) \in RolloutSpecs
  BY CopyType, MyStageType DEF SoundInv
<1>2. local[m].status.observed = g /\ Sound(specs, local[m].status, gates)
  BY SoundMore DEF SoundInv, CopySound
<1>3. st \in Status
  BY <1>1, MyStageType, RecordType DEF SoundInv, Stage
<1>4. \A p, r : (p = "Promoted" => \A j \in DOMAIN MySpec(m).stages : <<g, j>> \in gates)
                 => Sound(specs, Phased(st, g, p, r), gates)
  BY <1>1, <1>2, RecordSound DEF SoundInv, MySpec
<1>5. \A p, r : Phased(st, g, p, r).observed = g
  BY <1>3, PhasedFields
<1>6. CASE outcome = "Promoted" /\ i = Len(MySpec(m).stages)
  <2>1. ASSUME NEW j \in DOMAIN MySpec(m).stages PROVE <<g, j>> \in gates
    <3>1. MySpec(m).stages \in Seq(Stage)
      BY <1>1, RolloutAssumption DEF RolloutSpec
    <3>2. j \in 1..(i - 1) \/ j = i
      BY <1>6, <3>1
    <3>3. CASE j \in 1..(i - 1)
      BY <1>1, <1>2, <1>6, <3>3 DEF Sound, Backed, MySpec
    <3>4. QED
      BY <1>6, <3>2, <3>3
  <2>2. Ended(m, i, e, outcome) = Phased(st, g, "Promoted", "passed")
    BY <1>6 DEF Ended
  <2>3. QED
    BY <1>4, <1>5, <2>1, <2>2
<1>7. CASE ~(outcome = "Promoted" /\ i = Len(MySpec(m).stages))
  <2>1. \E p \in {"Running", "WavedOff", "Held"} : \E r : Ended(m, i, e, outcome) = Phased(st, g, p, r)
    BY <1>7 DEF Ended
  <2>2. QED
    BY <1>4, <1>5, <2>1
<1>8. QED
  BY <1>6, <1>7

\* The passes that end in a write other than a hold or an Advance.
LEMMA SoundPassEnds ==
  ASSUME SoundInv, UniqueNames, NEW m \in Managers,
         \/ FinishPromoted(m) \/ StartOffline(m) \/ Entered(m) \/ Withdrawn(m)
         \/ \E outcome \in {"Promoted", "WavedOff", "Held"} : JudgeOffline(m, outcome)
  PROVE  Sound(specs, status, passed)' /\ \A x \in Managers : CopySound(x)'
<1> DEFINE st0 == local[m].status
           g   == local[m].gen
<1>1. CopySound(m) /\ CopyOK(m) /\ TypeInv
  BY DEF SoundInv, TypeInv, Copies
<1>2. st0 \in Status /\ g \in Nat \ {0} /\ local[m].ix \in Nat /\ local[m].stage \in StageStatus
  BY <1>1, CopyType
<1>3. pc[m] # "idle"
  BY DEF FinishPromoted, StartOffline, Entered, Withdrawn, JudgeOffline
<1>4. st0.observed = g /\ Sound(specs, st0, passed)
  BY <1>1, <1>3 DEF CopySound
<1>5. clock \in Nat
  BY <1>1 DEF TypeInv, RestOK
<1>6. CASE FinishPromoted(m)
  <2> DEFINE st == Phased(st0, g, "Promoted", "passed")
  <2>1. st \in Status /\ st.phase = "Promoted" /\ st.observed = g /\ st.stages = st0.stages
    <3>1. st \in Status
      BY <1>2, PhasedType DEF Phases, Reasons
    <3>2. QED
      BY <1>2, <3>1, PhasedFields
  <2>2. UNCHANGED <<object, watch, passed>> /\ WriteNext(m, 0, st, "done")
    BY <1>6 DEF FinishPromoted, history
  <2>3. \A i \in DOMAIN specs[g].stages : <<g, i>> \in passed
    BY <1>2, <1>4, <1>6 DEF FinishPromoted, EveryStagePassed, Sound, Backed, MySpec
  <2> HIDE DEF st
  <2>6. Backed(specs, st0, passed)
    BY <1>2, <1>4 DEF Sound
  <2>7. Backed(specs, st, passed)
    BY <1>4, <2>1, <2>6 DEF Backed, StageOpen
  <2>4. Sound(specs, st, passed)
    BY <1>2, <1>4, <2>1, <2>3, <2>7 DEF Sound
  <2>5. QED
    BY <2>1, <2>2, <2>4, SoundWriteNext
<1>7. CASE StartOffline(m)
  <2> DEFINE st == Phased(st0, g, "Running", "running")
  <2>1. PICK i \in DOMAIN MySpec(m).stages :
          /\ IsNextStage(MySpec(m), st0, i) /\ WriteNext(m, i, st, "replay")
          /\ MySpec(m).stages[i].mode = "offline-replay"
    BY <1>7 DEF StartOffline
  <2>2. st \in Status /\ st.observed = g /\ st.stages = st0.stages /\ i \in Nat
    <3>1. st \in Status
      BY <1>2, PhasedType DEF Phases, Reasons
    <3>2. QED
      BY <1>1, <1>2, <3>1, PhasedFields, MyStageType
  <2>3. UNCHANGED <<object, watch, passed>>
    BY <1>7 DEF StartOffline, history
  <2>4. Sound(specs, st, passed)
    BY <1>1, <1>2, <1>4, PhasedSound
  <2>5. \A j \in 1..(i - 1) : ~StageOpen(MySpec(m), st, j)
    BY <2>1, <2>2 DEF IsNextStage, StageOpen
  <2> HIDE DEF st
  <2>6. QED
    BY <2>1, <2>2, <2>3, <2>4, <2>5, SoundWriteNext
<1>8. CASE Entered(m)
  <2> DEFINE e  == [NoStage EXCEPT !.phase = "Running", !.startedAt = clock]
             n  == MyStage(m).name
             st == Phased(Record(st0, n, e), g, "Running", "running")
  <2>1. e \in StageStatus /\ e.phase = "Running"
    <3>1. "Running" \in Phases
      BY DEF Phases
    <3>2. e \in StageStatus
      BY <1>5, <3>1, NoStageType, BegunType
    <3>3. QED
      BY <3>2 DEF NoStage
  <2>2. local[m].ix \in DOMAIN MySpec(m).stages
    BY <1>1, <1>8 DEF Entered, CopyOK
  <2>3. n \in Names
    BY <1>1, <2>2, MyStageType DEF MyStage, Stage
  <2>4. UNCHANGED <<object, watch, passed>> /\ WriteNext(m, local[m].ix, st, "requeue")
    BY <1>8 DEF Entered, history
  <2> HIDE DEF e
  <2>5. Record(st0, n, e) \in Status
    BY <1>2, <2>1, <2>3, RecordType
  <2>6. st \in Status /\ st.observed = g
    <3>1. st \in Status
      BY <1>2, <2>5, PhasedType DEF Phases, Reasons
    <3>2. QED
      BY <2>5, <3>1, PhasedFields
  <2>7. Sound(specs, st, passed)
    BY <1>1, <1>2, <1>4, <2>1, <2>2, RecordSound DEF MyStage, MySpec
  <2> HIDE DEF st
  <2>8. QED
    BY <1>2, <2>4, <2>6, <2>7, SoundWriteNext
<1>9. CASE Withdrawn(m)
  <2> DEFINE e  == [local[m].stage EXCEPT !.phase = "WavedOff", !.rolledBack = TRUE,
                                          !.finishedAt = clock]
             st == Ended(m, local[m].ix, e, "WavedOff")
  <2>1. e \in StageStatus /\ e.phase = "WavedOff"
    <3>1. "WavedOff" \in Phases
      BY DEF Phases
    <3>2. e \in StageStatus
      BY <1>2, <1>5, <3>1, FinishedType
    <3>3. e.phase = "WavedOff"
      BY <1>2 DEF StageStatus
    <3>4. QED
      BY <3>2, <3>3
  <2>2. local[m].ix \in DOMAIN MySpec(m).stages
    BY <1>1, <1>9 DEF Withdrawn, CopyOK
  <2>3. UNCHANGED <<object, watch, passed>> /\ WriteNext(m, local[m].ix, st, "done")
    BY <1>9 DEF Withdrawn, AfterEnd
  <2> HIDE DEF e
  <2>4. st \in Status /\ st.observed = g /\ Sound(specs, st, passed)
    BY <1>1, <1>3, <2>1, <2>2, EndedType, EndedSound
  <2> HIDE DEF st
  <2>5. QED
    BY <1>2, <2>3, <2>4, SoundWriteNext
<1>10. ASSUME NEW outcome \in {"Promoted", "WavedOff", "Held"}, JudgeOffline(m, outcome)
       PROVE  Sound(specs, status, passed)' /\ \A x \in Managers : CopySound(x)'
  <2> DEFINE i    == local[m].ix
             e    == [NoStage EXCEPT !.phase = outcome, !.startedAt = clock,
                                     !.finishedAt = clock]
             st   == Ended(m, i, e, outcome)
             then == AfterEnd(m, i, outcome)
  <2>1. e \in StageStatus /\ e.phase = outcome
    <3>1. outcome \in Phases
      BY <1>10 DEF Phases
    <3>2. e \in StageStatus
      BY <1>5, <3>1, NoStageType, FinishedType
    <3>3. QED
      BY <3>2 DEF NoStage
  <2>2. i \in DOMAIN MySpec(m).stages
    BY <1>1, <1>10 DEF JudgeOffline, CopyOK
  <2>3. UNCHANGED <<object, watch>> /\ WriteNext(m, i, st, then)
    BY <1>10 DEF JudgeOffline
  <2>4. passed \subseteq passed' /\ (outcome = "Promoted" => <<g, i>> \in passed')
    BY <1>10 DEF JudgeOffline
  <2>9. Served(MySpec(m).stages[i], e)
    BY <1>1, <1>10 DEF JudgeOffline, CopySound, Served
  <2>5. \A j \in 1..(i - 1) : ~StageOpen(MySpec(m), st0, j)
    BY <1>1, <1>10 DEF JudgeOffline, CopySound
  <2>6. then \in {"done", "requeue"}
    BY DEF AfterEnd
  <2> HIDE DEF e
  <2>7. st \in Status /\ st.observed = g /\ Sound(specs, st, passed')
    BY <1>1, <1>3, <2>1, <2>2, <2>4, <2>5, <2>9, EndedType, EndedSound
  <2> HIDE DEF st, then
  <2>8. QED
    BY <1>2, <2>3, <2>4, <2>6, <2>7, SoundWriteNext
<1>11. QED
  BY <1>6, <1>7, <1>8, <1>9, <1>10

\* Advance promotes no stage that is younger than its window.
LEMMA AdvanceWaits ==
  ASSUME NEW spec, NEW stage, NEW elapsed, NEW a,
         AdvanceStep(spec, stage, elapsed, a).outcome = "promote"
  PROVE  elapsed >= stage.min
BY DEF AdvanceStep, Step, Fires

LEMMA SoundAdvance ==
  ASSUME SoundInv, UniqueNames, NEW m \in Managers, NEW i \in StageIndices, NEW a \in Answers,
         Advance(m, i, a)
  PROVE  Sound(specs, status, passed)' /\ \A x \in Managers : CopySound(x)'
<1> DEFINE stage == MySpec(m).stages[i]
           st0   == local[m].status
           g     == local[m].gen
           old   == st0.stages[stage.name]
           entry == [old EXCEPT !.weight = route[stage.route].weight]
           step  == AdvanceStep(MySpec(m), stage, clock - old.startedAt, a)
           done  == [entry EXCEPT !.phase = "Promoted", !.finishedAt = clock]
           kept  == [entry EXCEPT !.trigger = step.trigger]
<1>1. /\ i \in DOMAIN MySpec(m).stages /\ pc[m] = "dispatch"
      /\ IsNextStage(MySpec(m), st0, i)
      /\ UNCHANGED <<object, watch, outputs, route, clock, faults>>
  BY DEF Advance, LiveNext
<1>2. CopySound(m) /\ TypeInv
  BY DEF SoundInv
<1>3. stage \in Stage /\ i \in Nat /\ stage.name \in Names /\ stage.route \in Routes
  BY <1>1, <1>2, MyStageType DEF Stage
<1>4. old \in StageStatus /\ st0 \in Status /\ g \in Nat \ {0}
  BY <1>2, <1>3, CopyType, EntryType
<1>5. route[stage.route].weight \in 0..100 /\ clock \in Nat
  BY <1>2, <1>3 DEF TypeInv, RestOK
<1>6. step.outcome \in {"error", "continue", "promote", "roll-back"}
  BY AdvanceStepType
<1>7. entry \in StageStatus /\ entry.phase = old.phase
  <2>1. entry \in StageStatus
    BY <1>4, <1>5, WeighedType
  <2>2. entry.phase = old.phase
    BY <1>4 DEF StageStatus
  <2>3. QED
    BY <2>1, <2>2
<1>8. st0.observed = g /\ Sound(specs, st0, passed)
  BY <1>1, <1>2 DEF CopySound
<1>9. CASE step.outcome = "error"
  <2>1. Hold(m, "measurement") /\ UNCHANGED history
    BY <1>9 DEF Advance
  <2>2. QED
    BY <1>1, <2>1, SoundHold DEF Reasons, history
<1>10. CASE step.outcome = "continue"
  <2> DEFINE st   == Phased(Record(st0, stage.name, entry), g, "Running", "running")
             then == IF step.requeue THEN "requeue" ELSE "done"
  <2>1. WriteNext(m, i, st, then) /\ UNCHANGED passed
    BY <1>10 DEF Advance, history
  <2>2. entry.phase # "Promoted"
    BY <1>1, <1>7 DEF IsNextStage, StageOpen
  <2>3. Record(st0, stage.name, entry) \in Status
    BY <1>3, <1>4, <1>7, RecordType
  <2> HIDE DEF entry
  <2>4. st \in Status /\ st.observed = g
    <3>1. st \in Status
      BY <1>4, <2>3, PhasedType DEF Phases, Reasons
    <3>2. QED
      BY <2>3, <3>1, PhasedFields
  <2>5. Sound(specs, st, passed)
    BY <1>1, <1>2, <1>4, <1>7, <1>8, <2>2, RecordSound DEF MySpec
  <2>6. then \in {"done", "requeue"}
    OBVIOUS
  <2> HIDE DEF st, then
  <2>7. QED
    BY <1>1, <1>3, <2>1, <2>4, <2>5, <2>6, SoundWriteNext
<1>11. CASE step.outcome = "promote"
  <2> DEFINE st   == Ended(m, i, done, "Promoted")
             then == AfterEnd(m, i, "Promoted")
  <2>1. WriteNext(m, i, st, then) /\ passed' = passed \cup {<<g, i>>}
    BY <1>11 DEF Advance
  <2>2. done \in StageStatus /\ done.phase = "Promoted"
    <3>1. "Promoted" \in Phases
      BY DEF Phases
    <3>2. done \in StageStatus
      BY <1>5, <1>7, <3>1, FinishedType
    <3>3. done.phase = "Promoted"
      BY <1>7 DEF StageStatus
    <3>4. QED
      BY <3>2, <3>3
  <2>3. \A j \in 1..(i - 1) : ~StageOpen(MySpec(m), st0, j)
    BY <1>1 DEF IsNextStage
  <2>4. then \in {"done", "requeue"}
    BY DEF AfterEnd
  <2>8. Served(stage, done)
    <3>1. clock - old.startedAt >= stage.min
      BY <1>11, AdvanceWaits
    <3>2. done.finishedAt = clock /\ done.startedAt = old.startedAt
      BY <1>4, <1>7 DEF StageStatus
    <3>3. QED
      BY <3>1, <3>2 DEF Served
  <2> HIDE DEF done
  <2>5. passed \subseteq passed' /\ <<g, i>> \in passed'
    BY <2>1
  <2>6. st \in Status /\ st.observed = g /\ Sound(specs, st, passed')
    <3>1. st \in Status
      BY <1>1, <1>2, <2>2, EndedType
    <3>2. i \in DOMAIN MySpec(m).stages /\ pc[m] # "idle"
      BY <1>1
    <3> HIDE DEF st
    <3>3. st.observed = g /\ Sound(specs, st, passed')
      BY <2>2, <2>3, <2>5, <2>8, <3>2, EndedSound DEF st
    <3>4. QED
      BY <3>1, <3>3
  <2> HIDE DEF st, then
  <2>7. QED
    BY <1>1, <1>3, <2>1, <2>4, <2>5, <2>6, SoundWriteNext
<1>12. CASE step.outcome = "roll-back"
  <2>1. /\ pc' = [pc EXCEPT ![m] = "withdraw"]
        /\ local' = [local EXCEPT ![m].ix = i, ![m].stage = kept]
        /\ UNCHANGED <<after, passed>>
    BY <1>12 DEF Advance, history
  <2>2. UNCHANGED <<specs, status, cache>>
    BY <1>1 DEF object, watch
  <2> HIDE DEF kept
  <2>3. ASSUME NEW x \in Managers PROVE CopySound(x)'
    <3>1. CopySound(x)
      BY DEF SoundInv
    <3>2. local'[x].gen = local[x].gen /\ local'[x].status = local[x].status
          /\ (x # m => local'[x].ix = local[x].ix)
      BY <2>1 DEF SoundInv, TypeInv, WorkerOK
    <3>3. pc'[x] = IF x = m THEN "withdraw" ELSE pc[x]
      BY <2>1 DEF SoundInv, TypeInv, WorkerOK
    <3>4. CASE x = m
      BY <1>1, <2>1, <2>2, <3>1, <3>2, <3>3, <3>4 DEF CopySound
    <3>5. CASE x # m
      BY <2>1, <2>2, <3>1, <3>2, <3>3, <3>5 DEF CopySound, MySpec
    <3>6. QED
      BY <3>4, <3>5
  <2>4. QED
    BY <2>1, <2>2, <2>3 DEF SoundInv
<1>13. QED
  BY <1>6, <1>9, <1>10, <1>11, <1>12

LEMMA SoundProceed ==
  ASSUME SoundInv, UniqueNames, NEW m \in Managers, Proceed(m)
  PROVE  Sound(specs, status, passed)' /\ \A x \in Managers : CopySound(x)'
<1> DEFINE Goal == Sound(specs, status, passed)' /\ \A x \in Managers : CopySound(x)'
<1>1. CASE Skip(m)
  BY <1>1 DEF Skip, SoundInv, CopySound, MySpec, object, worker, history
<1>2. CASE Get(m)
  <2>1. UNCHANGED <<specs, status, cache, after, passed>>
    BY <1>2 DEF Get, object, history
  <2>2. Sound(specs, StatusFor(cache[m]), passed) /\ StatusFor(cache[m]).observed = cache[m].gen
    <3>1. cache[m].gen \in 0..Generation
      BY CopyType DEF SoundInv, TypeInv, Copies, RestOK, Generation
    <3>2. Sound(specs, EmptyStatus(cache[m].gen), passed)
      BY <3>1, EmptySound DEF SoundInv
    <3>3. EmptyStatus(cache[m].gen).observed = cache[m].gen
      BY DEF EmptyStatus
    <3>4. QED
      BY <3>2, <3>3 DEF StatusFor, SoundInv, CopySound
  <2>3. ASSUME NEW x \in Managers PROVE CopySound(x)'
    <3>1. CopySound(x)
      BY DEF SoundInv
    <3>2. CASE x = m
      <4>1. pc'[m] = "dispatch" /\ local'[m].gen = cache[m].gen
            /\ local'[m].status = StatusFor(cache[m])
        BY <1>2 DEF Get, SoundInv, TypeInv, WorkerOK
      <4>2. QED
        BY <2>1, <2>2, <3>1, <3>2, <4>1 DEF CopySound
    <3>3. CASE x # m
      BY <1>2, <2>1, <3>1, <3>3 DEF Get, CopySound, MySpec
    <3>4. QED
      BY <3>2, <3>3
  <2>4. QED
    BY <2>1, <2>3 DEF SoundInv
<1>3. CASE ManifestsMissing(m) \/ ReplayFails(m) \/ NothingMeasured(m) \/ RouterRefuses(m)
  <2>1. /\ pc[m] # "idle" /\ UNCHANGED <<object, watch, passed>>
        /\ \E r \in Reasons : Hold(m, r)
    BY <1>3 DEF ManifestsMissing, ReplayFails, NothingMeasured, RouterRefuses, Reasons, history
  <2>2. QED
    BY <2>1, SoundHold
<1>4. ASSUME NEW i \in StageIndices, PreflightFails(m, i) PROVE Goal
  <2>1. pc[m] # "idle" /\ UNCHANGED <<object, watch, passed>> /\ Hold(m, "preflight")
    BY <1>4 DEF PreflightFails, LiveNext, history
  <2>2. QED
    BY <2>1, SoundHold DEF Reasons
<1>5. CASE \/ FinishPromoted(m) \/ StartOffline(m) \/ Entered(m) \/ Withdrawn(m)
           \/ \E outcome \in {"Promoted", "WavedOff", "Held"} : JudgeOffline(m, outcome)
  BY <1>5, SoundPassEnds
<1>6. ASSUME NEW i \in StageIndices, NEW a \in Answers, Advance(m, i, a) PROVE Goal
  BY <1>6, SoundAdvance
<1>7. CASE ReplaySession(m)
  <2>1. CASE Hold(m, "collision")
    <3>1. pc[m] # "idle" /\ UNCHANGED <<object, watch, passed>>
      BY <1>7 DEF ReplaySession, history
    <3>2. QED
      BY <2>1, <3>1, SoundHold DEF Reasons
  <2>2. CASE UNCHANGED <<pc, local, base, calls, after>>
    BY <1>7, <2>2 DEF ReplaySession, SoundInv, CopySound, MySpec, object, watch, history
  <2>3. QED
    BY <1>7, <2>1, <2>2 DEF ReplaySession
<1>8. ASSUME NEW i \in StageIndices, Enter(m, i) PROVE Goal
  <2>1. UNCHANGED <<specs, status, cache, after, passed>> /\ pc[m] = "dispatch"
    BY <1>8 DEF Enter, LiveNext, object, watch, history
  <2>2. ASSUME NEW x \in Managers PROVE CopySound(x)'
    <3>1. CopySound(x)
      BY DEF SoundInv
    <3>2. local'[x].gen = local[x].gen /\ local'[x].status = local[x].status
          /\ (x # m => local'[x].ix = local[x].ix)
      BY <1>8 DEF Enter, SoundInv, TypeInv, WorkerOK
    <3>3. pc'[x] = IF x = m THEN "enter" ELSE pc[x]
      BY <1>8 DEF Enter, SoundInv, TypeInv, WorkerOK
    <3>4. CASE x = m
      <4>1. local'[m].ix = i /\ IsNextStage(MySpec(m), local[m].status, i)
        BY <1>8 DEF Enter, LiveNext, SoundInv, TypeInv, WorkerOK
      <4>2. MySpec(m)' = MySpec(m)
        BY <2>1, <3>2, <3>4 DEF MySpec
      <4>3. \A j \in 1..(local'[m].ix - 1) : ~StageOpen(MySpec(m), local[m].status, j)
        BY <4>1 DEF IsNextStage
      <4> HIDE DEF SoundInv
      <4>4. QED
        BY <2>1, <3>1, <3>2, <3>3, <3>4, <4>2, <4>3 DEF CopySound, StageOpen
    <3>5. CASE x # m
      BY <2>1, <3>1, <3>2, <3>3, <3>5 DEF CopySound, MySpec
    <3>6. QED
      BY <3>4, <3>5
  <2>3. QED
    BY <2>1, <2>2 DEF SoundInv
<1>9. CASE CallRouter(m)
  BY <1>9 DEF CallRouter, SoundInv, CopySound, MySpec, object, watch, history
<1>10. CASE WriteStatus(m)
  <2>1. status' = local[m].status \/ status' = status
    BY <1>10 DEF WriteStatus, Store, StoreNothing
  <2>2. UNCHANGED <<specs, cache, passed>>
    BY <1>10 DEF WriteStatus, history
  <2>3. Sound(specs, status, passed)'
    BY <2>1, <2>2 DEF SoundInv, CopySound
  <2>4. CASE after[m] = "replay"
    BY <1>10, <2>2, <2>3, <2>4
       DEF WriteStatus, SoundInv, CopySound, TypeInv, WorkerOK, MySpec
  <2>5. CASE after[m] # "replay"
    BY <1>10, <2>2, <2>3, <2>5, SoundRest DEF WriteStatus
  <2>6. QED
    BY <2>4, <2>5
<1>11. CASE WriteConflict(m)
  BY <1>11, SoundRest DEF WriteConflict, SoundInv, object, history
<1>12. QED
  BY <1>1, <1>2, <1>3, <1>4, <1>5, <1>6, <1>7, <1>8, <1>9, <1>10, <1>11 DEF Proceed

LEMMA SoundStep == UniqueNames /\ SoundInv /\ [Next]_vars => SoundInv'
<1> SUFFICES ASSUME UniqueNames, SoundInv, [Next]_vars
             PROVE  Sound(specs, status, passed)' /\ \A x \in Managers : CopySound(x)'
  BY TypeStep DEF SoundInv
<1> DEFINE Goal == Sound(specs, status, passed)' /\ \A x \in Managers : CopySound(x)'
<1>1. CASE UNCHANGED vars
  BY <1>1 DEF vars, SoundInv, CopySound, MySpec
<1>2. ASSUME NEW m \in Managers, Proceed(m) PROVE Goal
  BY <1>2, SoundProceed
<1>3. ASSUME NEW m \in Managers, CacheSync(m) PROVE Goal
  BY <1>3 DEF CacheSync, SoundInv, TypeInv, RestOK, CopySound, MySpec, object, worker, history
<1>4. ASSUME NEW m \in Managers, Resync(m) PROVE Goal
  BY <1>4 DEF Resync, SoundInv, CopySound, MySpec, object, worker, history
<1>5. ASSUME NEW m \in Managers,
             RouterFails(m) \/ \E i \in StageIndices : SplitUnreadable(m, i)
      PROVE  Goal
  <2>1. pc[m] # "idle" /\ UNCHANGED <<object, watch, passed>> /\ Hold(m, "traffic")
    BY <1>5 DEF RouterFails, SplitUnreadable, LiveNext, history
  <2>2. QED
    BY <2>1, SoundHold DEF Reasons
<1>6. ASSUME NEW m \in Managers, WriteFails(m) PROVE Goal
  <2>1. status' = local[m].status \/ status' = status
    BY <1>6 DEF WriteFails, Store
  <2>2. UNCHANGED <<specs, cache, passed>> /\ Rest(m)
    BY <1>6 DEF WriteFails, history
  <2>3. Sound(specs, status, passed)'
    BY <2>1, <2>2 DEF SoundInv, CopySound
  <2>4. QED
    BY <2>2, <2>3, SoundRest
<1>7. ASSUME NEW m \in Managers, Crash(m) PROVE Goal
  <2>1. UNCHANGED <<specs, status, passed>> /\ Rest(m)
    BY <1>7 DEF Crash, object, history
  <2>2. cache' = [cache EXCEPT ![m] = [gen |-> Generation, status |-> status]]
    BY <1>7 DEF Crash
  <2>3. Sound(specs, status, passed)'
    BY <2>1 DEF SoundInv
  <2>4. \A x \in Managers : cache'[x].status = cache[x].status \/ cache'[x].status = status
    BY <2>2 DEF SoundInv, TypeInv, RestOK
  <2>5. QED
    BY <2>1, <2>3, <2>4, SoundRest
<1>8. ASSUME NEW s \in RolloutSpecs, EditSpec(s) PROVE Goal
  <2>1. specs \in Seq(RolloutSpecs) /\ specs' = Append(specs, s)
    BY <1>8 DEF EditSpec, SoundInv, TypeInv, RestOK
  <2>2. Len(specs') = Len(specs) + 1 /\ \A g \in 1..Len(specs) : specs'[g] = specs[g]
    BY <2>1
  <2>3. ASSUME NEW st, Sound(specs, st, passed) PROVE Sound(specs', st, passed)
    BY <2>1, <2>2, <2>3 DEF Sound, Backed
  <2>4. UNCHANGED <<status, cache, local, pc, after, passed>>
    BY <1>8 DEF EditSpec, history
  <2>5. ASSUME NEW x \in Managers PROVE CopySound(x)'
    <3>1. CopySound(x) /\ local[x].gen \in 1..Len(specs)
      BY CopyType, <2>1 DEF SoundInv, TypeInv, Copies, CopyOK, Generation
    <3>2. specs'[local[x].gen] = specs[local[x].gen]
      BY <2>2, <3>1
    <3>3. QED
      BY <2>3, <2>4, <3>1, <3>2 DEF CopySound, MySpec
  <2>6. QED
    BY <2>3, <2>4, <2>5 DEF SoundInv
<1>9. CASE EditMetadata
  BY <1>9 DEF EditMetadata, SoundInv, CopySound, MySpec, object, history
<1>10. CASE Tick
  BY <1>10 DEF Tick, SoundInv, CopySound, MySpec, object, watch, worker, history
<1>11. QED
  BY <1>1, <1>2, <1>3, <1>4, <1>5, <1>6, <1>7, <1>8, <1>9, <1>10 DEF Next

LEMMA SoundInit == Init => SoundInv
<1> SUFFICES ASSUME Init PROVE SoundInv
  OBVIOUS
<1>1. TypeInv /\ 0 \in 0..Generation
  BY TypeInit DEF Init, Generation
<1>2. Sound(specs, EmptyStatus(0), passed)
  BY <1>1, EmptySound
<1>3. ASSUME NEW m \in Managers PROVE CopySound(m)
  <2>1. cache[m].status = EmptyStatus(0) /\ local[m].status = EmptyStatus(0) /\ pc[m] = "idle"
    BY DEF Init, NoCopy
  <2>2. QED
    BY <1>2, <2>1 DEF CopySound
<1>4. QED
  BY <1>1, <1>2, <1>3 DEF SoundInv, Init

\* Where no two stages of a spec share a name, a live or shadow stage recorded as
\* promoted had been observed for its whole window: stale copies, lost replies,
\* restarts and edits of the spec never shorten it, nor does another manager.
THEOREM NoWindowIsCutShort ==
  ASSUME UniqueNames PROVE Spec => []WindowIsServed
<1>1. Init => SoundInv
  BY SoundInit
<1>2. SoundInv /\ [Next]_vars => SoundInv'
  BY SoundStep
<1>3. SoundInv => WindowIsServed
  <2>1. SoundInv => Generation # 0
    BY DEF SoundInv, TypeInv, RestOK, Generation
  <2>2. QED
    BY <2>1 DEF SoundInv, Sound, Backed, Served, StageOpen, WindowIsServed
<1>4. QED
  BY <1>1, <1>2, <1>3, PTL DEF Spec

\* Where no two stages of a spec share a name, the phase Promoted means what its
\* comment says: a gate promoted every stage of the spec the status reports on,
\* for any number of managers reconciling the rollout at once and through any
\* stale copies, conflicts, restarts and spec edits.
THEOREM PromotionIsEarned ==
  ASSUME UniqueNames PROVE Spec => []PromotedMeansEveryStagePassed
<1>1. Init => SoundInv
  BY SoundInit
<1>2. SoundInv /\ [Next]_vars => SoundInv'
  BY SoundStep
<1>3. SoundInv => PromotedMeansEveryStagePassed
  BY DEF SoundInv, Sound, PromotedMeansEveryStagePassed
<1>4. QED
  BY <1>1, <1>2, <1>3, PTL DEF Spec

==============================================================================
