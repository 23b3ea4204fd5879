-------------------------- MODULE RolloutRouteProofs --------------------------
(* With one manager, the order in which Enter and Withdraw call the router  *)
(* keeps a route from ever serving from the candidate and mirroring to it,  *)
(* and raises its exposure in the order of the stages only.                 *)
EXTENDS RolloutProofs

Exclusive(r) == r.weight = 0 \/ r.mirror = 0

RouteType == [weight: 0..100, mirror: 0..100]

\* The calls a manager has still to make are safe to make from here on: the
\* last one finds the route ready for it, and the one before it makes it so
\* from any state of the route.
SafeCalls(m) ==
  \/ calls[m] = <<>>
  \/ \E c \in RouterCalls :
       calls[m] = <<c>> /\ Exclusive(Routed(route[MyStage(m).route], c))
  \/ \E c, d \in RouterCalls :
       /\ calls[m] = <<c, d>>
       /\ \A r \in RouteType : /\ Exclusive(r) => Exclusive(Routed(r, c))
                               /\ Exclusive(Routed(Routed(r, c), d))

\* A call that gives traffic is one a stage's mode asks for: a weight for a live
\* stage, its own, and a mirror for a shadow stage.
Due(stage, c) ==
  c.value # 0 =>
    IF c.call = "SetSplit" THEN stage.mode # "shadow" /\ c.value = stage.weight
                           ELSE stage.mode = "shadow"

\* A withdrawal only takes traffic away, and a stage that is entered, never an
\* offline one, asks for what its mode does.
OwnCalls(m) ==
  /\ pc[m] = "enter" => MyStage(m).mode # "offline-replay"
  /\ \A k \in DOMAIN calls[m] :
       /\ pc[m] = "withdraw" => calls[m][k].value = 0
       /\ Due(MyStage(m), calls[m][k])

CallsOK(m) == pc[m] \in {"enter", "withdraw"} => SafeCalls(m) /\ OwnCalls(m)

RouteInv == TypeInv /\ NeverServedAndMirrored /\ \A m \in Managers : CallsOK(m)

\* Of two calls, the first takes away what the second could clash with.
LEMMA FirstClears ==
  ASSUME NEW w \in 0..100, NEW r \in RouteType
  PROVE  /\ Exclusive(Routed(r, SetSplit(0))) /\ Exclusive(Routed(r, Mirror(0)))
         /\ Exclusive(Routed(Routed(r, SetSplit(0)), Mirror(w)))
         /\ Exclusive(Routed(Routed(r, Mirror(0)), SetSplit(w)))
BY DEF Exclusive, Routed, SetSplit, Mirror, RouteType

LEMMA EnterCallsOK ==
  ASSUME NEW s \in Stage
  PROVE  \A cs \in {EnterCalls(s), WithdrawCalls(s)} :
           \E c, d \in RouterCalls :
             /\ cs = <<c, d>>
             /\ \A r \in RouteType : /\ Exclusive(r) => Exclusive(Routed(r, c))
                                     /\ Exclusive(Routed(Routed(r, c), d))
<1> DEFINE p == IF s.mirror = 0 THEN 100 ELSE s.mirror
<1>1. s.weight \in 0..100 /\ p \in 0..100 /\ 0 \in 0..100
  BY DEF Stage
<1>2. /\ SetSplit(0) \in RouterCalls /\ SetSplit(s.weight) \in RouterCalls
      /\ Mirror(0) \in RouterCalls /\ Mirror(p) \in RouterCalls
  BY <1>1, RouterCallType
<1>3. EnterCalls(s) = IF s.mode = "shadow" THEN <<SetSplit(0), Mirror(p)>>
                                          ELSE <<Mirror(0), SetSplit(s.weight)>>
  BY DEF EnterCalls
<1> HIDE DEF p
<1>4. /\ \A r \in RouteType : /\ Exclusive(Routed(r, SetSplit(0)))
                              /\ Exclusive(Routed(Routed(r, SetSplit(0)), Mirror(p)))
      /\ \A r \in RouteType : /\ Exclusive(Routed(r, Mirror(0)))
                              /\ Exclusive(Routed(Routed(r, Mirror(0)), SetSplit(s.weight)))
      /\ \A r \in RouteType : Exclusive(Routed(Routed(r, SetSplit(0)), Mirror(0)))
  BY <1>1, FirstClears
<1>5. QED
  BY <1>2, <1>3, <1>4 DEF WithdrawCalls

LEMMA CallsAreOwn ==
  ASSUME NEW s
  PROVE  /\ \A k \in DOMAIN EnterCalls(s) :
              Due(s, EnterCalls(s)[k])
         /\ \A k \in DOMAIN WithdrawCalls(s) : WithdrawCalls(s)[k].value = 0
<1>1. CASE s.mode = "shadow"
  BY <1>1 DEF EnterCalls, WithdrawCalls, SetSplit, Mirror, Due
<1>2. CASE s.mode # "shadow"
  BY <1>2 DEF EnterCalls, WithdrawCalls, SetSplit, Mirror, Due
<1>3. QED
  BY <1>1, <1>2

\* A manager about to call the router, with the stage it calls it for.
LEMMA CallingStage ==
  ASSUME TypeInv, NEW m \in Managers, pc[m] \in {"enter", "withdraw"}
  PROVE  /\ MyStage(m).route \in Routes
         /\ route[MyStage(m).route] \in RouteType
<1>1. local[m].ix \in DOMAIN MySpec(m).stages
  BY DEF TypeInv, Copies, CopyOK
<1>2. MyStage(m).route \in Routes
  BY <1>1, MyStageType DEF MyStage, Stage
<1>3. QED
  BY <1>2 DEF TypeInv, RestOK, RouteType

\* The call a manager makes next leaves its route serving or mirroring, never
\* both, and the calls that are left still safe.
LEMMA NextCallOK ==
  ASSUME RouteInv, NEW m \in Managers, pc[m] \in {"enter", "withdraw"}, calls[m] # <<>>,
         route' = [route EXCEPT ![MyStage(m).route] = Routed(@, Head(calls[m]))]
  PROVE  /\ NeverServedAndMirrored'
         /\ \/ Tail(calls[m]) = <<>>
            \/ \E c \in RouterCalls :
                 Tail(calls[m]) = <<c>> /\ Exclusive(Routed(route'[MyStage(m).route], c))
<1> DEFINE rt == MyStage(m).route
           r  == route[rt]
<1>1. rt \in Routes /\ r \in RouteType /\ Exclusive(r) /\ route \in [Routes -> RouteType]
  BY CallingStage DEF RouteInv, NeverServedAndMirrored, Exclusive, TypeInv, RestOK, RouteType
<1> HIDE DEF rt
<1>2. route'[rt] = Routed(r, Head(calls[m]))
      /\ \A x \in Routes : x # rt => route'[x] = route[x]
  BY <1>1 DEF rt
<1>3. CASE \E c \in RouterCalls : calls[m] = <<c>> /\ Exclusive(Routed(r, c))
  BY <1>1, <1>2, <1>3 DEF RouteInv, NeverServedAndMirrored, Exclusive
<1>4. CASE \E c, d \in RouterCalls :
             /\ calls[m] = <<c, d>>
             /\ \A y \in RouteType : /\ Exclusive(y) => Exclusive(Routed(y, c))
                                     /\ Exclusive(Routed(Routed(y, c), d))
  <2>1. PICK c \in RouterCalls, d \in RouterCalls :
             /\ calls[m] = <<c, d>>
             /\ \A y \in RouteType : /\ Exclusive(y) => Exclusive(Routed(y, c))
                                     /\ Exclusive(Routed(Routed(y, c), d))
    BY <1>4
  <2>2. Head(calls[m]) = c /\ Tail(calls[m]) = <<d>>
    BY <2>1
  <2>3. Exclusive(route'[rt]) /\ Exclusive(Routed(route'[rt], d))
    BY <1>1, <1>2, <2>1, <2>2
  <2>4. NeverServedAndMirrored'
    BY <1>2, <2>3 DEF RouteInv, NeverServedAndMirrored, Exclusive
  <2>5. QED
    BY <2>2, <2>3, <2>4 DEF rt
<1>5. QED
  BY <1>3, <1>4 DEF RouteInv, CallsOK, SafeCalls, rt

\* A manager that is not about to call the router, on routes left alone.
LEMMA RouteRests ==
  ASSUME RouteInv, NEW m, Managers = {m}, pc'[m] \notin {"enter", "withdraw"}, route' = route
  PROVE  NeverServedAndMirrored' /\ \A x \in Managers : CallsOK(x)'
BY DEF RouteInv, NeverServedAndMirrored, CallsOK

\* Nothing that the calls depend on has changed.
LEMMA RouteKept ==
  ASSUME RouteInv, UNCHANGED <<route, pc, calls, local>>,
         \A m \in Managers : pc[m] \in {"enter", "withdraw"} => MyStage(m)' = MyStage(m)
  PROVE  NeverServedAndMirrored' /\ \A x \in Managers : CallsOK(x)'
BY DEF RouteInv, NeverServedAndMirrored, CallsOK, SafeCalls, OwnCalls

LEMMA RouteProceed ==
  ASSUME RouteInv, NEW m, Managers = {m}, Proceed(m)
  PROVE  NeverServedAndMirrored' /\ \A x \in Managers : CallsOK(x)'
<1> DEFINE Goal == NeverServedAndMirrored' /\ \A x \in Managers : CallsOK(x)'
<1> USE DEF RouteInv, TypeInv, WorkerOK
<1>0. m \in Managers
  OBVIOUS
<1>1. CASE Skip(m)
  BY <1>1, RouteKept DEF Skip, worker, object, MyStage, MySpec
<1>2. CASE Get(m)
  BY <1>0, <1>2, RouteRests DEF Get
<1>3. CASE \/ ManifestsMissing(m) \/ FinishPromoted(m) \/ StartOffline(m)
           \/ ReplayFails(m) \/ NothingMeasured(m) \/ RouterRefuses(m)
           \/ Entered(m) \/ Withdrawn(m)
           \/ \E i \in StageIndices : PreflightFails(m, i)
           \/ \E outcome \in {"Promoted", "WavedOff", "Held"} : JudgeOffline(m, outcome)
  <2>1. route' = route /\ \E ix, st, then : WriteNext(m, ix, st, then)
    BY <1>3 DEF ManifestsMissing, FinishPromoted, StartOffline, ReplayFails, NothingMeasured,
       RouterRefuses, Entered, Withdrawn, PreflightFails, JudgeOffline, Hold
  <2>2. pc'[m] = "write"
    BY <1>0, <2>1 DEF WriteNext
  <2>3. QED
    BY <2>1, <2>2, RouteRests
<1>4. CASE ReplaySession(m)
  <2>1. route' = route /\ pc'[m] \in {"replay", "write"}
    BY <1>0, <1>4 DEF ReplaySession, Hold, WriteNext
  <2>2. QED
    BY <2>1, RouteRests
<1>5. ASSUME NEW i \in StageIndices, Enter(m, i) PROVE Goal
  <2>1. i \in DOMAIN MySpec(m).stages
    BY <1>5 DEF Enter, LiveNext
  <2>2. calls'[m] = EnterCalls(MySpec(m).stages[i]) /\ UNCHANGED route
    BY <1>0, <1>5 DEF Enter
  <2>3. \E c, d \in RouterCalls :
          /\ calls'[m] = <<c, d>>
          /\ \A r \in RouteType : /\ Exclusive(r) => Exclusive(Routed(r, c))
                                  /\ Exclusive(Routed(Routed(r, c), d))
    BY <1>0, <2>1, <2>2, MyStageType, EnterCallsOK
  <2>4. pc'[m] = "enter" /\ MyStage(m)' = MySpec(m).stages[i]
    BY <1>0, <1>5 DEF Enter, MyStage, MySpec, object
  <2>5. OwnCalls(m)'
    <3>1. MyStage(m)'.mode # "offline-replay"
      BY <1>5, <2>4 DEF Enter, LiveNext
    <3>2. QED
      BY <2>2, <2>4, <3>1, CallsAreOwn DEF OwnCalls
  <2>6. QED
    BY <2>2, <2>3, <2>5 DEF CallsOK, SafeCalls, NeverServedAndMirrored
<1>6. ASSUME NEW i \in StageIndices, NEW a \in Answers, Advance(m, i, a) PROVE Goal
  <2>1. i \in DOMAIN MySpec(m).stages /\ UNCHANGED route
    BY <1>6 DEF Advance, LiveNext
  <2>2. \/ pc'[m] = "write"
        \/ pc'[m] = "withdraw" /\ calls'[m] = WithdrawCalls(MySpec(m).stages[i])
    <3> DEFINE stage == MySpec(m).stages[i]
               old   == local[m].status.stages[stage.name]
               step  == AdvanceStep(MySpec(m), stage, clock - old.startedAt, a)
    <3>1. step.outcome \in {"error", "continue", "promote", "roll-back"}
      BY AdvanceStepType
    <3>2. CASE step.outcome = "roll-back"
      BY <1>0, <1>6, <3>2 DEF Advance
    <3>3. CASE step.outcome # "roll-back"
      <4>1. \E ix, st, then : WriteNext(m, ix, st, then)
        BY <1>6, <3>1, <3>3 DEF Advance, Hold
      <4>2. QED
        BY <1>0, <4>1 DEF WriteNext
    <3>4. QED
      BY <3>2, <3>3
  <2>3. CASE pc'[m] = "write"
    BY <2>1, <2>3, RouteRests
  <2>4. CASE pc'[m] = "withdraw" /\ calls'[m] = WithdrawCalls(MySpec(m).stages[i])
    <3>1. \E c, d \in RouterCalls :
            /\ calls'[m] = <<c, d>>
            /\ \A r \in RouteType : /\ Exclusive(r) => Exclusive(Routed(r, c))
                                    /\ Exclusive(Routed(Routed(r, c), d))
      BY <1>0, <2>1, <2>4, MyStageType, EnterCallsOK
    <3>2. OwnCalls(m)'
      BY <2>4, CallsAreOwn DEF OwnCalls, Due
    <3>3. QED
      BY <2>1, <3>1, <3>2 DEF CallsOK, SafeCalls, NeverServedAndMirrored
  <2>5. QED
    BY <2>2, <2>3, <2>4
<1>7. CASE CallRouter(m)
  <2>1. calls'[m] = Tail(calls[m]) /\ UNCHANGED <<specs, local>>
    BY <1>0, <1>7 DEF CallRouter, object
  <2>2. NeverServedAndMirrored'
        /\ \/ calls'[m] = <<>>
           \/ \E c \in RouterCalls :
                calls'[m] = <<c>> /\ Exclusive(Routed(route'[MyStage(m).route], c))
    BY <1>0, <1>7, <2>1, NextCallOK DEF CallRouter
  <2>3. MyStage(m)' = MyStage(m)
    BY <2>1 DEF MyStage, MySpec
  <2>4. OwnCalls(m)'
    <3>1. OwnCalls(m) /\ pc' = pc /\ calls[m] \in Seq(RouterCalls) /\ calls[m] # <<>>
      BY <1>0, <1>7 DEF CallRouter, CallsOK
    <3>2. \A k \in DOMAIN Tail(calls[m]) :
            k + 1 \in DOMAIN calls[m] /\ Tail(calls[m])[k] = calls[m][k + 1]
      BY <3>1
    <3>3. QED
      BY <2>1, <2>3, <3>1, <3>2 DEF OwnCalls
  <2>5. QED
    BY <2>2, <2>3, <2>4 DEF CallsOK, SafeCalls
<1>8. CASE WriteStatus(m)
  <2>1. route' = route /\ pc'[m] \in {"replay", "idle"}
    BY <1>0, <1>8 DEF WriteStatus, Rest
  <2>2. QED
    BY <2>1, RouteRests
<1>9. CASE WriteConflict(m)
  BY <1>0, <1>9, RouteRests DEF WriteConflict, Rest
<1>10. QED
  BY <1>1, <1>2, <1>3, <1>4, <1>5, <1>6, <1>7, <1>8, <1>9 DEF Proceed

LEMMA RouteStep ==
  ASSUME NEW m, Managers = {m} PROVE RouteInv /\ [Next]_vars => RouteInv'
<1> SUFFICES ASSUME RouteInv, [Next]_vars
             PROVE  NeverServedAndMirrored' /\ \A x \in Managers : CallsOK(x)'
  BY TypeStep DEF RouteInv
<1> DEFINE Goal == NeverServedAndMirrored' /\ \A x \in Managers : CallsOK(x)'
<1>0. m \in Managers /\ TypeInv
  BY DEF RouteInv
<1>1. CASE UNCHANGED vars
  BY <1>1, RouteKept DEF vars, MyStage, MySpec
<1>2. CASE Proceed(m)
  BY <1>2, RouteProceed
<1>3. CASE CacheSync(m) \/ Resync(m)
  BY <1>3, RouteKept DEF CacheSync, Resync, worker, object, MyStage, MySpec
<1>4. ASSUME NEW i \in StageIndices, SplitUnreadable(m, i) PROVE Goal
  <2>1. route' = route /\ pc'[m] = "write"
    BY <1>0, <1>4 DEF SplitUnreadable, Hold, WriteNext, TypeInv, WorkerOK
  <2>2. QED
    BY <2>1, RouteRests
<1>5. CASE RouterFails(m)
  <2>1. pc'[m] = "write"
    BY <1>0, <1>5 DEF RouterFails, Hold, WriteNext, TypeInv, WorkerOK
  <2>2. CASE route' = route
    BY <2>1, <2>2, RouteRests
  <2>3. CASE route' = [route EXCEPT ![MyStage(m).route] = Routed(@, Head(calls[m]))]
    <3>1. NeverServedAndMirrored'
      BY <1>0, <1>5, <2>3, NextCallOK DEF RouterFails
    <3>2. QED
      BY <2>1, <3>1 DEF CallsOK
  <2>4. QED
    BY <1>5, <2>2, <2>3 DEF RouterFails
<1>6. CASE WriteFails(m) \/ Crash(m)
  <2>1. route' = route /\ pc'[m] = "idle"
    BY <1>0, <1>6 DEF WriteFails, Crash, Rest, TypeInv, WorkerOK
  <2>2. QED
    BY <2>1, RouteRests
<1>7. ASSUME NEW s \in RolloutSpecs, EditSpec(s) PROVE Goal
  <2>1. UNCHANGED <<route, pc, calls, local>> /\ specs' = Append(specs, s)
    BY <1>7 DEF EditSpec
  <2>2. local[m].gen \in 1..Len(specs) /\ specs \in Seq(RolloutSpecs)
    BY <1>0, CopyType DEF TypeInv, RestOK, Copies, CopyOK, Generation
  <2>3. specs'[local[m].gen] = specs[local[m].gen]
    BY <2>1, <2>2
  <2>4. MyStage(m)' = MyStage(m)
    BY <2>1, <2>3 DEF MyStage, MySpec
  <2>5. QED
    BY <2>1, <2>4, RouteKept
<1>8. CASE EditMetadata \/ Tick
  BY <1>8, RouteKept DEF EditMetadata, Tick, worker, object, MyStage, MySpec
<1>9. QED
  BY <1>1, <1>2, <1>3, <1>4, <1>5, <1>6, <1>7, <1>8 DEF Next

\* When one manager runs, the candidate never serves from a route that also
\* mirrors to it: not between the two calls that enter or leave a stage, not
\* after one of them failed or was lost, and not across restarts and edits.
THEOREM OneManagerSplitsOrMirrors ==
  ASSUME NEW m, Managers = {m} PROVE Spec => []NeverServedAndMirrored
<1>1. Init => RouteInv
  <2>1. Init => NeverServedAndMirrored /\ \A x \in Managers : CallsOK(x)
    BY DEF Init, NeverServedAndMirrored, CallsOK
  <2>2. QED
    BY <2>1, TypeInit DEF RouteInv
<1>2. RouteInv /\ [Next]_vars => RouteInv'
  BY RouteStep
<1>3. RouteInv => NeverServedAndMirrored
  BY DEF RouteInv
<1>4. QED
  BY <1>1, <1>2, <1>3, PTL DEF Spec

------------------------------------------------------------------------------
(* Exposure follows the order of the stages.                                *)

Raised(old, new) == new.weight > old.weight \/ new.mirror > old.mirror

\* A call that raises a route's exposure asks for some, of the split or of the
\* mirror.
LEMMA RaisingCall ==
  ASSUME NEW old \in RouteType, NEW c \in RouterCalls, Raised(old, Routed(old, c))
  PROVE  /\ c.value # 0
         /\ c.call = "SetSplit" => Routed(old, c).weight = c.value
         /\ c.call # "SetSplit" => Routed(old, c).mirror # 0
<1>1. old.weight \in 0..100 /\ old.mirror \in 0..100 /\ c.value \in 0..100
  BY DEF RouteType, RouterCalls
<1>2. CASE c.call = "SetSplit"
  <2>1. Routed(old, c).weight = c.value /\ Routed(old, c).mirror = old.mirror
    BY <1>2 DEF Routed, RouteType
  <2>2. c.value > old.weight \/ old.mirror > old.mirror
    BY <2>1 DEF Raised
  <2>3. QED
    BY <1>1, <1>2, <2>1, <2>2
<1>3. CASE c.call # "SetSplit"
  <2>1. Routed(old, c).weight = old.weight /\ Routed(old, c).mirror = c.value
    BY <1>3 DEF Routed, RouteType
  <2>2. old.weight > old.weight \/ c.value > old.mirror
    BY <2>1 DEF Raised
  <2>3. QED
    BY <1>1, <1>3, <2>1, <2>2
<1>4. QED
  BY <1>2, <1>3

LEMMA NotRaised ==
  ASSUME NEW old \in RouteType
  PROVE  ~Raised(old, old)
<1>1. old.weight \in 0..100 /\ old.mirror \in 0..100
  BY DEF RouteType
<1>2. QED
  BY <1>1 DEF Raised

LEMMA NotMore ==
  ASSUME NEW x \in 0..100 PROVE ~(x > x)
OBVIOUS

\* A call that raises a route's exposure is made by a manager that enters one
\* of the route's stages, all of whose predecessors have been promoted.
LEMMA CallInOrder ==
  ASSUME RouteInv, SoundInv, RouteInv', NEW m \in Managers,
         pc[m] \in {"enter", "withdraw"}, calls[m] # <<>>,
         route' = [route EXCEPT ![MyStage(m).route] = Routed(@, Head(calls[m]))],
         NEW r \in Routes,
         Raised(route[r], route'[r])
  PROVE  /\ pc[m] = "enter" /\ MyStage(m).route = r
         /\ route'[r].weight > route[r].weight =>
              MyStage(m).mode = "live" /\ route'[r].weight = MyStage(m).weight
         /\ route'[r].mirror > route[r].mirror => MyStage(m).mode = "shadow"
         /\ \A j \in 1..(local[m].ix - 1) : <<local[m].gen, j>> \in passed
<1> DEFINE rt == MyStage(m).route
           c  == Head(calls[m])
           g  == local[m].gen
           i  == local[m].ix
<1>1. TypeInv /\ rt \in Routes /\ route \in [Routes -> RouteType] /\ c \in RouterCalls
  <2>1. TypeInv /\ calls[m] \in Seq(RouterCalls)
    BY DEF RouteInv, TypeInv, WorkerOK
  <2>2. c \in RouterCalls
    BY <2>1
  <2>3. route \in [Routes -> RouteType]
    BY <2>1 DEF TypeInv, RestOK, RouteType
  <2> HIDE DEF c
  <2>4. QED
    BY <2>1, <2>2, <2>3, CallingStage
<1>2. /\ pc[m] = "withdraw" => c.value = 0
      /\ pc[m] = "enter" => MyStage(m).mode # "offline-replay"
      /\ Due(MyStage(m), c)
  <2>1. OwnCalls(m) /\ calls[m] \in Seq(RouterCalls)
    BY <1>1 DEF RouteInv, CallsOK, TypeInv, WorkerOK
  <2>2. 1 \in DOMAIN calls[m] /\ c = calls[m][1]
    BY <2>1
  <2>3. QED
    BY <2>1, <2>2 DEF OwnCalls
<1>3. r = rt /\ route'[r] = Routed(route[r], c)
  <2>1. route' = [route EXCEPT ![rt] = Routed(route[rt], c)]
    OBVIOUS
  <2> HIDE DEF rt, c
  <2>2. r # rt => route'[r] = route[r]
    BY <1>1, <2>1
  <2>3. ~Raised(route[r], route[r])
    BY <1>1, NotRaised
  <2>4. r = rt
    BY <2>2, <2>3
  <2>5. route'[rt] = Routed(route[rt], c)
    BY <1>1, <2>1
  <2>6. QED
    BY <2>4, <2>5
<1> HIDE DEF c, rt
<1>4. route[r] \in RouteType
  BY <1>1
<1>5. /\ c.value # 0
      /\ c.call = "SetSplit" => route'[r].weight = c.value
      /\ c.call # "SetSplit" => route'[r].mirror # 0
  BY <1>1, <1>3, <1>4, RaisingCall
<1>6. pc[m] = "enter"
  BY <1>2, <1>5
<1>7. MyStage(m).mode \in {"live", "shadow"}
  <2>1. local[m].ix \in DOMAIN MySpec(m).stages
    BY <1>1, <1>6 DEF TypeInv, Copies, CopyOK
  <2>2. MyStage(m) \in Stage
    BY <1>1, <2>1, MyStageType DEF MyStage
  <2>3. QED
    BY <1>2, <1>6, <2>2 DEF Stage, Modes
<1>8. g \in DOMAIN specs /\ g # 0 /\ i \in Nat /\ i \in DOMAIN specs[g].stages
      /\ specs[g].stages \in Seq(Stage)
  <2>1. g \in Nat \ {0} /\ i \in Nat
    BY <1>1, CopyType
  <2>2. g \in DOMAIN specs /\ i \in DOMAIN specs[g].stages
    BY <1>1, <1>6, <2>1 DEF TypeInv, Copies, CopyOK, RestOK, Generation, MySpec
  <2>3. MySpec(m) \in RolloutSpecs
    BY <1>1, <2>2, MyStageType DEF MySpec
  <2>4. QED
    BY <2>1, <2>2, <2>3, RolloutAssumption DEF MySpec, RolloutSpec
<1>9. ASSUME NEW j \in 1..(i - 1) PROVE <<g, j>> \in passed
  <2>1. CopySound(m)
    BY DEF SoundInv
  <2>2. ~StageOpen(specs[g], local[m].status, j)
    BY <1>6, <2>1 DEF CopySound, MySpec
  <2>3. local[m].status.observed = g /\ Sound(specs, local[m].status, passed)
    BY <1>6, <2>1 DEF CopySound
  <2>4. j \in DOMAIN specs[g].stages
    BY <1>8
  <2>5. QED
    BY <1>8, <2>2, <2>3, <2>4 DEF Sound, Backed
<1> HIDE DEF g, i
<1>10. MyStage(m).route = r /\ \A j \in 1..(local[m].ix - 1) : <<local[m].gen, j>> \in passed
  BY <1>3, <1>9 DEF rt, g, i
<1>11. CASE c.call = "SetSplit"
  <2>1. MyStage(m).mode = "live" /\ route'[r].weight = MyStage(m).weight
    BY <1>2, <1>5, <1>7, <1>11 DEF Due
  <2>2. ~(route'[r].mirror > route[r].mirror)
    <3>1. route'[r].mirror = route[r].mirror /\ route[r].mirror \in 0..100
      BY <1>3, <1>4, <1>11 DEF Routed, RouteType
    <3>2. QED
      BY <3>1, NotMore
  <2>3. QED
    BY <1>6, <1>10, <2>1, <2>2
<1>12. CASE c.call # "SetSplit"
  <2>1. MyStage(m).mode = "shadow"
    BY <1>2, <1>5, <1>12 DEF Due
  <2>2. ~(route'[r].weight > route[r].weight)
    <3>1. route'[r].weight = route[r].weight /\ route[r].weight \in 0..100
      BY <1>3, <1>4, <1>12 DEF Routed, RouteType
    <3>2. QED
      BY <3>1, NotMore
  <2>3. QED
    BY <1>6, <1>10, <2>1, <2>2
<1>13. QED
  BY <1>11, <1>12

\* No other step touches a route.
LEMMA OnlyCallsMoveRoutes ==
  ASSUME [Next]_vars
  PROVE  \/ route' = route
         \/ \E m \in Managers :
              /\ pc[m] \in {"enter", "withdraw"} /\ calls[m] # <<>>
              /\ route' = [route EXCEPT ![MyStage(m).route] = Routed(@, Head(calls[m]))]
<1>1. CASE UNCHANGED vars
  BY <1>1 DEF vars
<1>2. ASSUME NEW m \in Managers, Proceed(m), ~CallRouter(m) PROVE route' = route
  BY <1>2 DEF Proceed, Skip, Get, ManifestsMissing, FinishPromoted, StartOffline,
     ReplaySession, ReplayFails, NothingMeasured, JudgeOffline, PreflightFails, Enter,
     Advance, Entered, Withdrawn, RouterRefuses, WriteStatus, WriteConflict
<1>3. ASSUME NEW m \in Managers, CallRouter(m) \/ RouterFails(m)
      PROVE  \/ route' = route
             \/ /\ pc[m] \in {"enter", "withdraw"} /\ calls[m] # <<>>
                /\ route' = [route EXCEPT ![MyStage(m).route] = Routed(@, Head(calls[m]))]
  BY <1>3 DEF CallRouter, RouterFails
<1>4. ASSUME NEW m \in Managers,
             \/ CacheSync(m) \/ Resync(m) \/ WriteFails(m) \/ Crash(m)
             \/ \E i \in StageIndices : SplitUnreadable(m, i)
      PROVE  route' = route
  BY <1>4 DEF CacheSync, Resync, WriteFails, Crash, SplitUnreadable
<1>5. CASE (\E s \in RolloutSpecs : EditSpec(s)) \/ EditMetadata \/ Tick
  BY <1>5 DEF EditSpec, EditMetadata, Tick
<1>6. QED
  BY <1>1, <1>2, <1>3, <1>4, <1>5 DEF Next

\* When one manager runs and no two stages of a spec share a name, a route's
\* weight is raised only by a pass that enters a live stage on it and its mirror
\* only by one that enters a shadow stage, and a gate promoted every predecessor of
\* that stage under the same spec: no stale copy, refused write, restart or edit
\* lets a manager enter a stage out of turn.
THEOREM OneManagerKeepsTheOrder ==
  ASSUME NEW m, Managers = {m}, UniqueNames PROVE Spec => ExposureFollowsTheOrder
<1> DEFINE Inv == RouteInv /\ SoundInv
<1>1. Init => Inv
  <2>1. Init => NeverServedAndMirrored /\ \A x \in Managers : CallsOK(x)
    BY DEF Init, NeverServedAndMirrored, CallsOK
  <2>2. QED
    BY <2>1, TypeInit, SoundInit DEF RouteInv
<1>2. Inv /\ [Next]_vars => Inv'
  BY RouteStep, SoundStep
<1>3. Inv /\ Inv' /\ [Next]_vars => [RaisedInTurn]_vars
  <2> SUFFICES ASSUME Inv, Inv', [Next]_vars PROVE RaisedInTurn
    OBVIOUS
  <2>1. CASE route' = route
    BY <2>1, NotRaised DEF RouteInv, TypeInv, RestOK, RouteType, Raised, RaisedInTurn
  <2>2. CASE route' # route
    BY <2>2, OnlyCallsMoveRoutes, CallInOrder DEF Raised, RaisedInTurn
  <2>3. QED
    BY <2>1, <2>2
<1> HIDE DEF Inv
<1>4. QED
  BY <1>1, <1>2, <1>3, PTL DEF Spec, ExposureFollowsTheOrder

-----------------------------------------------------------------------------
(* A stage recorded as rolled back has no traffic left on its route, from   *)
(* the write that records it to the next spec.                              *)

RolledBackIn(st) == \E n \in Names : st.stages[n].rolledBack

\* A copy from which a pass enters no stage: the next one has begun.
NextBegun(spec, st) ==
  \A i \in DOMAIN spec.stages :
    IsNextStage(spec, st, i) => st.stages[spec.stages[i].name].phase # ""

\* A copy no pass enters a stage from, because it starts none or because of that.
NoEntry(copy) ==
  \/ Terminal(copy.status.phase) /\ copy.status.observed = copy.gen
  \/ NextBegun(specs[copy.gen], StatusFor(copy))

Stored == [gen |-> Generation, status |-> status]

\* No stage that a status records as rolled back has traffic on its route.
Cleared(spec, st) ==
  \A i \in DOMAIN spec.stages :
    st.stages[spec.stages[i].name].rolledBack => ~Reached(spec.stages[i].route)

\* How far a withdrawal has come.
Leaving(m) ==
  LET r == route[MyStage(m).route]
  IN  \/ calls[m] = WithdrawCalls(MyStage(m))
      \/ calls[m] = <<Mirror(0)>> /\ r.weight = 0
      \/ calls[m] = <<>> /\ r.weight = 0 /\ r.mirror = 0

\* What a manager's copy says of roll-backs: only the copy that is about to
\* record one has any, and while it may still be written the cache is as it was
\* when the pass began, with the stage begun.
CopyCleared(m) ==
  /\ RolledBackIn(cache[m].status) => cache[m].status.phase = "WavedOff"
  /\ RolledBackIn(local[m].status) =>
       /\ pc[m] = "write" /\ after[m] = "done" /\ local[m].status.phase = "WavedOff"
       /\ Cleared(MySpec(m), local[m].status)
  /\ pc[m] = "dispatch" /\ base[m] =>
       current[m] /\ local[m].gen = Generation /\ local[m].status = StatusFor(Stored)
  /\ (pc[m] = "withdraw" \/ RolledBackIn(local[m].status)) /\ base[m] =>
       current[m] /\ NoEntry(Stored)
  /\ pc[m] = "withdraw" => Leaving(m)

\* While the stored status records a roll-back under the latest spec, the
\* candidate is off that stage's route, and no manager is entering a stage or
\* will from the copy it holds.
StoredCleared ==
  /\ RolledBackIn(status) => status.phase = "WavedOff"
  /\ RolledBackIn(status) /\ status.observed = Generation =>
       /\ Cleared(specs[Generation], status)
       /\ \A m \in Managers :
            /\ NoEntry(cache[m])
            /\ pc[m] # "enter"
            /\ pc[m] = "dispatch" => NextBegun(MySpec(m), local[m].status)

ClearInv ==
  RouteInv /\ SoundInv /\ VersionInv /\ StoredCleared /\ \A m \in Managers : CopyCleared(m)

\* What an empty status and the helpers on statuses say of roll-backs.
LEMMA EmptyHasNoRollBack ==
  ASSUME NEW g PROVE ~RolledBackIn(EmptyStatus(g))
BY DEF RolledBackIn, EmptyStatus, NoStage

LEMMA PhasedRollBack ==
  ASSUME NEW st \in Status, NEW g, NEW p, NEW r, ~RolledBackIn(st)
  PROVE  ~RolledBackIn(Phased(st, g, p, r))
BY PhasedFields DEF RolledBackIn

LEMMA RecordRollBack ==
  ASSUME NEW st \in Status, NEW n \in Names, NEW e \in StageStatus, ~RolledBackIn(st)
  PROVE  \A k \in Names : Record(st, n, e).stages[k].rolledBack => k = n /\ e.rolledBack
<1>1. Record(st, n, e).stages = [st.stages EXCEPT ![n] = e]
  BY DEF Record, Status
<1>2. QED
  BY <1>1 DEF RolledBackIn, Status

\* The next stage is one stage.
LEMMA OneNextStage ==
  ASSUME NEW spec \in RolloutSpecs, NEW st, NEW i, NEW j,
         IsNextStage(spec, st, i), IsNextStage(spec, st, j)
  PROVE  i = j
<1>1. spec.stages \in Seq(Stage)
  BY RolloutAssumption DEF RolloutSpec
<1>2. i \in Nat \ {0} /\ j \in Nat \ {0}
  BY <1>1 DEF IsNextStage
<1>3. QED
  BY <1>2 DEF IsNextStage

\* Nothing these parts speak of has changed.
LEMMA ClearKept ==
  ASSUME ClearInv, UNCHANGED <<specs, status, cache, current, pc, local, base, calls, after, route>>
  PROVE  StoredCleared' /\ \A x \in Managers : CopyCleared(x)'
<1>1. StoredCleared'
  BY DEF ClearInv, StoredCleared, Cleared, NoEntry, NextBegun, StatusFor, Generation, Reached, MySpec
<1>2. ASSUME NEW x \in Managers PROVE CopyCleared(x)'
  <2>1. CopyCleared(x)
    BY DEF ClearInv
  <2>2. NoEntry(Stored)' = NoEntry(Stored) /\ StatusFor(Stored)' = StatusFor(Stored)
        /\ Generation' = Generation
    BY DEF NoEntry, NextBegun, StatusFor, Stored, Generation
  <2>3. Cleared(MySpec(x), local[x].status)' = Cleared(MySpec(x), local[x].status)
    BY DEF Cleared, Reached, MySpec
  <2>4. Leaving(x)' = Leaving(x)
    BY DEF Leaving, MyStage, MySpec
  <2>5. QED
    BY <2>1, <2>2, <2>3, <2>4 DEF CopyCleared
<1>3. QED
  BY <1>1, <1>2

\* A route stays clear unless a manager that enters a stage calls the router.
StaysClear(m) == pc[m] = "enter" \/ \A r \in Routes : ~Reached(r) => ~Reached(r)'

\* The stored part, when the stored object and the cache are left alone.
LEMMA StoredKept ==
  ASSUME ClearInv, NEW m, Managers = {m}, UNCHANGED <<specs, status, cache>>, StaysClear(m),
         pc'[m] # "enter" \/ pc' = pc,
         pc'[m] # "dispatch" \/ UNCHANGED <<pc, local>>
  PROVE  StoredCleared'
<1> SUFFICES ASSUME RolledBackIn(status), status.observed = Generation
             PROVE  /\ Cleared(specs[Generation], status)'
                    /\ NoEntry(cache[m])' /\ pc'[m] # "enter"
                    /\ (pc'[m] = "dispatch" => NextBegun(MySpec(m), local[m].status)')
  BY DEF StoredCleared, ClearInv, RolledBackIn, Generation
<1>1. /\ Cleared(specs[Generation], status) /\ NoEntry(cache[m]) /\ pc[m] # "enter"
      /\ pc[m] = "dispatch" => NextBegun(MySpec(m), local[m].status)
  BY DEF ClearInv, StoredCleared
<1>2. Cleared(specs[Generation], status)'
  <2>1. Generation \in DOMAIN specs
    BY DEF ClearInv, RouteInv, TypeInv, RestOK, Generation
  <2>2. \A i \in DOMAIN specs[Generation].stages :
          specs[Generation].stages[i].route \in Routes
    BY <2>1, StageType DEF ClearInv, RouteInv, TypeInv, RestOK, Stage
  <2>3. QED
    BY <1>1, <2>2 DEF StaysClear, Cleared, Generation
<1>3. NoEntry(cache[m])'
  BY <1>1 DEF NoEntry, NextBegun, StatusFor
<1>4. QED
  BY <1>1, <1>2, <1>3 DEF NextBegun, MySpec

\* A pass that ends in a write.
LEMMA ClearWriteNext ==
  ASSUME ClearInv, NEW m, Managers = {m}, NEW ix, NEW st, NEW then,
         WriteNext(m, ix, st, then), UNCHANGED <<object, watch>>, StaysClear(m),
         RolledBackIn(st) => /\ then = "done" /\ st.phase = "WavedOff" /\ pc[m] = "withdraw"
                             /\ Cleared(MySpec(m), st) /\ route' = route
  PROVE  StoredCleared' /\ \A x \in Managers : CopyCleared(x)'
<1>1. pc'[m] = "write" /\ local'[m].gen = local[m].gen /\ local'[m].status = st
      /\ after'[m] = then /\ base' = base
  BY DEF WriteNext, ClearInv, RouteInv, TypeInv, WorkerOK
<1>2. UNCHANGED <<specs, status, cache, current>>
  BY DEF object, watch
<1>3. StoredCleared'
  BY <1>1, <1>2, StoredKept
<1>4. CopyCleared(m)'
  <2>1. CopyCleared(m)
    BY DEF ClearInv
  <2>2. RolledBackIn(cache[m].status)' => cache'[m].status.phase = "WavedOff"
    BY <1>2, <2>1 DEF CopyCleared, RolledBackIn
  <2>3. RolledBackIn(local[m].status)' = RolledBackIn(st)
    BY <1>1 DEF RolledBackIn
  <2>4. RolledBackIn(st) => Cleared(MySpec(m), local[m].status)'
    BY <1>1, <1>2 DEF Cleared, MySpec, Reached
  <2>5. NoEntry(Stored)' = NoEntry(Stored)
    BY <1>2 DEF NoEntry, Stored, NextBegun, StatusFor, Generation
  <2>6. QED
    BY <1>1, <1>2, <2>1, <2>2, <2>3, <2>4, <2>5 DEF CopyCleared
<1>5. QED
  BY <1>3, <1>4

LEMMA ClearHold ==
  ASSUME ClearInv, NEW m, Managers = {m}, NEW r, Hold(m, r), pc[m] # "write",
         UNCHANGED <<object, watch>>, StaysClear(m)
  PROVE  StoredCleared' /\ \A x \in Managers : CopyCleared(x)'
<1> DEFINE st == Phased(local[m].status, local[m].gen, "Held", r)
<1>1. local[m].status \in Status
  BY CopyType DEF ClearInv, RouteInv
<1>2. ~RolledBackIn(local[m].status)
  BY DEF ClearInv, CopyCleared
<1>3. ~RolledBackIn(st)
  BY <1>1, <1>2, PhasedRollBack
<1> HIDE DEF st
<1>4. WriteNext(m, local[m].ix, st, "done")
  BY DEF Hold, st
<1>5. QED
  BY <1>3, <1>4, ClearWriteNext

\* A pass that is over leaves a copy that says nothing.
LEMMA RestCleared ==
  ASSUME ClearInv, NEW m, Managers = {m}, Rest(m),
         RolledBackIn(cache[m].status)' => cache'[m].status.phase = "WavedOff"
  PROVE  pc'[m] = "idle" /\ CopyCleared(m)'
<1>1. pc'[m] = "idle" /\ local'[m].status = EmptyStatus(0)
  BY DEF Rest, NoCopy, ClearInv, RouteInv, TypeInv, WorkerOK
<1>2. ~RolledBackIn(local[m].status)'
  <2>1. ~RolledBackIn(EmptyStatus(0))
    BY EmptyHasNoRollBack
  <2>2. QED
    BY <1>1, <2>1 DEF RolledBackIn
<1>3. QED
  BY <1>1, <1>2 DEF CopyCleared

LEMMA UnreachedRoute ==
  ASSUME NEW r, route[r] \in RouteType, ~Reached(r)
  PROVE  route[r].weight = 0 /\ route[r].mirror = 0
<1>1. route[r].weight \in 0..100 /\ route[r].mirror \in 0..100
  BY DEF RouteType
<1>2. ~(route[r].weight > 0) /\ ~(route[r].mirror > 0)
  BY DEF Reached
<1>3. QED
  BY <1>1, <1>2

\* A withdrawal never adds traffic.
LEMMA WithdrawalFalls ==
  ASSUME ClearInv, NEW m, Managers = {m}, pc[m] \in {"enter", "withdraw"}, calls[m] # <<>>,
         route' = [route EXCEPT ![MyStage(m).route] = Routed(@, Head(calls[m]))]
  PROVE  StaysClear(m)
<1> SUFFICES ASSUME pc[m] = "withdraw", NEW r \in Routes, ~Reached(r) PROVE ~Reached(r)'
  BY DEF StaysClear
<1> DEFINE rt == MyStage(m).route
           c  == Head(calls[m])
<1>1. m \in Managers /\ TypeInv /\ calls[m] \in Seq(RouterCalls)
      /\ route \in [Routes -> RouteType]
  BY DEF ClearInv, RouteInv, TypeInv, WorkerOK, RestOK, RouteType
<1>2. c \in RouterCalls /\ c.value = 0
  <2>1. OwnCalls(m)
    BY DEF ClearInv, RouteInv, CallsOK
  <2>2. 1 \in DOMAIN calls[m] /\ c = calls[m][1] /\ c \in RouterCalls
    BY <1>1
  <2>3. QED
    BY <2>1, <2>2 DEF OwnCalls
<1>3. rt \in Routes
  BY <1>1, CallingStage
<1>4. route' = [route EXCEPT ![rt] = Routed(route[rt], c)]
  OBVIOUS
<1> HIDE DEF rt, c
<1>5. CASE r # rt
  BY <1>1, <1>3, <1>4, <1>5 DEF Reached
<1>6. CASE r = rt
  <2>1. route'[r] = Routed(route[r], c)
    BY <1>1, <1>3, <1>4, <1>6
  <2>2. route[r].weight = 0 /\ route[r].mirror = 0
    <3>1. route[r] \in RouteType
      BY <1>1
    <3>2. QED
      BY <3>1, UnreachedRoute
  <2>3. route'[r].weight = 0 /\ route'[r].mirror = 0
    <3>1. route[r] \in RouteType
      BY <1>1
    <3>2. QED
      BY <1>2, <2>1, <2>2, <3>1 DEF Routed, RouteType
  <2>4. QED
    BY <2>3 DEF Reached
<1>7. QED
  BY <1>5, <1>6

\* The status that ends a stage rolls back that stage or none.
LEMMA EndedRollBack ==
  ASSUME TypeInv, NEW m \in Managers, NEW i \in DOMAIN MySpec(m).stages,
         NEW e \in StageStatus, NEW outcome, ~RolledBackIn(local[m].status)
  PROVE  \A k \in Names : Ended(m, i, e, outcome).stages[k].rolledBack =>
                            k = MySpec(m).stages[i].name /\ e.rolledBack
<1> DEFINE n  == MySpec(m).stages[i].name
           st == Record(local[m].status, n, e)
<1>1. n \in Names /\ local[m].status \in Status
  BY MyStageType, CopyType DEF Stage
<1>2. st \in Status /\ \A k \in Names : st.stages[k].rolledBack => k = n /\ e.rolledBack
  BY <1>1, RecordType, RecordRollBack
<1>3. \E p, r : Ended(m, i, e, outcome) = Phased(st, local[m].gen, p, r)
  BY DEF Ended
<1> HIDE DEF st
<1>4. \A p, r : Phased(st, local[m].gen, p, r).stages = st.stages
  BY <1>2, PhasedFields
<1>5. QED
  BY <1>2, <1>3, <1>4

\* The passes that record something other than a withdrawal.
LEMMA ClearRecords ==
  ASSUME ClearInv, NEW m, Managers = {m},
         \/ FinishPromoted(m) \/ StartOffline(m) \/ Entered(m)
         \/ \E outcome \in {"Promoted", "WavedOff", "Held"} : JudgeOffline(m, outcome)
  PROVE  StoredCleared' /\ \A x \in Managers : CopyCleared(x)'
<1> DEFINE st0 == local[m].status
<1>1. m \in Managers /\ TypeInv /\ CopyOK(m) /\ CopyCleared(m)
  BY DEF ClearInv, RouteInv, TypeInv, Copies
<1>2. st0 \in Status /\ clock \in Nat
  BY <1>1, CopyType DEF TypeInv, RestOK
<1>3. UNCHANGED <<object, watch>> /\ StaysClear(m)
  BY DEF FinishPromoted, StartOffline, Entered, JudgeOffline, StaysClear, Reached
<1>4. ~RolledBackIn(st0)
  BY <1>1 DEF FinishPromoted, StartOffline, Entered, JudgeOffline, CopyCleared
<1>5. CASE FinishPromoted(m) \/ StartOffline(m)
  <2>1. \E ix, p, r, then : WriteNext(m, ix, Phased(st0, local[m].gen, p, r), then)
    BY <1>5 DEF FinishPromoted, StartOffline
  <2>2. QED
    BY <1>2, <1>3, <1>4, <2>1, PhasedRollBack, ClearWriteNext
<1>6. CASE Entered(m)
  <2> DEFINE e  == [NoStage EXCEPT !.phase = "Running", !.startedAt = clock]
             n  == MyStage(m).name
             rec == Record(st0, n, e)
  <2>1. e \in StageStatus /\ ~e.rolledBack
    <3>1. "Running" \in Phases
      BY DEF Phases
    <3>2. e \in StageStatus
      BY <1>2, <3>1, NoStageType, BegunType
    <3>3. QED
      BY <3>2 DEF NoStage
  <2>2. n \in Names
    BY <1>1, <1>6, MyStageType DEF Entered, CopyOK, MyStage, Stage
  <2>3. WriteNext(m, local[m].ix, Phased(rec, local[m].gen, "Running", "running"), "requeue")
    BY <1>6 DEF Entered
  <2> HIDE DEF e, n
  <2>4. rec \in Status /\ ~RolledBackIn(rec)
    BY <1>2, <1>4, <2>1, <2>2, RecordType, RecordRollBack DEF RolledBackIn
  <2> HIDE DEF rec
  <2>5. QED
    BY <1>3, <2>3, <2>4, PhasedRollBack, ClearWriteNext
<1>7. ASSUME NEW outcome \in {"Promoted", "WavedOff", "Held"}, JudgeOffline(m, outcome)
      PROVE  StoredCleared' /\ \A x \in Managers : CopyCleared(x)'
  <2> DEFINE e  == [NoStage EXCEPT !.phase = outcome, !.startedAt = clock, !.finishedAt = clock]
             st == Ended(m, local[m].ix, e, outcome)
  <2>1. e \in StageStatus /\ ~e.rolledBack
    <3>1. outcome \in Phases
      BY DEF Phases
    <3>2. e \in StageStatus
      BY <1>2, <3>1, NoStageType, FinishedType
    <3>3. QED
      BY <3>2 DEF NoStage
  <2>2. local[m].ix \in DOMAIN MySpec(m).stages
    BY <1>1, <1>7 DEF JudgeOffline, CopyOK
  <2>3. WriteNext(m, local[m].ix, st, AfterEnd(m, local[m].ix, outcome))
    BY <1>7 DEF JudgeOffline
  <2> HIDE DEF e
  <2>4. ~RolledBackIn(st)
    BY <1>1, <1>4, <2>1, <2>2, EndedRollBack DEF RolledBackIn
  <2> HIDE DEF st
  <2>5. QED
    BY <1>3, <2>3, <2>4, ClearWriteNext
<1>8. QED
  BY <1>5, <1>6, <1>7

\* A wave-off is recorded when the withdrawal has gone all the way.
LEMMA ClearWithdrawn ==
  ASSUME UniqueNames, ClearInv, NEW m, Managers = {m}, Withdrawn(m)
  PROVE  StoredCleared' /\ \A x \in Managers : CopyCleared(x)'
<1> DEFINE e  == [local[m].stage EXCEPT !.phase = "WavedOff", !.rolledBack = TRUE,
                                        !.finishedAt = clock]
           st == Ended(m, local[m].ix, e, "WavedOff")
<1>1. m \in Managers /\ TypeInv /\ CopyOK(m) /\ CopyCleared(m)
  BY DEF ClearInv, RouteInv, TypeInv, Copies
<1>2. /\ pc[m] = "withdraw" /\ calls[m] = <<>> /\ local[m].ix \in DOMAIN MySpec(m).stages
      /\ UNCHANGED <<object, watch, route>>
      /\ WriteNext(m, local[m].ix, st, "done")
  BY <1>1 DEF Withdrawn, AfterEnd, CopyOK
<1>3. e \in StageStatus
  <2>1. "WavedOff" \in Phases /\ clock \in Nat /\ local[m].stage \in StageStatus
    BY <1>1, CopyType DEF Phases, TypeInv, RestOK
  <2>2. QED
    BY <2>1, FinishedType
<1> HIDE DEF e
<1>4. \A k \in Names : st.stages[k].rolledBack => k = MyStage(m).name
  <2>1. ~RolledBackIn(local[m].status)
    BY <1>1, <1>2 DEF CopyCleared
  <2>2. QED
    BY <1>1, <1>2, <1>3, <2>1, EndedRollBack DEF MyStage
<1>5. st.phase = "WavedOff"
  <2> DEFINE rec == Record(local[m].status, MySpec(m).stages[local[m].ix].name, e)
  <2>1. rec \in Status
    BY <1>1, <1>2, <1>3, MyStageType, CopyType, RecordType DEF Stage
  <2>2. st = Phased(rec, local[m].gen, "WavedOff", "rejected")
    BY DEF Ended
  <2> HIDE DEF rec
  <2>3. QED
    BY <2>1, <2>2, PhasedFields
<1>6. ~Reached(MyStage(m).route)
  <2>1. Leaving(m)
    BY <1>1, <1>2 DEF CopyCleared
  <2>2. route[MyStage(m).route].weight = 0 /\ route[MyStage(m).route].mirror = 0
    BY <1>2, <2>1 DEF Leaving, WithdrawCalls
  <2>3. QED
    BY <2>2 DEF Reached
<1> HIDE DEF st
<1>7. Cleared(MySpec(m), st)
  <2>1. ASSUME NEW i \in DOMAIN MySpec(m).stages,
               st.stages[MySpec(m).stages[i].name].rolledBack
        PROVE  ~Reached(MySpec(m).stages[i].route)
    <3>1. MySpec(m) \in RolloutSpecs /\ MySpec(m).stages[i].name \in Names
      BY <1>1, MyStageType DEF Stage
    <3>2. MySpec(m).stages[i].name = MySpec(m).stages[local[m].ix].name
      BY <1>4, <2>1, <3>1 DEF MyStage
    <3>3. i = local[m].ix
      BY <1>2, <3>1, <3>2 DEF UniqueNames, NamesApart
    <3>4. QED
      BY <1>6, <3>3 DEF MyStage
  <2>2. QED
    BY <2>1 DEF Cleared
<1>8. StaysClear(m)
  BY <1>2 DEF StaysClear, Reached
<1>9. QED
  BY <1>2, <1>5, <1>7, <1>8, ClearWriteNext

LEMMA ClearAdvance ==
  ASSUME ClearInv, NEW m, Managers = {m}, NEW i \in StageIndices, NEW a \in Answers,
         Advance(m, i, a)
  PROVE  StoredCleared' /\ \A x \in Managers : CopyCleared(x)'
<1> DEFINE stage == MySpec(m).stages[i]
           st0   == local[m].status
           old   == st0.stages[stage.name]
           entry == [old EXCEPT !.weight = route[stage.route].weight]
           step  == AdvanceStep(MySpec(m), stage, clock - old.startedAt, a)
           done  == [entry EXCEPT !.phase = "Promoted", !.finishedAt = clock]
           kept  == [entry EXCEPT !.trigger = step.trigger]
<1>1. /\ m \in Managers /\ TypeInv /\ CopyCleared(m) /\ pc[m] = "dispatch"
      /\ i \in DOMAIN MySpec(m).stages /\ IsNextStage(MySpec(m), st0, i) /\ Started(m, i)
      /\ UNCHANGED <<object, watch, route, clock>>
  BY DEF Advance, LiveNext, ClearInv, RouteInv
<1>2. stage.name \in Names /\ stage.route \in Routes /\ st0 \in Status /\ old \in StageStatus
      /\ route[stage.route].weight \in 0..100 /\ clock \in Nat /\ MySpec(m) \in RolloutSpecs
  BY <1>1, MyStageType, CopyType, EntryType DEF Stage, TypeInv, RestOK
<1>3. ~RolledBackIn(st0) /\ StaysClear(m)
  BY <1>1 DEF CopyCleared, StaysClear, Reached
<1>4. entry \in StageStatus /\ ~entry.rolledBack
  <2>1. entry \in StageStatus
    BY <1>2, WeighedType
  <2>2. entry.rolledBack = old.rolledBack
    BY <1>2 DEF StageStatus
  <2>3. QED
    BY <1>2, <1>3, <2>1, <2>2 DEF RolledBackIn
<1>5. step.outcome \in {"error", "continue", "promote", "roll-back"}
  BY AdvanceStepType
<1>6. CASE step.outcome = "error"
  BY <1>1, <1>3, <1>6, ClearHold DEF Advance
<1>7. CASE step.outcome = "continue"
  <2> DEFINE rec == Record(st0, stage.name, entry)
  <2>1. WriteNext(m, i, Phased(rec, local[m].gen, "Running", "running"),
                  IF step.requeue THEN "requeue" ELSE "done")
    BY <1>7 DEF Advance
  <2> HIDE DEF entry
  <2>2. rec \in Status
    BY <1>2, <1>4, RecordType
  <2>3. ~RolledBackIn(rec)
    <3>1. \A k \in Names : rec.stages[k].rolledBack => entry.rolledBack
      BY <1>2, <1>3, <1>4, RecordRollBack
    <3>2. QED
      BY <1>4, <3>1 DEF RolledBackIn
  <2> HIDE DEF rec
  <2>4. QED
    BY <1>1, <1>3, <2>1, <2>2, <2>3, PhasedRollBack, ClearWriteNext
<1>8. CASE step.outcome = "promote"
  <2> DEFINE st == Ended(m, i, done, "Promoted")
  <2>1. WriteNext(m, i, st, AfterEnd(m, i, "Promoted"))
    BY <1>8 DEF Advance
  <2>2. done \in StageStatus /\ ~done.rolledBack
    <3>1. "Promoted" \in Phases
      BY DEF Phases
    <3>2. done \in StageStatus
      BY <1>2, <1>4, <3>1, FinishedType
    <3>3. done.rolledBack = entry.rolledBack
      BY <1>4 DEF StageStatus
    <3>4. QED
      BY <1>4, <3>2, <3>3
  <2> HIDE DEF done
  <2>3. ~RolledBackIn(st)
    BY <1>1, <1>3, <2>2, EndedRollBack DEF RolledBackIn
  <2> HIDE DEF st
  <2>4. QED
    BY <1>1, <1>3, <2>1, <2>3, ClearWriteNext
<1>9. CASE step.outcome = "roll-back"
  <2>1. /\ pc' = [pc EXCEPT ![m] = "withdraw"]
        /\ local' = [local EXCEPT ![m].ix = i, ![m].stage = kept]
        /\ calls' = [calls EXCEPT ![m] = WithdrawCalls(stage)]
        /\ UNCHANGED <<base, after>>
    BY <1>9 DEF Advance
  <2> HIDE DEF kept
  <2>2. /\ pc'[m] = "withdraw" /\ calls'[m] = WithdrawCalls(stage)
        /\ local'[m].gen = local[m].gen /\ local'[m].status = st0 /\ local'[m].ix = i
    BY <1>1, <2>1 DEF TypeInv, WorkerOK
  <2>3. UNCHANGED <<specs, status, cache, current>>
    BY <1>1 DEF object, watch
  <2>4. StoredCleared'
    BY <1>3, <2>2, <2>3, StoredKept
  <2>5. base[m] => current[m] /\ NoEntry(Stored)
    <3>1. SUFFICES ASSUME base[m] PROVE current[m] /\ NextBegun(MySpec(m), st0) /\
                                       MySpec(m) = specs[Generation] /\ st0 = StatusFor(Stored)
      BY DEF NoEntry, Stored
    <3>2. current[m] /\ MySpec(m) = specs[Generation] /\ st0 = StatusFor(Stored)
      BY <1>1, <3>1 DEF CopyCleared, MySpec
    <3>3. NextBegun(MySpec(m), st0)
      BY <1>1, <1>2, OneNextStage DEF NextBegun, Started
    <3>4. QED
      BY <3>2, <3>3
  <2>6. NoEntry(Stored)' = NoEntry(Stored)
    BY <2>3 DEF NoEntry, Stored, NextBegun, StatusFor, Generation
  <2>7. Leaving(m)'
    <3>1. MyStage(m)' = stage
      BY <2>2, <2>3 DEF MyStage, MySpec
    <3>2. QED
      BY <2>2, <3>1 DEF Leaving, WithdrawCalls
  <2>8. ~RolledBackIn(local[m].status)' /\ RolledBackIn(cache[m].status)' = RolledBackIn(cache[m].status)
    BY <1>3, <2>2, <2>3 DEF RolledBackIn
  <2>9. CopyCleared(m)'
    BY <1>1, <2>1, <2>2, <2>3, <2>5, <2>6, <2>7, <2>8 DEF CopyCleared
  <2>10. QED
    BY <2>4, <2>9
<1>10. QED
  BY <1>5, <1>6, <1>7, <1>8, <1>9

\* A pass that begins takes a copy without roll-backs: a cache that has one is
\* either decided or of an older spec.
LEMMA ClearGet ==
  ASSUME ClearInv, NEW m, Managers = {m}, Get(m)
  PROVE  StoredCleared' /\ \A x \in Managers : CopyCleared(x)'
<1>1. m \in Managers /\ CopyCleared(m) /\ VersionOK(m)
  BY DEF ClearInv, VersionInv
<1>2. /\ ~(Terminal(cache[m].status.phase) /\ cache[m].status.observed = cache[m].gen)
      /\ UNCHANGED <<specs, status, cache, current, route, after>>
      /\ pc'[m] = "dispatch" /\ base'[m] = current[m]
      /\ local'[m].gen = cache[m].gen /\ local'[m].status = StatusFor(cache[m])
  BY DEF Get, object, ClearInv, RouteInv, TypeInv, WorkerOK
<1>3. ~RolledBackIn(StatusFor(cache[m]))
  <2>1. ~RolledBackIn(EmptyStatus(cache[m].gen))
    BY EmptyHasNoRollBack
  <2>2. CASE cache[m].status.observed # cache[m].gen
    BY <2>1, <2>2 DEF StatusFor
  <2>3. CASE cache[m].status.observed = cache[m].gen
    BY <1>1, <1>2, <2>3 DEF StatusFor, CopyCleared, Terminal
  <2>4. QED
    BY <2>2, <2>3
<1>4. CopyCleared(m)'
  <2>1. ~RolledBackIn(local[m].status)' /\ RolledBackIn(cache[m].status)' = RolledBackIn(cache[m].status)
    BY <1>2, <1>3 DEF RolledBackIn
  <2>2. base'[m] => current'[m] /\ local'[m].gen = Generation' /\ local'[m].status = StatusFor(Stored)'
    <3>1. current[m] => cache[m] = Stored /\ cache[m].gen = Generation
      BY <1>1 DEF VersionOK, Stored
    <3>2. StatusFor(Stored)' = StatusFor(Stored) /\ Generation' = Generation
      BY <1>2 DEF StatusFor, Stored, Generation
    <3>3. QED
      BY <1>2, <3>1, <3>2
  <2>3. QED
    BY <1>1, <1>2, <2>1, <2>2 DEF CopyCleared
<1>5. StoredCleared'
  <2> SUFFICES ASSUME RolledBackIn(status), status.observed = Generation
               PROVE  /\ Cleared(specs[Generation], status)' /\ NoEntry(cache[m])'
                      /\ NextBegun(MySpec(m), local[m].status)'
    BY <1>2 DEF StoredCleared, ClearInv, RolledBackIn, Generation
  <2>1. Cleared(specs[Generation], status) /\ NoEntry(cache[m])
    BY DEF ClearInv, StoredCleared
  <2>2. NextBegun(specs[cache[m].gen], StatusFor(cache[m]))
    BY <1>2, <2>1 DEF NoEntry
  <2>3. NextBegun(MySpec(m), local[m].status)'
    BY <1>2, <2>2 DEF NextBegun, MySpec
  <2>4. QED
    BY <1>2, <2>1, <2>3 DEF Cleared, NoEntry, NextBegun, StatusFor, Generation, Reached
<1>6. QED
  BY <1>4, <1>5

LEMMA ClearEnter ==
  ASSUME ClearInv, NEW m, Managers = {m}, NEW i \in StageIndices, Enter(m, i)
  PROVE  StoredCleared' /\ \A x \in Managers : CopyCleared(x)'
<1>1. m \in Managers /\ CopyCleared(m)
  BY DEF ClearInv
<1>2. /\ pc[m] = "dispatch" /\ i \in DOMAIN MySpec(m).stages
      /\ IsNextStage(MySpec(m), local[m].status, i) /\ ~Started(m, i)
      /\ UNCHANGED <<specs, status, cache, current, route, after, base>>
      /\ pc'[m] = "enter" /\ local'[m].status = local[m].status
  BY DEF Enter, LiveNext, object, watch, ClearInv, RouteInv, TypeInv, WorkerOK
<1>3. ~(RolledBackIn(status) /\ status.observed = Generation)
  BY <1>2 DEF ClearInv, StoredCleared, NextBegun, Started
<1>4. StoredCleared'
  BY <1>2, <1>3 DEF ClearInv, StoredCleared, RolledBackIn, Generation
<1>5. ~RolledBackIn(local[m].status)' /\ RolledBackIn(cache[m].status)' = RolledBackIn(cache[m].status)
  BY <1>1, <1>2 DEF RolledBackIn, CopyCleared
<1>6. CopyCleared(m)'
  BY <1>1, <1>2, <1>5 DEF CopyCleared
<1>7. QED
  BY <1>4, <1>6

LEMMA ClearCall ==
  ASSUME ClearInv, NEW m, Managers = {m}, CallRouter(m)
  PROVE  StoredCleared' /\ \A x \in Managers : CopyCleared(x)'
<1>1. m \in Managers /\ CopyCleared(m) /\ TypeInv
  BY DEF ClearInv, RouteInv
<1>2. /\ pc[m] \in {"enter", "withdraw"} /\ calls[m] # <<>>
      /\ route' = [route EXCEPT ![MyStage(m).route] = Routed(@, Head(calls[m]))]
      /\ calls'[m] = Tail(calls[m])
      /\ UNCHANGED <<specs, status, cache, current, pc, local, base, after>>
  BY <1>1 DEF CallRouter, object, watch, TypeInv, WorkerOK
<1>3. StoredCleared'
  <2>1. StaysClear(m)
    BY <1>2, WithdrawalFalls
  <2>2. QED
    BY <1>2, <2>1, StoredKept
<1>4. pc[m] = "withdraw" => Leaving(m)'
  <2> SUFFICES ASSUME pc[m] = "withdraw" PROVE Leaving(m)'
    OBVIOUS
  <2> DEFINE rt == MyStage(m).route
             r  == route[rt]
  <2>1. rt \in Routes /\ r \in RouteType /\ route \in [Routes -> RouteType]
    BY <1>1, <1>2, CallingStage DEF TypeInv, RestOK, RouteType
  <2>2. MyStage(m)' = MyStage(m) /\ rt' = rt
    BY <1>2 DEF MyStage, MySpec
  <2>3. route'[rt] = Routed(r, Head(calls[m]))
    BY <1>2, <2>1
  <2>4. CASE calls[m] = WithdrawCalls(MyStage(m))
    <3>1. Head(calls[m]) = SetSplit(0) /\ Tail(calls[m]) = <<Mirror(0)>>
      BY <2>4 DEF WithdrawCalls
    <3>2. route'[rt].weight = 0
      BY <2>1, <2>3, <3>1 DEF Routed, SetSplit, RouteType
    <3>3. QED
      BY <1>2, <2>2, <3>1, <3>2 DEF Leaving, Mirror
  <2>5. CASE calls[m] = <<Mirror(0)>> /\ r.weight = 0
    <3>1. Head(calls[m]) = Mirror(0) /\ Tail(calls[m]) = <<>>
      BY <2>5
    <3>2. route'[rt].weight = 0 /\ route'[rt].mirror = 0
      BY <2>1, <2>3, <2>5, <3>1 DEF Routed, Mirror, RouteType
    <3>3. QED
      BY <1>2, <2>2, <3>1, <3>2 DEF Leaving
  <2>6. QED
    BY <1>1, <1>2, <2>4, <2>5 DEF CopyCleared, Leaving
<1>5. /\ ~RolledBackIn(local[m].status)' /\ RolledBackIn(cache[m].status)' = RolledBackIn(cache[m].status)
      /\ NoEntry(Stored)' = NoEntry(Stored)
  <2>1. ~RolledBackIn(local[m].status)
    BY <1>1, <1>2 DEF CopyCleared
  <2>2. /\ RolledBackIn(local[m].status)' = RolledBackIn(local[m].status)
        /\ RolledBackIn(cache[m].status)' = RolledBackIn(cache[m].status)
    BY <1>2 DEF RolledBackIn
  <2>3. NoEntry(Stored)' = NoEntry(Stored)
    BY <1>2 DEF NoEntry, Stored, NextBegun, StatusFor, Generation
  <2>4. QED
    BY <2>1, <2>2, <2>3
<1>6. CopyCleared(m)'
  <2>1. /\ pc'[m] = pc[m] /\ base'[m] = base[m] /\ current' = current /\ local' = local
        /\ cache' = cache
    BY <1>2
  <2>2. RolledBackIn(local[m].status)' = RolledBackIn(local[m].status)
    BY <2>1 DEF RolledBackIn
  <2>3. pc[m] # "dispatch"
    BY <1>2
  <2>4. QED
    BY <1>1, <1>4, <1>5, <2>1, <2>2, <2>3 DEF CopyCleared
<1>7. QED
  BY <1>3, <1>6

\* A status that is stored, by the pass it ends: a roll-back it records is of the
\* latest spec, and its writer's cache, which now lags, enters no stage.
LEMMA ClearStored ==
  ASSUME ClearInv, NEW m, Managers = {m}, pc[m] = "write", base[m],
         status' = local[m].status, Rest(m), UNCHANGED <<specs, cache, route>>
  PROVE  StoredCleared' /\ \A x \in Managers : CopyCleared(x)'
<1>1. m \in Managers /\ CopyCleared(m) /\ VersionOK(m)
  BY DEF ClearInv, VersionInv
<1>2. pc'[m] = "idle" /\ CopyCleared(m)'
  BY <1>1, RestCleared DEF CopyCleared, RolledBackIn
<1>3. StoredCleared'
  <2> SUFFICES ASSUME RolledBackIn(local[m].status)
               PROVE  /\ local[m].status.phase = "WavedOff"
                      /\ Cleared(specs[Generation], local[m].status)
                      /\ NoEntry(cache[m])
    <3>1. RolledBackIn(status)' = RolledBackIn(local[m].status)
      BY DEF RolledBackIn
    <3>2. Cleared(specs[Generation], status)' = Cleared(specs[Generation], local[m].status)
      BY DEF Cleared, Reached, Generation
    <3>3. NoEntry(cache[m])' = NoEntry(cache[m])
      BY DEF NoEntry, NextBegun, StatusFor
    <3>4. QED
      BY <1>2, <3>1, <3>2, <3>3 DEF StoredCleared
  <2>1. local[m].gen = Generation /\ current[m] /\ NoEntry(Stored)
    BY <1>1 DEF VersionOK, CopyCleared
  <2>2. cache[m] = Stored
    BY <1>1, <2>1 DEF VersionOK, Stored
  <2>3. QED
    BY <1>1, <2>1, <2>2 DEF CopyCleared, MySpec
<1>4. QED
  BY <1>2, <1>3

LEMMA ClearWrites ==
  ASSUME ClearInv, NEW m, Managers = {m},
         WriteStatus(m) \/ WriteFails(m) \/ WriteConflict(m)
  PROVE  StoredCleared' /\ \A x \in Managers : CopyCleared(x)'
<1>1. m \in Managers /\ CopyCleared(m) /\ StaysClear(m)
      /\ UNCHANGED <<specs, cache, route>> /\ pc[m] = "write"
  BY DEF ClearInv, WriteStatus, WriteFails, WriteConflict, StaysClear, Reached, object
<1>2. CASE WriteStatus(m) /\ after[m] = "replay"
  <2>1. /\ status' = local[m].status /\ UNCHANGED <<local, after>> /\ pc'[m] = "replay"
    BY <1>2 DEF WriteStatus, Store, StoreNothing, ClearInv, RouteInv, TypeInv, WorkerOK
  <2>2. ~RolledBackIn(local[m].status)
    BY <1>1, <1>2 DEF CopyCleared
  <2>3. ~RolledBackIn(status)' /\ ~RolledBackIn(local[m].status)'
        /\ RolledBackIn(cache[m].status)' = RolledBackIn(cache[m].status)
    BY <1>1, <2>1, <2>2 DEF RolledBackIn
  <2>4. QED
    BY <1>1, <2>1, <2>3 DEF StoredCleared, CopyCleared
<1>3. CASE (WriteStatus(m) /\ after[m] # "replay") \/ (WriteFails(m) /\ status' = local[m].status)
  BY <1>1, <1>3, ClearStored DEF WriteStatus, WriteFails, Store, StoreNothing
<1>4. CASE (WriteFails(m) \/ WriteConflict(m)) /\ status' = status
  <2>1. Rest(m)
    BY <1>4 DEF WriteFails, WriteConflict
  <2>2. pc'[m] = "idle" /\ CopyCleared(m)'
    BY <1>1, <2>1, RestCleared DEF CopyCleared, RolledBackIn
  <2>3. StoredCleared'
    BY <1>1, <1>4, <2>2, StoredKept
  <2>4. QED
    BY <2>2, <2>3
<1>5. QED
  BY <1>2, <1>3, <1>4 DEF WriteFails, WriteConflict, Store, object

\* The cache catches up: a stored roll-back of the latest spec is a decision.
LEMMA ClearSynced ==
  ASSUME ClearInv, NEW m, Managers = {m}, UNCHANGED <<specs, status, route>>,
         cache' = [cache EXCEPT ![m] = [gen |-> Generation, status |-> status]],
         current' = [current EXCEPT ![m] = TRUE],
         Rest(m) \/ UNCHANGED <<pc, local, base, calls, after>>
  PROVE  StoredCleared' /\ \A x \in Managers : CopyCleared(x)'
<1>1. m \in Managers /\ CopyCleared(m) /\ cache'[m] = Stored /\ current'[m]
  BY DEF ClearInv, RouteInv, TypeInv, WorkerOK, RestOK, Stored
<1>2. RolledBackIn(cache[m].status)' => cache'[m].status.phase = "WavedOff"
  BY <1>1 DEF Stored, RolledBackIn, ClearInv, StoredCleared
<1>3. NoEntry(Stored)' = NoEntry(Stored)
  BY DEF NoEntry, Stored, NextBegun, StatusFor, Generation
<1>4. CopyCleared(m)' /\ (pc'[m] = "idle" \/ UNCHANGED <<pc, local>>)
  <2>1. CASE Rest(m)
    BY <1>2, <2>1, RestCleared
  <2>2. CASE UNCHANGED <<pc, local, base, calls, after>>
    <3>1. RolledBackIn(local[m].status)' = RolledBackIn(local[m].status)
          /\ Cleared(MySpec(m), local[m].status)' = Cleared(MySpec(m), local[m].status)
          /\ StatusFor(Stored)' = StatusFor(Stored) /\ Generation' = Generation
          /\ Leaving(m)' = Leaving(m)
      BY <2>2 DEF RolledBackIn, Cleared, MySpec, StatusFor, Stored, Generation, Leaving,
         MyStage, Reached
    <3>2. QED
      BY <1>1, <1>2, <1>3, <2>2, <3>1 DEF CopyCleared
  <2>3. QED
    BY <2>1, <2>2
<1>5. StoredCleared'
  <2> SUFFICES ASSUME RolledBackIn(status), status.observed = Generation
               PROVE  /\ Cleared(specs[Generation], status)' /\ NoEntry(cache[m])'
                      /\ pc'[m] # "enter"
                      /\ (pc'[m] = "dispatch" => NextBegun(MySpec(m), local[m].status)')
    BY DEF StoredCleared, ClearInv, RolledBackIn, Generation
  <2>1. /\ Cleared(specs[Generation], status) /\ pc[m] # "enter" /\ status.phase = "WavedOff"
        /\ pc[m] = "dispatch" => NextBegun(MySpec(m), local[m].status)
    BY DEF ClearInv, StoredCleared
  <2>2. Cleared(specs[Generation], status)'
    BY <2>1 DEF Cleared, Reached, Generation
  <2>3. NoEntry(cache[m])'
    BY <1>1, <2>1 DEF NoEntry, Stored, Terminal
  <2>4. QED
    BY <1>4, <2>1, <2>2, <2>3 DEF NextBegun, MySpec
<1>6. QED
  BY <1>4, <1>5

\* An edit makes every copy one of an earlier version.
LEMMA ClearEdited ==
  ASSUME ClearInv, NEW m, Managers = {m}, EditMetadata \/ \E s \in RolloutSpecs : EditSpec(s)
  PROVE  StoredCleared' /\ \A x \in Managers : CopyCleared(x)'
<1>1. /\ m \in Managers /\ CopyCleared(m) /\ TypeInv /\ CopyOK(m) /\ specs \in Seq(RolloutSpecs)
      /\ local[m].gen \in 1..Len(specs)
  <2>1. m \in Managers /\ TypeInv
    BY DEF ClearInv, RouteInv
  <2>2. CopyOK(m) /\ specs \in Seq(RolloutSpecs) /\ CopyCleared(m)
    BY <2>1 DEF ClearInv, TypeInv, Copies, RestOK
  <2>3. local[m].gen \in Nat \ {0} /\ local[m].gen <= Generation
    BY <2>1, <2>2, CopyType DEF CopyOK
  <2>4. local[m].gen \in 1..Len(specs)
    BY <2>2, <2>3 DEF Generation
  <2>5. QED
    BY <2>1, <2>2, <2>4
<1>2. UNCHANGED <<status, cache, pc, local, calls, after, route>> /\ ~base'[m]
  BY <1>1 DEF EditMetadata, EditSpec, object
<1>3. MySpec(m)' = MySpec(m)
  <2>1. CASE EditMetadata
    BY <2>1 DEF EditMetadata, object, MySpec
  <2>2. ASSUME NEW s \in RolloutSpecs, EditSpec(s) PROVE MySpec(m)' = MySpec(m)
    <3>1. specs' = Append(specs, s) /\ local' = local
      BY <2>2 DEF EditSpec
    <3>2. specs'[local[m].gen] = specs[local[m].gen]
      BY <1>1, <3>1
    <3>3. QED
      BY <3>1, <3>2 DEF MySpec
  <2>3. QED
    BY <2>1, <2>2
<1>4. CopyCleared(m)'
  <2>1. /\ RolledBackIn(local[m].status)' = RolledBackIn(local[m].status)
        /\ RolledBackIn(cache[m].status)' = RolledBackIn(cache[m].status)
        /\ Cleared(MySpec(m), local[m].status)' = Cleared(MySpec(m), local[m].status)
        /\ Leaving(m)' = Leaving(m)
    <3>1. MyStage(m)' = MyStage(m) /\ \A r : Reached(r)' = Reached(r)
      BY <1>2, <1>3 DEF MyStage, Reached
    <3>2. Cleared(MySpec(m), local[m].status)' = Cleared(MySpec(m), local[m].status)
      <4>1. MySpec(m)' = MySpec(m) /\ local' = local /\ \A r : Reached(r)' = Reached(r)
        BY <1>2, <1>3, <3>1
      <4> HIDE DEF MySpec
      <4>2. QED
        BY <4>1 DEF Cleared
    <3>3. Leaving(m)' = Leaving(m)
      BY <1>2, <3>1 DEF Leaving
    <3>4. QED
      BY <1>2, <3>2, <3>3 DEF RolledBackIn
  <2>2. QED
    BY <1>1, <1>2, <2>1 DEF CopyCleared
<1>5. StoredCleared'
  <2>1. CASE EditMetadata
    <3>1. UNCHANGED <<specs, status, cache>> /\ StaysClear(m)
      BY <1>2, <2>1 DEF EditMetadata, object, StaysClear, Reached
    <3>2. QED
      BY <1>2, <3>1, StoredKept
  <2>2. ASSUME NEW s \in RolloutSpecs, EditSpec(s) PROVE StoredCleared'
    <3>1. Len(specs') = Len(specs) + 1
      BY <1>1, <2>2 DEF EditSpec
    <3>2. status.observed \in 0..Len(specs)
      BY DEF ClearInv, SoundInv, Sound
    <3>3. status'.observed # Generation'
      BY <1>1, <1>2, <3>1, <3>2 DEF Generation
    <3>4. RolledBackIn(status)' => status'.phase = "WavedOff"
      BY <1>2 DEF RolledBackIn, ClearInv, StoredCleared
    <3>5. QED
      BY <3>3, <3>4 DEF StoredCleared
  <2>3. QED
    BY <2>1, <2>2
<1>6. QED
  BY <1>4, <1>5

LEMMA ClearStep ==
  ASSUME NEW m, Managers = {m}, UniqueNames PROVE ClearInv /\ [Next]_vars => ClearInv'
<1> SUFFICES ASSUME ClearInv, [Next]_vars
             PROVE  StoredCleared' /\ \A x \in Managers : CopyCleared(x)'
  BY RouteStep, SoundStep, VersionStep DEF ClearInv
<1> DEFINE Goal == StoredCleared' /\ \A x \in Managers : CopyCleared(x)'
<1>1. CASE UNCHANGED vars
  BY <1>1, ClearKept DEF vars
<1>2. CASE Proceed(m)
  <2>1. CASE Skip(m)
    BY <2>1, ClearKept DEF Skip, object, worker
  <2>2. CASE ManifestsMissing(m) \/ ReplayFails(m) \/ NothingMeasured(m) \/ RouterRefuses(m)
             \/ \E i \in StageIndices : PreflightFails(m, i)
    <3>1. pc[m] # "write" /\ UNCHANGED <<object, watch, route>> /\ \E r : Hold(m, r)
      BY <2>2 DEF ManifestsMissing, ReplayFails, NothingMeasured, RouterRefuses,
         PreflightFails, LiveNext
    <3>2. QED
      BY <3>1, ClearHold DEF StaysClear, Reached
  <2>3. CASE ReplaySession(m)
    <3>1. CASE Hold(m, "collision")
      BY <2>3, <3>1, ClearHold DEF ReplaySession, StaysClear, Reached
    <3>2. CASE UNCHANGED <<pc, local, base, calls, after>>
      BY <2>3, <3>2, ClearKept DEF ReplaySession, object, watch
    <3>3. QED
      BY <2>3, <3>1, <3>2 DEF ReplaySession
  <2>4. QED
    BY <1>2, <2>1, <2>2, <2>3, ClearGet, ClearRecords, ClearWithdrawn, ClearEnter,
       ClearAdvance, ClearCall, ClearWrites DEF Proceed
<1>3. CASE CacheSync(m) \/ Crash(m)
  BY <1>3, ClearSynced DEF CacheSync, Crash, object, worker
<1>4. CASE Resync(m) \/ Tick
  BY <1>4, ClearKept DEF Resync, Tick, object, watch, worker
<1>5. CASE RouterFails(m) \/ \E i \in StageIndices : SplitUnreadable(m, i)
  <2>1. pc[m] # "write" /\ UNCHANGED <<object, watch>> /\ Hold(m, "traffic")
    BY <1>5 DEF RouterFails, SplitUnreadable, LiveNext
  <2>2. StaysClear(m)
    <3>1. CASE route' = route
      BY <3>1 DEF StaysClear, Reached
    <3>2. CASE route' # route
      BY <1>5, <3>2, WithdrawalFalls DEF RouterFails, SplitUnreadable
    <3>3. QED
      BY <3>1, <3>2
  <2>3. QED
    BY <2>1, <2>2, ClearHold
<1>6. CASE WriteFails(m)
  BY <1>6, ClearWrites
<1>7. CASE EditMetadata \/ \E s \in RolloutSpecs : EditSpec(s)
  BY <1>7, ClearEdited
<1>8. QED
  BY <1>1, <1>2, <1>3, <1>4, <1>5, <1>6, <1>7 DEF Next

LEMMA ClearInit == Init => StoredCleared /\ \A m \in Managers : CopyCleared(m)
<1> SUFFICES ASSUME Init PROVE StoredCleared /\ \A m \in Managers : CopyCleared(m)
  OBVIOUS
<1>1. ~RolledBackIn(EmptyStatus(0))
  BY EmptyHasNoRollBack
<1>2. ASSUME NEW m \in Managers PROVE CopyCleared(m)
  <2>1. cache[m].status = EmptyStatus(0) /\ local[m].status = EmptyStatus(0) /\ pc[m] = "idle"
    BY DEF Init, NoCopy
  <2>2. QED
    BY <1>1, <2>1 DEF CopyCleared
<1>3. QED
  BY <1>1, <1>2 DEF StoredCleared, Init

\* When one manager runs and no two stages of a spec share a name, a stage that
\* the status records as rolled back has neither a share nor a mirror of its
\* route's traffic, for as long as the status reports on the latest spec: the
\* lagging cache the manager works from after the write, a lost reply, a restart
\* or a refused write never puts the candidate back.
THEOREM OneManagerStaysWithdrawn ==
  ASSUME NEW m, Managers = {m}, UniqueNames PROVE Spec => []RolledBackMeansNotServing
<1>1. Init => ClearInv
  <2>1. Init => NeverServedAndMirrored /\ \A x \in Managers : CallsOK(x)
    BY DEF Init, NeverServedAndMirrored, CallsOK
  <2>2. QED
    BY <2>1, TypeInit, SoundInit, VersionInit, ClearInit DEF ClearInv, RouteInv
<1>2. ClearInv /\ [Next]_vars => ClearInv'
  BY ClearStep
<1>3. ClearInv => RolledBackMeansNotServing
  <2> SUFFICES ASSUME ClearInv, status.observed = Generation,
                      NEW i \in DOMAIN specs[Generation].stages,
                      status.stages[specs[Generation].stages[i].name].rolledBack
               PROVE  ~Reached(specs[Generation].stages[i].route)
    BY DEF RolledBackMeansNotServing
  <2>1. Generation \in DOMAIN specs
    BY DEF ClearInv, RouteInv, TypeInv, RestOK, Generation
  <2>2. specs[Generation].stages[i].name \in Names
    BY <2>1, StageType DEF ClearInv, RouteInv, TypeInv, RestOK, Stage
  <2>3. RolledBackIn(status)
    BY <2>2 DEF RolledBackIn
  <2>4. QED
    BY <2>3 DEF ClearInv, StoredCleared, Cleared
<1>4. QED
  BY <1>1, <1>2, <1>3, PTL DEF Spec

============================================================================
