------------------------------ MODULE MCRollout ------------------------------
(* Small instances of Rollout for TLC: the stages and specs the runs use.   *)
EXTENDS Rollout, TLC

CONSTANTS m1, m2, r1, s1, s2

\* A stage of each mode.  Durations are in ticks.
Offline(n) == [name |-> n, mode |-> "offline-replay", route |-> r1,
               router |-> "istio", weight |-> 0, mirror |-> 0, min |-> 0,
               max |-> NoLimit, configured |-> TRUE, sequential |-> FALSE,
               sessions |-> <<s1, s2>>]

Shadow(n) == [Offline(n) EXCEPT !.mode = "shadow", !.max = 0, !.sessions = <<>>]

Canary(n, r, w) == [Offline(n) EXCEPT !.mode = "live", !.route = r, !.weight = w,
                                      !.min = 1, !.max = 1, !.sequential = TRUE,
                                      !.sessions = <<>>]

Rollout(stages, auto, triggers) ==
  [stages |-> stages, auto |-> auto, triggers |-> triggers]

\* The order the samples use, offline, then shadow, then a canary, under a policy
\* that names one trigger.
Staged     == Rollout(<<Offline("a"), Shadow("b"), Canary("c", r1, 50)>>, TRUE,
                      {"gate-fail"})

\* One stage under the name the first stage of another spec has: what a spec edit
\* may put in its place.
OnlyShadow == Rollout(<<Shadow("a")>>, TRUE, {})

\* A mirror the router cannot do, and a replay of a session nothing can use.
PartialMirror == Rollout(<<[Shadow("a") EXCEPT !.router = "gateway-api", !.mirror = 10]>>,
                         TRUE, {})
Unusable      == Rollout(<<[Offline("a") EXCEPT !.sessions = <<s2>>]>>, TRUE, {})

\* Two stages under one name: promoting the first leaves none to run.
Namesakes     == Rollout(<<Shadow("a"), Shadow("a")>>, FALSE, {})

\* One stage alone; stages without a budget; stages bounded under a policy that
\* waits for a human.
OneCanary  == Rollout(<<Canary("a", r1, 50)>>, TRUE, {})
FreeShadow == Rollout(<<[Shadow("a") EXCEPT !.max = NoLimit]>>, TRUE, {})
TwoOffline == Rollout(<<[Offline("a") EXCEPT !.sessions = <<s1>>],
                        [Offline("b") EXCEPT !.sessions = <<s2>>]>>, TRUE, {})

Budgeted   == Rollout(<<[Offline("a") EXCEPT !.sessions = <<s1>>], Canary("b", r1, 50)>>,
                      FALSE, {})

OneManager  == {m1}
TwoManagers == {m1, m2}
OneRoute    == {r1}
AllSessions == {s1, s2}
FirstOnly   == {s1}

ManagedSpecs   == {Staged, PartialMirror, Unusable, Namesakes, Budgeted, OnlyShadow}
ReplicaSpecs   == {FreeShadow, TwoOffline}
OneCanarySpec  == {OneCanary}

\* The edit of the one-manager run: a canary gives way to a shadow stage that has
\* the name of the offline stage before it.
NoEdits      == {}
ManagedEdits == {<<Budgeted, OnlyShadow>>}

ManagerSymmetry == Permutations(Managers)
==============================================================================
