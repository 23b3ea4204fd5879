----------------------------- MODULE Admission -----------------------------
(***************************************************************************)
(* The life of a manifest: `waveoff pin` reads it off a Deployment, an     *)
(* operator edits it in a file of several, `waveoff verify --write`        *)
(* repairs the file, the API server admits what is in it, and the          *)
(* injector, which reads manifests from a cache that lags, gives a pod the *)
(* recorder that states it and enforces its tool effects.                  *)
(*                                                                         *)
(* The operator, the Deployment with its pods, ConfigMaps and tool servers,*)
(* and the API server are external: what they do is an input.              *)
(***************************************************************************)
EXTENDS Manifest

CONSTANTS
  Deployments,  \* what pin may find, and be told:
                \*   agent, and image: [repo, id], the one the template names
                \*   fleet: the pods as listed, [id, ready]
                \*   model: what the environment tells of it, None if not enough
                \*   files: the mounted ConfigMap keys, [name, digest, source]
                \*   answers: what the tool servers answer, one after another:
                \*     [name, server, contract, hint] for a tool, None for a failure
                \*   set: the image that --set states, [repo, id], or None
  Edits(_),     \* spec -> the specs one edit away
  PodSpecs,     \* the pods that may be created, named if they name a manifest
  MaxDocuments, MaxObjects,  \* bounds of the file and of the cluster
  MaxChanges    \* bound on what is pinned and edited, together

VARIABLES
  desk,      \* the file the operator works on: its documents, [manifest, says]
             \* with what the tools last said of each
  objects,   \* the AgentManifests of the cluster
  cache,     \* the ones the injector's client has heard of
  asserted,  \* [name, effect]: what the operator said of tools
  pod,       \* a pod being created, or None
  changes    \* how often something was pinned or edited

PodFields == {"optIn", "injected", "known", "override", "url", "key", "tools", "named", "manifest",
              "shadow", "confined", "skipped", "recorders"}

\* The shape of the inputs; a pod is created as it is written.
ASSUME AdmissionAssumption ==
  /\ None \notin DOMAIN Rank \cup {"provider", "recorder"} /\ None \notin Digests
  /\ \A d \in Deployments :
       /\ IsList(d.files) /\ IsList(d.answers)
       /\ \A i \in DOMAIN d.files : d.files[i].digest \in Digests
  /\ \A p \in PodSpecs :
       /\ p = [f \in PodFields |-> p[f]]
       /\ p.recorders = <<>> /\ ~p.injected
       /\ p.url \in {None, "provider"}

vars == <<desk, objects, cache, asserted, pod, changes>>

Counted == changes < MaxChanges /\ changes' = changes + 1

\* A document is put at the end of the file.
Written(document) ==
  /\ pod = None
  /\ Len(desk) < MaxDocuments
  /\ desk' = Append(desk, document)

-----------------------------------------------------------------------------
(* waveoff pin.                                                            *)

\* What runs is preferred to what is asked for, and in a Ready pod to one in
\* any other.  The pods of a version being replaced are listed with the rest.
RunningID(fleet) ==
  LET known == SelectSeq(fleet, LAMBDA p : p.id # None)
      ready == SelectSeq(known, LAMBDA p : p.ready)
  IN  IF ready # <<>> THEN Head(ready).id ELSE IF known # <<>> THEN known[Len(known)].id ELSE None

ResolvedImage(template, fleet) ==
  IF RunningID(fleet) # None THEN [template EXCEPT !.id = RunningID(fleet)] ELSE template

\* Of two files with one stem the first is the prompt.
InferredPrompts(files) ==
  Kept(files, {i \in DOMAIN files : \A j \in 1..i - 1 : files[j].name # files[i].name})

\* A contract that cannot be digested is left out, and so is a whole server
\* that does not answer.
Introspected(answers) ==
  Kept(answers, {i \in DOMAIN answers : answers[i] # None /\ answers[i].contract # None})

\* Mutant: the server's hint becomes the effect.
ToolsWithHints(answers) ==
  [i \in DOMAIN Introspected(answers) |->
     LET t == Introspected(answers)[i]
     IN  [name |-> t.name, server |-> t.server, contract |-> t.contract, effect |-> t.hint, replay |-> None]]

\* The effect is left to the operator.
Tools(answers) ==
  [i \in DOMAIN Introspected(answers) |->
     LET t == Introspected(answers)[i]
     IN  [name |-> t.name, server |-> t.server, contract |-> t.contract, effect |-> None, replay |-> None]]

PinnedSpec(agent, image, model, files, answers) ==
  [agent |-> agent, repo |-> image.repo, id |-> image.id, model |-> model,
   prompts |-> InferredPrompts(files), tools |-> Tools(answers),
   retrieval |-> None, policy |-> None, judges |-> <<>>]

\* Nothing is left to decide: an image was pinned, every server answered, there
\* are no tools to classify, and the model is known.
Complete(resolved, model, answers) ==
  /\ resolved.id \in Digests
  /\ \A i \in DOMAIN answers : answers[i] # None
  /\ Introspected(answers) = <<>>
  /\ model # None

\* A file with something left to decide gets neither digests nor a name.
Emitted(spec, complete) ==
  IF complete
  THEN [spec |-> spec, behavior |-> Behavior(spec), content |-> Content(spec), name |-> Name(spec)]
  ELSE [spec |-> spec, behavior |-> None, content |-> None,
        name |-> [agent |-> spec.agent, behavior |-> None, content |-> None]]

\* --set code.image replaces what was resolved, with whatever it is.
Pin(d) ==
  LET resolved == ResolvedImage(d.image, d.fleet)
      complete == Complete(resolved, d.model, d.answers)
      image    == IF d.set # None THEN d.set ELSE resolved
  IN  /\ Counted
      /\ Written([manifest |-> Emitted(PinnedSpec(d.agent, image, d.model, d.files, d.answers), complete),
                  says     |-> IF ~complete THEN "todo" ELSE IF d.set = None THEN "complete" ELSE "overridden"])
      /\ UNCHANGED <<objects, cache, asserted, pod>>

-----------------------------------------------------------------------------
(* The operator's file.                                                    *)

\* The next version starts from a manifest in the cluster.
Take(o) ==
  /\ Written([manifest |-> o, says |-> "todo"])
  /\ UNCHANGED <<objects, cache, asserted, pod, changes>>

Rewritten(i, m) == desk' = [desk EXCEPT ![i] = [manifest |-> m, says |-> "todo"]]

\* An effect is asserted by AssertEffect alone.
Claims(s) == {[name |-> s.tools[i].name, effect |-> s.tools[i].effect] : i \in DOMAIN s.tools}

Edit(i, spec) ==
  /\ IsSpec(spec)
  /\ Claims(spec) \subseteq Claims(desk[i].manifest.spec)
  /\ Counted
  /\ Rewritten(i, [desk[i].manifest EXCEPT !.spec = spec])
  /\ UNCHANGED <<objects, cache, asserted, pod>>

AssertEffect(i, t, effect) ==
  /\ Counted
  /\ Rewritten(i, [desk[i].manifest EXCEPT !.spec.tools[t].effect = effect])
  /\ asserted' = asserted \cup {[name |-> desk[i].manifest.spec.tools[t].name, effect |-> effect]}
  /\ UNCHANGED <<objects, cache, pod>>

\* A second name for the same behaviour, given by hand.
Disambiguate(i) ==
  /\ Counted
  /\ Rewritten(i, [desk[i].manifest EXCEPT !.name = DisambiguatedName(desk[i].manifest.spec)])
  /\ UNCHANGED <<objects, cache, asserted, pod>>

\* The documents of one name, and those of them that verify finds wrong.
Namesakes(d) == {i \in DOMAIN desk : desk[i].manifest.name = desk[d].manifest.name}
Wrong(d)     == {i \in Namesakes(d) : ~Checks(desk[i].manifest)}

LastOf(places) == CHOOSE i \in places : \A j \in places : j <= i

\* The document to repair is looked up by its name, and the last of a name is
\* found: it gets the digests and the name of every wrong one of them in turn.
Mended(d) ==
  IF Wrong(d) = {} \/ d # LastOf(Namesakes(d)) THEN desk[d].manifest
  ELSE [Repaired(desk[LastOf(Wrong(d))].manifest) EXCEPT !.spec = desk[d].manifest.spec]

\* What verify said of a document that shares its name with a wrong one, repaired
\* or ok, is kept apart.
Told(d) ==
  IF Wrong(d) = {} THEN desk[d].says ELSE IF Namesakes(d) = {d} THEN "repaired" ELSE "namesake"

\* verify --write mends what it finds wrong, and leaves alone what it does not.
VerifyWrite ==
  /\ \E d \in DOMAIN desk : Wrong(d) # {}
  /\ desk' = [d \in DOMAIN desk |-> [manifest |-> Mended(d), says |-> Told(d)]]
  /\ UNCHANGED <<objects, cache, asserted, pod, changes>>

PutAway ==
  /\ desk # <<>> /\ desk' = <<>>
  /\ UNCHANGED <<objects, cache, asserted, pod, changes>>

-----------------------------------------------------------------------------
(* Admission of manifests, and the API server behind it.                   *)

Named(set, name) == {o \in set : o.name = name}

\* ValidateCreate.  A document that is refused, as invalid or for a spec that may
\* not change, changes nothing.
Create(m) ==
  /\ Valid(m)
  /\ Named(objects, m.name) = {}
  /\ Cardinality(objects) < MaxObjects
  /\ objects' = objects \cup {m}
  /\ UNCHANGED <<desk, cache, asserted, pod, changes>>

\* ValidateDelete.  (An update may only add annotations: the API server keeps the
\* spec as it was created.)
Delete(o) ==
  /\ objects' = objects \ {o}
  /\ UNCHANGED <<desk, cache, asserted, pod, changes>>

Sync ==
  /\ cache # objects /\ cache' = objects
  /\ UNCHANGED <<desk, objects, asserted, pod, changes>>

-----------------------------------------------------------------------------
(* The injector.                                                           *)

CreatePod(p, name) ==
  /\ desk = <<>> /\ pod = None
  /\ name # None => p.named
  /\ pod' = [p EXCEPT !.manifest = name]
  /\ UNCHANGED <<desk, objects, cache, asserted, changes>>

\* Mutant: only the ordinary containers are looked at, where it never is.
NoRecorder(p) == FALSE

HasRecorder(p) == p.recorders # <<>>

\* An annotation comes first, then the base URL the agent is given, then the
\* provider its key is for.
Upstream(p) ==
  IF p.override \/ (p.url = None /\ p.key) THEN "provider" ELSE p.url

\* Mutant: failing the one named, any version of the agent will do.
IdentityOrAny(p) == IF Named(cache, p.manifest) = {} THEN cache ELSE Named(cache, p.manifest)

\* No manifest named, or none that can be read, leaves a pod without an identity.
Identity(p) == IF p.manifest = None THEN {} ELSE Named(cache, p.manifest)

Effects(p) == UNION {Claims(o.spec) : o \in Identity(p)}

\* Half a guarantee looks like a whole one: writes are suppressed only in a pod
\* whose egress is confined and for tools that are classified.
Injectable(p) ==
  /\ p.known
  /\ p.tools # "bad"
  /\ Upstream(p) # None \/ p.tools = "some"
  /\ p.shadow => p.confined /\ Effects(p) # {}

Recorder(p) ==
  [upstream |-> Upstream(p),
   behavior |-> IF Identity(p) = {} THEN None ELSE (CHOOSE o \in Identity(p) : TRUE).behavior,
   content  |-> IF Identity(p) = {} THEN None ELSE (CHOOSE o \in Identity(p) : TRUE).content,
   shadow   |-> p.shadow,
   effects  |-> IF p.shadow THEN Effects(p) ELSE {}]

\* Mutant: the pod is marked before it is looked at.
MarkedFirst(p) ==
  IF ~p.optIn \/ p.injected \/ HasRecorder(p) THEN p
  ELSE IF ~Injectable(p) THEN [p EXCEPT !.skipped = TRUE, !.injected = TRUE]
  ELSE [p EXCEPT !.url       = IF Upstream(p) = None THEN @ ELSE "recorder",
                 !.recorders = Append(@, Recorder(p)),
                 !.injected  = TRUE]

\* Default: every way out but the last leaves the pod as it was, with a warning
\* if it had asked for a recorder.
Defaulted(p) ==
  IF ~p.optIn \/ p.injected \/ HasRecorder(p) THEN p
  ELSE IF ~Injectable(p) THEN [p EXCEPT !.skipped = TRUE]
  ELSE [p EXCEPT !.url       = IF Upstream(p) = None THEN @ ELSE "recorder",
                 !.recorders = Append(@, Recorder(p)),
                 !.injected  = TRUE]

\* The API server may call a webhook again, for what another one changed.
Default ==
  /\ pod # None
  /\ pod' = Defaulted(pod)
  /\ UNCHANGED <<desk, objects, cache, asserted, changes>>

\* A pod is created anew from what is written of it, but for the annotation.
Recreate ==
  /\ pod # None
  /\ pod' = [pod EXCEPT !.injected = FALSE]
  /\ UNCHANGED <<desk, objects, cache, asserted, changes>>

Gone ==
  /\ pod # None /\ pod' = None
  /\ UNCHANGED <<desk, objects, cache, asserted, changes>>

-----------------------------------------------------------------------------
Init ==
  /\ desk = <<>>
  /\ objects = {} /\ cache = {} /\ asserted = {}
  /\ pod = None
  /\ changes = 0

Next ==
  \/ \E d \in Deployments : Pin(d)
  \/ \E o \in objects : Take(o) \/ Delete(o)
  \/ \E i \in DOMAIN desk :
       \/ \E spec \in Edits(desk[i].manifest.spec) : Edit(i, spec)
       \/ \E t \in DOMAIN desk[i].manifest.spec.tools, effect \in DOMAIN Rank : AssertEffect(i, t, effect)
       \/ Disambiguate(i)
       \/ Create(desk[i].manifest)
  \/ VerifyWrite \/ PutAway \/ Sync
  \/ \E p \in PodSpecs, name \in {o.name : o \in objects \cup cache} \cup {None} : CreatePod(p, name)
  \/ Default \/ Recreate \/ Gone

Spec == Init /\ [][Next]_vars

-----------------------------------------------------------------------------
(* Properties.                                                             *)

Manifests == {desk[i].manifest : i \in DOMAIN desk} \cup objects

\* What the file, the objects and a pod may be.
TypeOK ==
  /\ IsList(desk)
  /\ \A i \in DOMAIN desk : desk[i].says \in {"todo", "complete", "overridden", "repaired", "namesake"}
  /\ \A m \in Manifests : IsSpec(m.spec)
  /\ \A o \in objects : Valid(o)
  /\ \A o, q \in objects : o.name = q.name => o = q
  /\ pod # None => pod.url \in {None, "provider", "recorder"} /\ (pod.injected => pod.recorders # <<>>)

\* (compare.go, model.go:161-170.)  The verdict and the changes listed under it
\* tell one story: behaviour that moved is listed as such, provenance is listed
\* as nothing more, and a tool that came to write is flagged.  The exceptions are
\* two images, bundles or models that differ and read alike, two agents that a
\* forced diff compares, for the agent is on no plane, and lists with namesakes,
\* of which no admitted manifest has any.
VerdictIsExplained ==
  \A a, b \in {m.spec : m \in Manifests} :
    LET listed == Compare(a, b)
        Alike(d, e) == d # e /\ Shown(d) = Shown(e)
        Writes(s, t) == \E i \in DOMAIN s.tools : s.tools[i].name = t /\ RankOf(s.tools[i].effect) > 0
        IsStory(verdict) ==
          CASE verdict = "behavioural" ->
                 /\ \/ \E c \in listed : c.tags # {}
                    \/ Alike(a.id, b.id) \/ Alike(a.policy, b.policy) \/ Alike(a.model, b.model)
                    \/ a.agent # b.agent
                 /\ \A t \in Names(b.tools) : Writes(b, t) /\ ~Writes(a, t) =>
                      \E c \in listed : c.element = t /\ Severe(c)
            [] verdict = "provenance-only" -> \A c \in listed : c.tags = {}
            [] verdict = "identical" -> listed = {}
            [] OTHER -> TRUE
    IN  NoNamesakes(a) /\ NoNamesakes(b) => \A verdict \in {Verdict(a, b, force) : force \in BOOLEAN} : IsStory(verdict)

\* What the tools call finished is admitted: at once if nothing was left open,
\* after the decisions no repair can make if it was.
IsAdmitted(document) ==
  LET m == document.manifest
  IN  CASE document.says = "complete" -> Valid(m) \/ ~Conforms(m.spec)
        [] document.says \in {"overridden", "repaired"} -> Valid(m) \/ ~Appliable(m.spec)
        [] OTHER -> TRUE

\* (pin.go: a manifest is complete; verify.go --write; 170-171: what passes is
\* accepted.)  A document that pin calls complete is admitted as it is, unless it
\* has a name the schema refuses; one that verify repaired is, unless it needs a
\* decision no repair can make or shared its name with another in the file.
FinishedIsAdmitted == \A i \in DOMAIN desk : IsAdmitted(desk[i])

\* (agentmanifest_webhook.go: the name is tied to the identity.)  A recorder
\* states the behaviour its pod's manifest is named for and enforces the effects
\* that belong to it, however old the copy the injector read and whatever was
\* deleted and created under that name since.
RecordedAsNamed ==
  pod # None =>
    \A i \in DOMAIN pod.recorders :
      LET r == pod.recorders[i]
      IN  /\ r.behavior # None => pod.manifest # None /\ r.behavior = pod.manifest.behavior
          /\ r.shadow => r.effects = {[name |-> n, effect |-> pod.manifest.behavior.tools[n][1].effect] :
                                        n \in DOMAIN pod.manifest.behavior.tools}

\* (digest.md, pin.go: the server is the untrusted party.)  A shadow pod runs by
\* effects an operator asserted: no hint of a server gets that far, by whatever
\* files and objects it is copied, and neither does a tool nobody classified.
EffectsAreAsserted ==
  pod # None =>
    \A i \in DOMAIN pod.recorders : pod.recorders[i].effects \subseteq asserted

\* (inject.go: a second pass is a no-op.)  However often a pod passes, it has one
\* recorder, which does not stand behind itself.
OneRecorder ==
  pod # None => Len(pod.recorders) <= 1 /\ \A i \in DOMAIN pod.recorders : pod.recorders[i].upstream # "recorder"
=============================================================================
