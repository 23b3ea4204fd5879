-------------------------- MODULE AdmissionProofs --------------------------
(***************************************************************************)
(* What Admission keeps for every fleet, set of prompt files, tools, edits *)
(* and pods: its types, that a finished manifest is admitted, that a       *)
(* recorder states the manifest its pod names, and that a diff tells what  *)
(* its verdict rests on.                                                   *)
(***************************************************************************)
EXTENDS Admission, FiniteSetTheorems, SequenceTheorems, WellFoundedInduction, TLAPS

-----------------------------------------------------------------------------
(* Lists.                                                                  *)

LEMMA Places ==
  ASSUME NEW list, IsList(list)
  PROVE  /\ list = [i \in DOMAIN list |-> list[i]]
         /\ \E n \in Nat : DOMAIN list = 1..n
<1> DEFINE n == Cardinality(DOMAIN list)
<1>1. n \in Nat /\ list = [i \in 1..n |-> list[i]]
  BY DEF IsList
<1> HIDE DEF n
<1>2. DOMAIN list = 1..n
  BY <1>1
<1>3. QED
  BY <1>1, <1>2

LEMMA Listed ==
  ASSUME NEW n \in Nat, NEW list, list = [i \in 1..n |-> list[i]]
  PROVE  IsList(list) /\ DOMAIN list = 1..n
<1>1. DOMAIN list = 1..n
  OBVIOUS
<1>2. Cardinality(1..n) = n
  BY FS_Interval
<1>3. QED
  BY <1>1, <1>2 DEF IsList

\* The k-th place is one of them and has k of them up to it.
LEMMA NthPlace ==
  ASSUME NEW n \in Nat, NEW S, S \subseteq 1..n, NEW k \in 1..Cardinality(S)
  PROVE  Nth(S, k) \in S /\ Cardinality({j \in S : j <= Nth(S, k)}) = k
<1> DEFINE UpTo(i) == {j \in S : j <= i}
           T == {i \in Nat : Cardinality(UpTo(i)) >= k}
<1>1. IsFiniteSet(S) /\ Cardinality(S) \in Nat
  <2>1. S \in SUBSET (1..n) /\ IsFiniteSet(1..n)
    BY FS_Interval
  <2>2. IsFiniteSet(S)
    BY <2>1, FS_Subset
  <2>3. QED
    BY <2>2, FS_CardinalityType
<1>2. ASSUME NEW i \in Nat PROVE IsFiniteSet(UpTo(i)) /\ Cardinality(UpTo(i)) \in Nat
  <2>1. UpTo(i) \in SUBSET S
    OBVIOUS
  <2>2. IsFiniteSet(UpTo(i))
    BY <1>1, <2>1, FS_Subset
  <2>3. QED
    BY <2>2, FS_CardinalityType
<1>3. n \in T
  <2>1. UpTo(n) = S
    <3>1. \A j \in S : j <= n
      OBVIOUS
    <3>2. QED
      BY <3>1, Zenon
  <2>2. QED
    BY <1>1, <2>1
<1>4. PICK i \in T : \A j \in T : ~(j < i)
  <2>1. T \subseteq Nat /\ T # {}
    BY <1>3
  <2> HIDE DEF T
  <2>2. PICK i \in T : \A j \in T : <<j, i>> \notin OpToRel(<, Nat)
    BY <2>1, WFMin, NatLessThanWellFounded, Zenon
  <2>3. ASSUME NEW j \in T PROVE ~(j < i)
    BY <2>1, <2>2, Zenon DEF OpToRel
  <2>4. QED
    BY <2>3
<1>5. i # 0
  <2>1. UpTo(0) = {}
    <3>1. \A j \in S : ~(j <= 0)
      OBVIOUS
    <3>2. QED
      BY <3>1, Zenon
  <2>2. Cardinality(UpTo(0)) = 0
    BY <2>1, FS_EmptySet
  <2>3. QED
    BY <1>1, <2>2
<1>6. Cardinality(UpTo(i - 1)) < k
  <2>1. i - 1 \in Nat /\ i - 1 < i
    BY <1>5
  <2>2. i - 1 \notin T
    BY <1>4, <2>1
  <2>3. ~(Cardinality(UpTo(i - 1)) >= k)
    BY <2>1, <2>2
  <2>4. Cardinality(UpTo(i - 1)) \in Nat
    BY <1>2, <2>1
  <2>5. k \in Nat
    BY <1>1
  <2>6. QED
    BY <2>3, <2>4, <2>5
<1>7. i \in S /\ Cardinality(UpTo(i)) = k
  <2>1. i - 1 \in Nat /\ i \in Nat /\ Cardinality(UpTo(i)) >= k
    BY <1>5
  <2>2. Cardinality(UpTo(i)) \in Nat /\ Cardinality(UpTo(i - 1)) \in Nat /\ IsFiniteSet(UpTo(i - 1))
    BY <1>2, <2>1
  <2>3. k \in Nat
    BY <1>1
  <2>4. \A j \in S : (j <= i <=> j <= i - 1 \/ j = i) /\ ~(i <= i - 1)
    BY <2>1
  <2>5. i \in S
    <3>1. ASSUME i \notin S PROVE UpTo(i) = UpTo(i - 1)
      BY <2>4, <3>1, Zenon
    <3>2. QED
      BY <1>6, <2>1, <2>2, <2>3, <3>1
  <2>6. UpTo(i) = UpTo(i - 1) \cup {i} /\ i \notin UpTo(i - 1)
    BY <2>4, <2>5, Zenon
  <2>7. Cardinality(UpTo(i)) = Cardinality(UpTo(i - 1)) + 1
    BY <2>2, <2>6, FS_AddElement
  <2>8. QED
    BY <1>6, <2>1, <2>2, <2>3, <2>5, <2>7
<1>8. \E m \in S : Cardinality({j \in S : j <= m}) = k
  BY <1>7
<1>9. QED
  BY <1>8 DEF Nth

LEMMA KeptElements ==
  ASSUME NEW n \in Nat, NEW list, NEW S, S \subseteq 1..n
  PROVE  /\ IsList(Kept(list, S))
         /\ \A k \in DOMAIN Kept(list, S) : Nth(S, k) \in S /\ Kept(list, S)[k] = list[Nth(S, k)]
         /\ \A k, l \in DOMAIN Kept(list, S) : Nth(S, k) = Nth(S, l) => k = l
<1>1. Cardinality(S) \in Nat
  <2>1. S \in SUBSET (1..n) /\ IsFiniteSet(1..n)
    BY FS_Interval
  <2>2. IsFiniteSet(S)
    BY <2>1, FS_Subset
  <2>3. QED
    BY <2>2, FS_CardinalityType
<1>2. IsList(Kept(list, S)) /\ DOMAIN Kept(list, S) = 1..Cardinality(S)
  <2>1. Kept(list, S) = [k \in 1..Cardinality(S) |-> Kept(list, S)[k]]
    BY DEF Kept
  <2>2. QED
    BY <1>1, <2>1, Listed
<1>3. \A k \in 1..Cardinality(S) : Nth(S, k) \in S /\ Cardinality({j \in S : j <= Nth(S, k)}) = k
  BY NthPlace
<1>4. \A k \in 1..Cardinality(S) : Kept(list, S)[k] = list[Nth(S, k)]
  BY DEF Kept
<1>5. ASSUME NEW k \in 1..Cardinality(S), NEW l \in 1..Cardinality(S), Nth(S, k) = Nth(S, l)
      PROVE  k = l
  BY <1>3, <1>5, Zenon
<1>6. QED
  BY <1>2, <1>3, <1>4, <1>5

\* In a list without namesakes a name has one element, the one diff compares.
LEMMA OneOfAName ==
  ASSUME NEW list, IsList(list), Unique(list), NEW i \in DOMAIN list
  PROVE  /\ LastNamed(list, list[i].name) = list[i]
         /\ {j \in DOMAIN list : list[j].name = list[i].name} = {i}
<1>1. DOMAIN list \subseteq Nat
  BY Places
<1>2. \A j \in DOMAIN list : list[j].name = list[i].name <=> j = i
  BY DEF Unique
<1> DEFINE n == list[i].name
           Last(j) == list[j].name = n /\ \A k \in DOMAIN list : list[k].name = n => k <= j
<1>3. Last(i)
  BY <1>1, <1>2
<1>4. \A j \in DOMAIN list : Last(j) <=> j = i
  BY <1>2, <1>3
<1> HIDE DEF Last
<1>5. (CHOOSE j \in DOMAIN list : Last(j)) = i
  BY <1>4
<1>6. LastNamed(list, n) = list[CHOOSE j \in DOMAIN list : Last(j)]
  BY DEF LastNamed, Last
<1>7. QED
  BY <1>2, <1>5, <1>6

LEMMA ByNameWithoutNamesakes ==
  ASSUME NEW list, IsList(list), Unique(list), NEW fields
  PROVE  ByName(list, fields) =
           [n \in Names(list) |-> [k \in {1} |-> [f \in fields |-> LastNamed(list, n)[f]]]]
<1>1. ASSUME NEW n \in Names(list)
      PROVE  ByName(list, fields)[n] = [k \in {1} |-> [f \in fields |-> LastNamed(list, n)[f]]]
  <2>1. PICK i \in DOMAIN list : list[i].name = n
    BY <1>1 DEF Names
  <2> DEFINE S == {j \in DOMAIN list : list[j].name = n}
  <2>2. S = {i} /\ LastNamed(list, n) = list[i]
    BY <2>1, OneOfAName
  <2>3. i \in Nat
    BY Places
  <2>4. Cardinality(S) = 1
    BY <2>2, FS_Singleton
  <2> HIDE DEF S
  <2>5. Nth(S, 1) = i
    <3>1. {j \in S : j <= i} = {i}
      BY <2>2, <2>3
    <3>2. Cardinality({j \in S : j <= i}) = 1
      BY <3>1, FS_Singleton
    <3>3. QED
      BY <2>2, <3>2 DEF Nth
  <2>6. Kept(list, S) = [k \in {1} |-> list[i]]
    <3>1. 1..Cardinality(S) = {1}
      BY <2>4
    <3>2. QED
      BY <2>5, <3>1 DEF Kept
  <2>7. ByName(list, fields)[n] = [k \in DOMAIN Kept(list, S) |-> [f \in fields |-> Kept(list, S)[k][f]]]
    BY DEF ByName, S
  <2>8. QED
    BY <2>2, <2>6, <2>7
<1>2. DOMAIN ByName(list, fields) = Names(list)
  BY DEF ByName
<1>3. ByName(list, fields) = [n \in Names(list) |-> ByName(list, fields)[n]]
  BY DEF ByName
<1>4. QED
  BY <1>1, <1>3

LEMMA KeptPlaces ==
  ASSUME NEW list, IsList(list), NEW S, S \subseteq DOMAIN list
  PROVE  /\ IsList(Kept(list, S))
         /\ \A k \in DOMAIN Kept(list, S) : Nth(S, k) \in S /\ Kept(list, S)[k] = list[Nth(S, k)]
         /\ \A k, l \in DOMAIN Kept(list, S) : Nth(S, k) = Nth(S, l) => k = l
<1>1. PICK n \in Nat : DOMAIN list = 1..n
  BY Places
<1>2. S \subseteq 1..n
  BY <1>1
<1>3. QED
  BY <1>2, KeptElements

\* Of the files with one stem only the first is kept.
LEMMA PromptsAreUnique ==
  ASSUME NEW files, IsList(files)
  PROVE  /\ IsList(InferredPrompts(files)) /\ Unique(InferredPrompts(files))
         /\ \A k \in DOMAIN InferredPrompts(files) : \E i \in DOMAIN files : InferredPrompts(files)[k] = files[i]
<1> DEFINE first == {i \in DOMAIN files : \A j \in 1..i - 1 : files[j].name # files[i].name}
           kept  == InferredPrompts(files)
<1>1. kept = Kept(files, first)
  BY DEF InferredPrompts
<1>2. first \subseteq DOMAIN files
  OBVIOUS
<1>3. ASSUME NEW i \in first, NEW j \in first, files[i].name = files[j].name PROVE i = j
  <2>1. i \in Nat \ {0} /\ j \in Nat \ {0}
    BY Places
  <2>2. ~(i < j)
    <3>1. i < j => i \in 1..j - 1
      BY <2>1
    <3>2. QED
      BY <1>3, <3>1
  <2>3. ~(j < i)
    <3>1. j < i => j \in 1..i - 1
      BY <2>1
    <3>2. QED
      BY <1>3, <3>1
  <2>4. QED
    BY <2>1, <2>2, <2>3
<1> HIDE DEF first, kept
<1>4. /\ IsList(kept)
      /\ \A k \in DOMAIN kept : Nth(first, k) \in first /\ kept[k] = files[Nth(first, k)]
      /\ \A k, l \in DOMAIN kept : Nth(first, k) = Nth(first, l) => k = l
  BY <1>1, <1>2, KeptPlaces
<1>5. ASSUME NEW k \in DOMAIN kept, NEW l \in DOMAIN kept, kept[k].name = kept[l].name PROVE k = l
  BY <1>3, <1>4, <1>5
<1>6. \A k \in DOMAIN kept : \E i \in DOMAIN files : kept[k] = files[i]
  BY <1>2, <1>4
<1>7. QED
  BY <1>4, <1>5, <1>6 DEF Unique, kept

LEMMA IntrospectedIsList ==
  ASSUME NEW answers, IsList(answers)
  PROVE  IsList(Introspected(answers))
<1>1. {i \in DOMAIN answers : answers[i] # None /\ answers[i].contract # None} \subseteq DOMAIN answers
  OBVIOUS
<1>2. QED
  BY <1>1, KeptPlaces DEF Introspected

-----------------------------------------------------------------------------
(* The inductive invariant.                                                *)

IsManifest(m) ==
  /\ m = [spec |-> m.spec, behavior |-> m.behavior, content |-> m.content, name |-> m.name]
  /\ IsSpec(m.spec)

\* An effect that a tool has was asserted of it.
Asserted(s, claims) == \A c \in Claims(s) : c.effect \in DOMAIN Rank => c \in claims

\* What a recorder states belongs to the manifest its pod names.
AsNamed(r, name) ==
  /\ r.behavior # None => name # None /\ r.behavior = name.behavior
  /\ r.shadow => r.effects = {[name |-> n, effect |-> name.behavior.tools[n][1].effect] :
                                n \in DOMAIN name.behavior.tools}

IsRecorder(r, name, claims) ==
  /\ r.upstream # "recorder"
  /\ AsNamed(r, name)
  /\ r.effects \subseteq claims

IsPod(p, claims) ==
  /\ p = [f \in PodFields |-> p[f]]
  /\ p.url \in {None, "provider", "recorder"}
  /\ p.injected => p.recorders # <<>>
  /\ \/ p.recorders = <<>> /\ p.url # "recorder"
     \/ p.recorders = <<p.recorders[1]>> /\ IsRecorder(p.recorders[1], p.manifest, claims)

IsDocument(d, claims) ==
  /\ d = [manifest |-> d.manifest, says |-> d.says]
  /\ d.says \in {"todo", "complete", "overridden", "repaired", "namesake"}
  /\ IsManifest(d.manifest) /\ Asserted(d.manifest.spec, claims)
  /\ IsAdmitted(d)

DeskInv == IsList(desk) /\ \A i \in DOMAIN desk : IsDocument(desk[i], asserted)

ObjectsInv ==
  /\ \A o \in objects \cup cache : IsManifest(o) /\ Valid(o) /\ Asserted(o.spec, asserted)
  /\ \A o, q \in objects : o.name = q.name => o = q

PodInv == pod # None => IsPod(pod, asserted)

AdmissionInv == DeskInv /\ ObjectsInv /\ PodInv

-----------------------------------------------------------------------------
(* What pin emits.                                                         *)

LEMMA ToolsAreList ==
  ASSUME NEW answers, IsList(answers)
  PROVE  /\ IsList(Tools(answers))
         /\ DOMAIN Tools(answers) = DOMAIN Introspected(answers)
         /\ \A i \in DOMAIN Tools(answers) :
              /\ Tools(answers)[i] = [f \in ToolFields |-> Tools(answers)[i][f]]
              /\ Tools(answers)[i].effect = None
<1>1. PICK n \in Nat : DOMAIN Introspected(answers) = 1..n
  BY IntrospectedIsList, Places
<1>2. Tools(answers) = [i \in 1..n |-> Tools(answers)[i]]
  BY <1>1 DEF Tools
<1>3. IsList(Tools(answers)) /\ DOMAIN Tools(answers) = 1..n
  BY <1>2, Listed
<1>4. ASSUME NEW i \in 1..n
      PROVE  /\ Tools(answers)[i] = [f \in ToolFields |-> Tools(answers)[i][f]]
             /\ Tools(answers)[i].effect = None
  BY <1>1 DEF Tools, ToolFields
<1>5. QED
  BY <1>1, <1>3, <1>4

LEMMA EmptyList == IsList(<<>>) /\ Unique(<<>>)
<1>1. <<>> = [i \in 1..0 |-> <<>>[i]]
  OBVIOUS
<1>2. IsList(<<>>)
  BY <1>1, 0 \in Nat, Listed
<1>3. Unique(<<>>)
  BY DEF Unique
<1>4. QED
  BY <1>2, <1>3

\* What a document that pin writes is.
IsPinned(m, spec, image, model, answers, complete) ==
  /\ IsManifest(m) /\ m.spec = spec
  /\ \A c \in Claims(spec) : c.effect = None
  /\ complete = TRUE /\ Appliable(spec) => Valid(m)
  /\ image.id \in Digests /\ Introspected(answers) = <<>> /\ model # None /\ Conforms(spec) => Appliable(spec)

LEMMA Pinned ==
  ASSUME NEW agent, NEW image, NEW model,
         NEW files, IsList(files), \A i \in DOMAIN files : files[i].digest \in Digests,
         NEW answers, IsList(answers), NEW complete \in BOOLEAN,
         NEW spec, spec = PinnedSpec(agent, image, model, files, answers),
         NEW m, m = Emitted(spec, complete)
  PROVE  IsPinned(m, spec, image, model, answers, complete)
<1>1. /\ spec.agent = agent /\ spec.id = image.id /\ spec.prompts = InferredPrompts(files)
      /\ spec.tools = Tools(answers) /\ spec.judges = <<>> /\ spec.policy = None /\ spec.model = model
      /\ spec = [agent |-> spec.agent, repo |-> spec.repo, id |-> spec.id, model |-> spec.model,
                 prompts |-> spec.prompts, tools |-> spec.tools, retrieval |-> spec.retrieval,
                 policy |-> spec.policy, judges |-> spec.judges]
  BY DEF PinnedSpec
<1>2. IsSpec(spec)
  BY <1>1, PromptsAreUnique, ToolsAreList, EmptyList DEF IsSpec
<1>3. /\ m = [spec |-> m.spec, behavior |-> m.behavior, content |-> m.content, name |-> m.name]
      /\ m.spec = spec
      /\ complete => m.behavior = Behavior(spec) /\ m.content = Content(spec) /\ m.name = Name(spec)
  BY DEF Emitted
<1>4. \A c \in Claims(spec) : c.effect = None
  BY <1>1, ToolsAreList DEF Claims
<1>5. ASSUME image.id \in Digests, Introspected(answers) = <<>>, model # None, Conforms(spec) PROVE Appliable(spec)
  <2>1. DOMAIN spec.tools = {} /\ DOMAIN spec.judges = {}
    BY <1>1, <1>5, ToolsAreList
  <2>2. \A k \in DOMAIN spec.prompts : spec.prompts[k].digest \in Digests
    BY <1>1, PromptsAreUnique
  <2>3. Schema(spec)
    BY <1>1, <1>5, <2>1, <2>2 DEF Schema
  <2>4. NoNamesakes(spec)
    BY <1>1, <2>1, PromptsAreUnique, EmptyList DEF NoNamesakes, Unique
  <2>5. QED
    BY <1>1, <1>5, <2>1, <2>3, <2>4 DEF Appliable
<1>6. IsManifest(m)
  BY <1>1, <1>2, <1>3 DEF IsManifest
<1>7. complete = TRUE /\ Appliable(spec) => Valid(m)
  BY <1>3 DEF Valid
<1>8. QED
  BY <1>3, <1>4, <1>5, <1>6, <1>7 DEF IsPinned
-----------------------------------------------------------------------------
(* The file and the objects, step by step.                                 *)

\* A step of the file alone.
LEMMA DeskStep ==
  ASSUME AdmissionInv, DeskInv', UNCHANGED <<objects, cache, asserted, pod>>
  PROVE  AdmissionInv'
<1>1. ObjectsInv' /\ PodInv'
  BY DEF AdmissionInv, ObjectsInv, PodInv
<1>2. QED
  BY <1>1 DEF AdmissionInv

LEMMA Appended ==
  ASSUME DeskInv, NEW d, IsDocument(d, asserted), desk' = Append(desk, d), asserted' = asserted
  PROVE  DeskInv'
<1>1. PICK n \in Nat : DOMAIN desk = 1..n
  BY Places DEF DeskInv
<1> DEFINE S == {desk[i] : i \in 1..n} \cup {d}
<1>2. desk = [i \in 1..n |-> desk[i]]
  BY <1>1, Places DEF DeskInv
<1>3. desk \in Seq(S) /\ Len(desk) = n
  <2>1. desk \in [1..n -> S]
    BY <1>2
  <2> HIDE DEF S
  <2>2. QED
    BY <1>1, <2>1
<1> HIDE DEF S
<1>4. d \in S
  BY DEF S
<1>5. /\ desk' \in Seq(S) /\ Len(desk') = n + 1
      /\ \A i \in 1..n : desk'[i] = desk[i]
      /\ desk'[n + 1] = d
  BY <1>3, <1>4, AppendProperties
<1>6. DOMAIN desk' = 1..(n + 1) /\ desk' = [i \in 1..(n + 1) |-> desk'[i]]
  <2>1. desk' \in [1..Len(desk') -> S]
    BY <1>5, LenProperties
  <2>2. QED
    BY <1>5, <2>1
<1>7. IsList(desk')
  BY <1>6, n + 1 \in Nat, Listed
<1>8. ASSUME NEW i \in DOMAIN desk' PROVE IsDocument(desk'[i], asserted')
  <2>1. i \in 1..n \/ i = n + 1
    BY <1>6
  <2>2. QED
    BY <1>1, <1>5, <2>1 DEF DeskInv
<1>9. QED
  BY <1>7, <1>8 DEF DeskInv

\* A document that is rewritten has still everything to show.
LEMMA RewrittenKeeps ==
  ASSUME DeskInv, NEW i \in DOMAIN desk, NEW m, IsManifest(m), Asserted(m.spec, asserted'),
         Rewritten(i, m), asserted \subseteq asserted'
  PROVE  DeskInv'
<1> DEFINE d == [manifest |-> m, says |-> "todo"]
<1>1. IsDocument(d, asserted')
  BY DEF IsDocument, IsAdmitted
<1>2. desk' = [desk EXCEPT ![i] = d]
  BY DEF Rewritten
<1> HIDE DEF d
<1>3. PICK n \in Nat : DOMAIN desk = 1..n
  BY Places DEF DeskInv
<1>4. desk = [k \in 1..n |-> desk[k]]
  BY <1>3, Places DEF DeskInv
<1>5. /\ desk' = [k \in 1..n |-> desk'[k]]
      /\ desk'[i] = d /\ \A k \in 1..n : k # i => desk'[k] = desk[k]
  BY <1>2, <1>3, <1>4
<1>6. IsList(desk') /\ DOMAIN desk' = 1..n
  BY <1>5, Listed
<1>7. ASSUME NEW k \in 1..n, k # i PROVE IsDocument(desk'[k], asserted')
  <2>1. IsDocument(desk[k], asserted)
    BY <1>3 DEF DeskInv
  <2>2. QED
    BY <1>5, <1>7, <2>1 DEF IsDocument, Asserted
<1>8. QED
  BY <1>1, <1>5, <1>6, <1>7 DEF DeskInv

LEMMA PinKeeps ==
  ASSUME AdmissionInv, NEW d \in Deployments, Pin(d)
  PROVE  AdmissionInv'
<1> DEFINE resolved == ResolvedImage(d.image, d.fleet)
           complete == Complete(resolved, d.model, d.answers)
           image    == IF d.set # None THEN d.set ELSE resolved
           spec     == PinnedSpec(d.agent, image, d.model, d.files, d.answers)
           m        == Emitted(spec, complete)
           new      == [manifest |-> m,
                        says     |-> IF ~complete THEN "todo" ELSE IF d.set = None THEN "complete" ELSE "overridden"]
<1>1. /\ IsList(d.files) /\ IsList(d.answers) /\ None \notin DOMAIN Rank
      /\ \A i \in DOMAIN d.files : d.files[i].digest \in Digests
  BY AdmissionAssumption
<1>2. desk' = Append(desk, new) /\ UNCHANGED <<objects, cache, asserted, pod>>
  BY DEF Pin, Written
<1>3. complete => resolved.id \in Digests /\ Introspected(d.answers) = <<>> /\ d.model # None
  BY DEF Complete
<1>4. d.set = None => image = resolved
  OBVIOUS
<1>5. /\ new = [manifest |-> new.manifest, says |-> new.says] /\ new.manifest = m
      /\ new.says = IF ~complete THEN "todo" ELSE IF d.set = None THEN "complete" ELSE "overridden"
  OBVIOUS
<1> HIDE DEF resolved, image, new
<1>5a. complete \in BOOLEAN
  BY DEF Complete
<1> HIDE DEF complete
<1>6. m = Emitted(spec, complete)
  OBVIOUS
<1> HIDE DEF m
<1>7. spec = PinnedSpec(d.agent, image, d.model, d.files, d.answers)
  OBVIOUS
<1> HIDE DEF spec
<1>8. /\ IsManifest(m) /\ m.spec = spec
      /\ \A c \in Claims(spec) : c.effect = None
      /\ complete /\ Appliable(spec) => Valid(m)
      /\ /\ image.id \in Digests /\ Introspected(d.answers) = <<>>
         /\ d.model # None /\ Conforms(spec)
         => Appliable(spec)
  <2>1. PICK files, answers, agent, model, at :
          files = d.files /\ answers = d.answers /\ agent = d.agent /\ model = d.model /\ at = image
    OBVIOUS
  <2>2. PICK done \in BOOLEAN : done = complete
    BY <1>5a
  <2>3. m = Emitted(spec, done)
    BY <1>6, <2>2
  <2>4. IsList(files) /\ IsList(answers) /\ \A i \in DOMAIN files : files[i].digest \in Digests
    BY <1>1, <2>1
  <2>5. spec = PinnedSpec(agent, at, model, files, answers)
    BY <1>7, <2>1
  <2>6. IsPinned(m, spec, at, model, answers, done)
    BY <2>4, <2>5, <2>2, <2>3, Pinned, ZenonT(60)
  <2>7. QED
    BY <1>5a, <2>1, <2>6, <2>2 DEF IsPinned
<1>9. Asserted(m.spec, asserted)
  BY <1>1, <1>8 DEF Asserted
<1>10. IsAdmitted(new)
  <2>1. CASE ~complete
    BY <1>5, <2>1 DEF IsAdmitted
  <2>2. CASE complete /\ d.set = None
    <3>1. new.says = "complete"
      BY <1>5, <2>2
    <3>2. Valid(m) \/ ~Conforms(m.spec)
      BY <1>3, <1>4, <1>8, <2>2
    <3>3. QED
      BY <1>5, <3>1, <3>2 DEF IsAdmitted
  <2>3. CASE complete /\ d.set # None
    <3>1. new.says = "overridden"
      BY <1>5, <2>3
    <3>2. Valid(m) \/ ~Appliable(m.spec)
      BY <1>8, <2>3
    <3>3. QED
      BY <1>5, <3>1, <3>2 DEF IsAdmitted
  <2>4. QED
    BY <2>1, <2>2, <2>3
<1>11. IsDocument(new, asserted)
  BY <1>5, <1>8, <1>9, <1>10 DEF IsDocument
<1>12. DeskInv'
  BY <1>2, <1>11, Appended DEF AdmissionInv
<1>13. QED
  BY <1>2, <1>12, DeskStep

LEMMA TakeKeeps ==
  ASSUME AdmissionInv, NEW o \in objects, Take(o)
  PROVE  AdmissionInv'
<1> DEFINE d == [manifest |-> o, says |-> "todo"]
<1>1. IsManifest(o) /\ Asserted(o.spec, asserted)
  BY DEF AdmissionInv, ObjectsInv
<1>2. desk' = Append(desk, d) /\ UNCHANGED <<objects, cache, asserted, pod>>
  BY DEF Take, Written
<1>3. IsDocument(d, asserted)
  BY <1>1 DEF IsDocument, IsAdmitted
<1> HIDE DEF d
<1>4. DeskInv'
  BY <1>2, <1>3, Appended DEF AdmissionInv
<1>5. QED
  BY <1>2, <1>4, DeskStep

LEMMA EditKeeps ==
  ASSUME AdmissionInv, NEW i \in DOMAIN desk, NEW spec, Edit(i, spec)
  PROVE  AdmissionInv'
<1> DEFINE m == desk[i].manifest
           new == [m EXCEPT !.spec = spec]
<1>1. /\ Rewritten(i, new) /\ IsSpec(spec) /\ Claims(spec) \subseteq Claims(m.spec)
      /\ UNCHANGED <<objects, cache, asserted, pod>>
  BY DEF Edit
<1>2. IsManifest(m) /\ Asserted(m.spec, asserted)
  BY DEF AdmissionInv, DeskInv, IsDocument
<1> HIDE DEF m
<1>3. /\ new = [spec |-> new.spec, behavior |-> new.behavior, content |-> new.content, name |-> new.name]
      /\ new.spec = spec
  BY <1>2 DEF IsManifest
<1> HIDE DEF new
<1>4. IsManifest(new) /\ Asserted(new.spec, asserted')
  BY <1>1, <1>2, <1>3 DEF IsManifest, Asserted
<1>5. DeskInv'
  BY <1>1, <1>4, RewrittenKeeps DEF AdmissionInv
<1>6. QED
  BY <1>1, <1>5, DeskStep

LEMMA DisambiguateKeeps ==
  ASSUME AdmissionInv, NEW i \in DOMAIN desk, Disambiguate(i)
  PROVE  AdmissionInv'
<1> DEFINE m == desk[i].manifest
           new == [m EXCEPT !.name = DisambiguatedName(m.spec)]
<1>1. Rewritten(i, new) /\ UNCHANGED <<objects, cache, asserted, pod>>
  BY DEF Disambiguate
<1>2. IsManifest(m) /\ Asserted(m.spec, asserted)
  BY DEF AdmissionInv, DeskInv, IsDocument
<1> HIDE DEF m
<1>3. /\ new = [spec |-> new.spec, behavior |-> new.behavior, content |-> new.content, name |-> new.name]
      /\ new.spec = m.spec
  BY <1>2 DEF IsManifest
<1> HIDE DEF new
<1>4. IsManifest(new) /\ Asserted(new.spec, asserted')
  BY <1>1, <1>2, <1>3 DEF IsManifest
<1>5. DeskInv'
  BY <1>1, <1>4, RewrittenKeeps DEF AdmissionInv
<1>6. QED
  BY <1>1, <1>5, DeskStep

LEMMA PutAwayKeeps ==
  ASSUME AdmissionInv, PutAway
  PROVE  AdmissionInv'
<1>1. desk' = <<>> /\ UNCHANGED <<objects, cache, asserted, pod>>
  BY DEF PutAway
<1>2. DeskInv'
  BY <1>1, EmptyList DEF DeskInv
<1>3. QED
  BY <1>1, <1>2, DeskStep

\* Of the places in a file there is a last.
LEMMA LastPlace ==
  ASSUME NEW n \in Nat, NEW S, S \subseteq 1..n, S # {}
  PROVE  LastOf(S) \in S /\ \A j \in S : j <= LastOf(S)
<1> DEFINE T == {n - i : i \in S}
<1>1. T \subseteq Nat /\ T # {}
  <2>1. \A i \in S : n - i \in Nat
    OBVIOUS
  <2>2. T \subseteq Nat
    BY <2>1
  <2>3. T # {}
    OBVIOUS
  <2>4. QED
    BY <2>2, <2>3
<1> HIDE DEF T
<1>2. PICK t \in T : \A u \in T : <<u, t>> \notin OpToRel(<, Nat)
  BY <1>1, WFMin, NatLessThanWellFounded, Zenon
<1>3. \A u \in T : ~(u < t)
  BY <1>1, <1>2, Zenon DEF OpToRel
<1>4. PICK i \in S : t = n - i
  BY DEF T
<1>5. \A j \in S : j <= i
  <2>1. ASSUME NEW j \in S PROVE j <= i
    <3>1. n - j \in T
      BY DEF T
    <3>2. ~(n - j < n - i)
      BY <1>3, <1>4, <3>1
    <3>3. QED
      BY <3>2
  <2>2. QED
    BY <2>1
<1>6. QED
  BY <1>5 DEF LastOf

\* What a repair makes of a manifest.
LEMMA RepairedManifest ==
  ASSUME NEW m, IsManifest(m), NEW r, r = Repaired(m)
  PROVE  /\ r = [spec |-> r.spec, behavior |-> r.behavior, content |-> r.content, name |-> r.name]
         /\ r.behavior = Behavior(m.spec) /\ r.content = Content(m.spec)
         /\ r.name \in {Name(m.spec), DisambiguatedName(m.spec)}
<1> DEFINE name == IF IsDisambiguated(m) THEN DisambiguatedName(m.spec) ELSE Name(m.spec)
<1>1. r = [m EXCEPT !.behavior = Behavior(m.spec), !.content = Content(m.spec), !.name = name]
  BY DEF Repaired
<1>2. name \in {Name(m.spec), DisambiguatedName(m.spec)}
  OBVIOUS
<1> HIDE DEF name
<1>3. m = [spec |-> m.spec, behavior |-> m.behavior, content |-> m.content, name |-> m.name]
  BY DEF IsManifest
<1>4. PICK b, c : b = Behavior(m.spec) /\ c = Content(m.spec)
  OBVIOUS
<1>5. r = [m EXCEPT !.behavior = b, !.content = c, !.name = name]
  BY <1>1, <1>4
<1>6. /\ r = [spec |-> r.spec, behavior |-> r.behavior, content |-> r.content, name |-> r.name]
      /\ r.behavior = b /\ r.content = c /\ r.name = name
  BY <1>3, <1>5
<1>7. QED
  BY <1>2, <1>4, <1>6

\* What verify --write leaves of a document that has its name for itself is what
\* admission computes, unless a decision is missing.
LEMMA VerifyWriteKeeps ==
  ASSUME AdmissionInv, VerifyWrite
  PROVE  AdmissionInv'
<1>1. /\ desk' = [d \in DOMAIN desk |-> [manifest |-> Mended(d), says |-> Told(d)]]
      /\ UNCHANGED <<objects, cache, asserted, pod>>
  BY DEF VerifyWrite
<1>2. IsList(desk) /\ \A d \in DOMAIN desk : IsDocument(desk[d], asserted)
  BY DEF AdmissionInv, DeskInv
<1>3. PICK n \in Nat : DOMAIN desk = 1..n
  BY <1>2, Places
<1>4. DOMAIN desk' = 1..n /\ desk' = [d \in 1..n |-> desk'[d]]
  BY <1>1, <1>3
<1>5. IsList(desk')
  BY <1>4, Listed
<1>6. ASSUME NEW d \in DOMAIN desk PROVE IsDocument([manifest |-> Mended(d), says |-> Told(d)], asserted)
  <2> DEFINE m == desk[d].manifest
             new == [manifest |-> Mended(d), says |-> Told(d)]
  <2>1. new = [manifest |-> new.manifest, says |-> new.says] /\ new.manifest = Mended(d) /\ new.says = Told(d)
    OBVIOUS
  <2> HIDE DEF new
  <2>2. IsDocument(desk[d], asserted) /\ IsManifest(m) /\ Asserted(m.spec, asserted)
    BY <1>2 DEF IsDocument
  <2>3. CASE Wrong(d) = {}
    <3>1. Mended(d) = m /\ Told(d) = desk[d].says
      BY <2>3 DEF Mended, Told
    <3>2. QED
      BY <2>1, <2>2, <3>1 DEF IsDocument, IsAdmitted, new
  <2>4. CASE Wrong(d) # {} /\ Namesakes(d) # {d}
    <3>1. Told(d) = "namesake"
      BY <2>4 DEF Told
    <3>2. IsManifest(Mended(d)) /\ Mended(d).spec = m.spec
      <4>1. CASE d # LastOf(Namesakes(d))
        BY <2>2, <4>1 DEF Mended
      <4>2. CASE d = LastOf(Namesakes(d))
        <5> DEFINE o == desk[LastOf(Wrong(d))].manifest
                   r == Repaired(o)
        <5>1. LastOf(Wrong(d)) \in DOMAIN desk
          <6>1. Wrong(d) \subseteq 1..n
            BY <1>3 DEF Wrong, Namesakes
          <6>2. QED
            BY <1>3, <2>4, <6>1, LastPlace
        <5>2. IsManifest(o)
          BY <1>2, <5>1 DEF IsDocument
        <5> HIDE DEF o
        <5>3. r = [spec |-> r.spec, behavior |-> r.behavior, content |-> r.content, name |-> r.name]
          BY <5>2, RepairedManifest
        <5> HIDE DEF r
        <5>4. Mended(d) = [r EXCEPT !.spec = m.spec]
          BY <2>4, <4>2 DEF Mended, r, o
        <5> DEFINE q == [r EXCEPT !.spec = m.spec]
        <5>5. /\ q = [spec |-> q.spec, behavior |-> q.behavior, content |-> q.content, name |-> q.name]
              /\ q.spec = m.spec
          BY <5>3
        <5> HIDE DEF q
        <5>6. IsManifest(q)
          BY <2>2, <5>5 DEF IsManifest
        <5>7. QED
          BY <5>4, <5>5, <5>6 DEF q
      <4>3. QED
        BY <4>1, <4>2
    <3>3. QED
      BY <2>1, <2>2, <3>1, <3>2 DEF IsDocument, IsAdmitted, new
  <2>5. CASE Wrong(d) # {} /\ Namesakes(d) = {d}
    <3>1. Told(d) = "repaired"
      BY <2>5 DEF Told
    <3>2. Wrong(d) = {d}
      BY <2>5 DEF Wrong
    <3>3. LastOf({d}) = d
      <4>1. {d} \subseteq 1..n
        BY <1>3
      <4>2. QED
        BY <4>1, LastPlace
    <3> DEFINE r == Repaired(m)
               q == [r EXCEPT !.spec = m.spec]
    <3>4. Mended(d) = q
      BY <2>5, <3>2, <3>3 DEF Mended
    <3>5. /\ r = [spec |-> r.spec, behavior |-> r.behavior, content |-> r.content, name |-> r.name]
          /\ r.behavior = Behavior(m.spec) /\ r.content = Content(m.spec)
          /\ r.name \in {Name(m.spec), DisambiguatedName(m.spec)}
      BY <2>2, RepairedManifest
    <3> HIDE DEF r, m
    <3>6. /\ q = [spec |-> q.spec, behavior |-> q.behavior, content |-> q.content, name |-> q.name]
          /\ q.spec = m.spec /\ q.behavior = r.behavior /\ q.content = r.content /\ q.name = r.name
      BY <3>5
    <3> HIDE DEF q
    <3>7. IsManifest(q) /\ Asserted(q.spec, asserted)
      BY <2>2, <3>6 DEF IsManifest
    <3>8. Appliable(q.spec) => Valid(q)
      BY <3>5, <3>6 DEF Valid
    <3>9. QED
      BY <2>1, <3>1, <3>4, <3>7, <3>8 DEF IsDocument, IsAdmitted, new
  <2>6. QED
    BY <2>3, <2>4, <2>5
<1>7. ASSUME NEW d \in DOMAIN desk' PROVE IsDocument(desk'[d], asserted')
  <2>1. desk'[d] = [manifest |-> Mended(d), says |-> Told(d)]
    BY <1>1
  <2>2. QED
    BY <1>1, <1>3, <1>4, <1>6, <2>1
<1>8. DeskInv'
  BY <1>5, <1>7 DEF DeskInv
<1>9. QED
  BY <1>1, <1>8, DeskStep

\* A manifest of which an effect is asserted has every other effect as before.
LEMMA EffectAsserted ==
  ASSUME NEW m, IsManifest(m), NEW claims, Asserted(m.spec, claims),
         NEW i \in DOMAIN m.spec.tools, NEW effect,
         NEW new, new = [m EXCEPT !.spec.tools[i].effect = effect]
  PROVE  /\ IsManifest(new)
         /\ Asserted(new.spec, claims \cup {[name |-> m.spec.tools[i].name, effect |-> effect]})
<1> DEFINE spec    == m.spec
           tools   == spec.tools
           changed == [tools EXCEPT ![i].effect = effect]
           claim   == [name |-> tools[i].name, effect |-> effect]
<1>2. /\ IsSpec(spec) /\ IsList(tools)
      /\ \A k \in DOMAIN tools : tools[k] = [f \in ToolFields |-> tools[k][f]]
  BY DEF IsManifest, IsSpec
<1>3. PICK n \in Nat : DOMAIN tools = 1..n
  BY <1>2, Places
<1>4. tools = [k \in 1..n |-> tools[k]]
  BY <1>2, <1>3, Places
<1>5. DOMAIN changed = 1..n /\ changed = [k \in 1..n |-> changed[k]]
  BY <1>4
<1>6. IsList(changed)
  BY <1>5, Listed
<1>7. /\ changed[i] = [tools[i] EXCEPT !.effect = effect]
      /\ \A k \in 1..n : k # i => changed[k] = tools[k]
  BY <1>3, <1>4
<1>8. new = [m EXCEPT !.spec = [spec EXCEPT !.tools = changed]]
  BY <1>2, <1>4 DEF IsManifest, IsSpec
<1>9. ASSUME NEW k \in 1..n
      PROVE  /\ changed[k] = [f \in ToolFields |-> changed[k][f]]
             /\ changed[k].name = tools[k].name
             /\ changed[k].effect = IF k = i THEN effect ELSE tools[k].effect
  <2>1. tools[k] = [f \in ToolFields |-> tools[k][f]]
    BY <1>2, <1>3
  <2>2. CASE k = i
    <3>1. changed[k] = [tools[k] EXCEPT !.effect = effect]
      BY <1>7, <2>2
    <3> HIDE DEF changed
    <3>2. QED
      BY <2>1, <2>2, <3>1 DEF ToolFields
  <2>3. CASE k # i
    BY <1>7, <2>1, <2>3
  <2>4. QED
    BY <2>2, <2>3
<1> HIDE DEF changed
<1>10. /\ new = [spec |-> new.spec, behavior |-> new.behavior, content |-> new.content, name |-> new.name]
       /\ new.spec = [spec EXCEPT !.tools = changed]
  BY <1>8 DEF IsManifest
<1>11. IsSpec(new.spec) /\ new.spec.tools = changed
  <2>1. PICK s : s = [spec EXCEPT !.tools = changed]
    OBVIOUS
  <2>2. spec = [agent |-> spec.agent, repo |-> spec.repo, id |-> spec.id, model |-> spec.model,
                prompts |-> spec.prompts, tools |-> tools, retrieval |-> spec.retrieval,
                policy |-> spec.policy, judges |-> spec.judges]
    BY <1>2 DEF IsSpec
  <2>3. /\ s = [agent |-> s.agent, repo |-> s.repo, id |-> s.id, model |-> s.model,
                prompts |-> s.prompts, tools |-> s.tools, retrieval |-> s.retrieval,
                policy |-> s.policy, judges |-> s.judges]
        /\ s.tools = changed
        /\ s.prompts = spec.prompts /\ s.judges = spec.judges
    BY <2>1, <2>2
  <2>4. IsList(s.prompts) /\ IsList(s.judges)
    BY <1>2, <2>3 DEF IsSpec
  <2>5. \A k \in DOMAIN s.tools : s.tools[k] = [f \in ToolFields |-> s.tools[k][f]]
    BY <1>5, <1>9, <2>3
  <2>6. IsSpec(s)
    BY <1>6, <2>3, <2>4, <2>5 DEF IsSpec
  <2>7. QED
    BY <1>10, <2>1, <2>3, <2>6
<1>12. Asserted(new.spec, claims \cup {claim})
  <2>1. ASSUME NEW c \in Claims(new.spec), c.effect \in DOMAIN Rank PROVE c \in claims \cup {claim}
    <3>1. PICK k \in 1..n : c = [name |-> changed[k].name, effect |-> changed[k].effect]
      BY <1>5, <1>11 DEF Claims
    <3>2. CASE k = i
      BY <1>9, <3>1, <3>2
    <3>3. CASE k # i
      <4>1. c = [name |-> tools[k].name, effect |-> tools[k].effect]
        BY <1>9, <3>1, <3>3
      <4>2. c \in Claims(spec)
        BY <1>3, <4>1 DEF Claims
      <4>3. QED
        BY <2>1, <4>2 DEF Asserted
    <3>4. QED
      BY <3>2, <3>3
  <2>2. QED
    BY <2>1 DEF Asserted
<1>13. IsManifest(new)
  BY <1>10, <1>11 DEF IsManifest
<1>14. QED
  BY <1>12, <1>13

LEMMA AssertEffectKeeps ==
  ASSUME AdmissionInv, NEW i \in DOMAIN desk, NEW t \in DOMAIN desk[i].manifest.spec.tools,
         NEW effect, AssertEffect(i, t, effect)
  PROVE  AdmissionInv'
<1> DEFINE m == desk[i].manifest
           new == [m EXCEPT !.spec.tools[t].effect = effect]
<1>1. /\ Rewritten(i, new) /\ asserted' = asserted \cup {[name |-> m.spec.tools[t].name, effect |-> effect]}
      /\ objects' = objects /\ cache' = cache /\ pod' = pod
  BY DEF AssertEffect
<1>2. IsManifest(m) /\ Asserted(m.spec, asserted) /\ t \in DOMAIN m.spec.tools
  BY DEF AdmissionInv, DeskInv, IsDocument
<1> HIDE DEF m
<1>3. IsManifest(new) /\ Asserted(new.spec, asserted')
  <2>1. new = [m EXCEPT !.spec.tools[t].effect = effect]
    OBVIOUS
  <2> HIDE DEF new
  <2>2. IsManifest(new) /\ Asserted(new.spec, asserted \cup {[name |-> m.spec.tools[t].name, effect |-> effect]})
    BY <1>2, <2>1, EffectAsserted, ZenonT(60)
  <2>3. QED
    BY <1>1, <2>2
<1> HIDE DEF new
<1>4. asserted \subseteq asserted'
  BY <1>1
<1>5. DeskInv'
  BY <1>1, <1>3, <1>4, RewrittenKeeps DEF AdmissionInv
<1>6. ObjectsInv'
  BY <1>1, <1>4 DEF AdmissionInv, ObjectsInv, Asserted
<1>7. PodInv'
  <2>1. ASSUME pod # None PROVE IsPod(pod, asserted')
    BY <1>1, <1>4, <2>1 DEF AdmissionInv, PodInv, IsPod, IsRecorder
  <2>2. QED
    BY <1>1, <2>1 DEF PodInv
<1>8. QED
  BY <1>5, <1>6, <1>7 DEF AdmissionInv

LEMMA CreateKeeps ==
  ASSUME AdmissionInv, NEW i \in DOMAIN desk, Create(desk[i].manifest)
  PROVE  AdmissionInv'
<1> DEFINE m == desk[i].manifest
<1>1. /\ Valid(m) /\ Named(objects, m.name) = {} /\ objects' = objects \cup {m}
      /\ desk' = desk /\ cache' = cache /\ asserted' = asserted /\ pod' = pod
  BY DEF Create
<1>2. IsManifest(m) /\ Asserted(m.spec, asserted)
  BY DEF AdmissionInv, DeskInv, IsDocument
<1> HIDE DEF m
<1>3. ObjectsInv'
  <2>1. \A o \in objects : o.name # m.name
    BY <1>1 DEF Named
  <2>2. QED
    BY <1>1, <1>2, <2>1 DEF AdmissionInv, ObjectsInv
<1>4. DeskInv' /\ PodInv'
  BY <1>1 DEF AdmissionInv, DeskInv, PodInv
<1>5. QED
  BY <1>3, <1>4 DEF AdmissionInv

\* An object less, or a cache that has caught up.
LEMMA FewerObjectsKeep ==
  ASSUME AdmissionInv, objects' \subseteq objects, cache' \subseteq objects \cup cache,
         UNCHANGED <<desk, asserted, pod>>
  PROVE  AdmissionInv'
<1>1. ObjectsInv'
  BY DEF AdmissionInv, ObjectsInv
<1>2. DeskInv' /\ PodInv'
  BY DEF AdmissionInv, DeskInv, PodInv
<1>3. QED
  BY <1>1, <1>2 DEF AdmissionInv

-----------------------------------------------------------------------------
(* The pod.                                                                *)

\* What the tools of an admitted manifest may do is part of the behaviour it is
\* named for.
LEMMA ClaimsOfValid ==
  ASSUME NEW o, IsManifest(o), Valid(o)
  PROVE  /\ o.name.behavior = o.behavior
         /\ Claims(o.spec) = {[name |-> n, effect |-> o.behavior.tools[n][1].effect] :
                                n \in DOMAIN o.behavior.tools}
         /\ \A c \in Claims(o.spec) : c.effect \in DOMAIN Rank
<1> DEFINE tools == o.spec.tools
           hashed == o.behavior.tools
<1>1. /\ Unique(tools) /\ IsList(tools)
      /\ \A i \in DOMAIN tools : tools[i].effect \in DOMAIN Rank
      /\ o.behavior = Behavior(o.spec)
      /\ o.name \in {Name(o.spec), DisambiguatedName(o.spec)}
  BY DEF Valid, Appliable, NoNamesakes, IsManifest, IsSpec
<1>2. o.name.behavior = o.behavior
  BY <1>1 DEF Name, DisambiguatedName
<1>3. hashed = [n \in Names(tools) |-> [k \in {1} |-> [f \in ToolFields |-> LastNamed(tools, n)[f]]]]
  <2>1. hashed = ByName(tools, ToolFields)
    BY <1>1 DEF Behavior
  <2> HIDE DEF hashed, tools
  <2>2. ByName(tools, ToolFields) =
          [n \in Names(tools) |-> [k \in {1} |-> [f \in ToolFields |-> LastNamed(tools, n)[f]]]]
    BY <1>1, ByNameWithoutNamesakes
  <2>3. QED
    BY <2>1, <2>2
<1> HIDE DEF hashed
<1>4. ASSUME NEW i \in DOMAIN tools
      PROVE  tools[i].name \in DOMAIN hashed /\ hashed[tools[i].name][1].effect = tools[i].effect
  <2>1. tools[i].name \in Names(tools)
    BY DEF Names
  <2>2. LastNamed(tools, tools[i].name) = tools[i]
    BY <1>1, OneOfAName
  <2>3. hashed[tools[i].name] = [k \in {1} |-> [f \in ToolFields |-> tools[i][f]]]
    BY <1>3, <2>1, <2>2
  <2>4. QED
    BY <1>3, <2>1, <2>3 DEF ToolFields
<1>5. ASSUME NEW n \in DOMAIN hashed PROVE \E i \in DOMAIN tools : tools[i].name = n
  BY <1>3, <1>5 DEF Names
<1>6. Claims(o.spec) = {[name |-> n, effect |-> hashed[n][1].effect] : n \in DOMAIN hashed}
  BY <1>4, <1>5 DEF Claims
<1>7. \A c \in Claims(o.spec) : c.effect \in DOMAIN Rank
  BY <1>1 DEF Claims
<1>8. QED
  BY <1>2, <1>6, <1>7 DEF hashed
\* A recorder that is injected states and enforces what it may.
LEMMA RecorderStates ==
  ASSUME AdmissionInv, NEW p, p.url \in {None, "provider"}, Injectable(p)
  PROVE  IsRecorder(Recorder(p), p.manifest, asserted)
<1> DEFINE r == Recorder(p)
           o == CHOOSE x \in Identity(p) : TRUE
<1>1. None # "recorder"
  BY AdmissionAssumption
<1>2. r.upstream # "recorder"
  BY <1>1 DEF Recorder, Upstream
<1>3. ASSUME NEW x \in Identity(p)
      PROVE  /\ p.manifest # None
             /\ x.behavior = p.manifest.behavior
             /\ Claims(x.spec) = {[name |-> n, effect |-> p.manifest.behavior.tools[n][1].effect] :
                                    n \in DOMAIN p.manifest.behavior.tools}
             /\ Claims(x.spec) \subseteq asserted
  <2>1. p.manifest # None /\ x \in cache /\ x.name = p.manifest
    BY <1>3 DEF Identity, Named
  <2>2. IsManifest(x) /\ Valid(x) /\ Asserted(x.spec, asserted)
    BY <2>1 DEF AdmissionInv, ObjectsInv
  <2>3. x.behavior = p.manifest.behavior
    BY <2>1, <2>2, ClaimsOfValid
  <2>4. /\ Claims(x.spec) = {[name |-> n, effect |-> x.behavior.tools[n][1].effect] :
                               n \in DOMAIN x.behavior.tools}
        /\ \A c \in Claims(x.spec) : c.effect \in DOMAIN Rank
    BY <2>2, ClaimsOfValid
  <2>5. Claims(x.spec) \subseteq asserted
    BY <2>2, <2>4 DEF Asserted
  <2>6. QED
    BY <2>1, <2>3, <2>4, <2>5
<1>4. /\ r.behavior = IF Identity(p) = {} THEN None ELSE o.behavior
      /\ r.shadow = p.shadow
      /\ r.effects = IF p.shadow THEN Effects(p) ELSE {}
  BY DEF Recorder
<1> HIDE DEF r
<1>5. ASSUME r.behavior # None PROVE p.manifest # None /\ r.behavior = p.manifest.behavior
  <2>1. Identity(p) # {}
    BY <1>4, <1>5
  <2>2. o \in Identity(p)
    BY <2>1
  <2> HIDE DEF o
  <2>3. QED
    BY <1>3, <1>4, <2>1, <2>2
<1> HIDE DEF o
<1> DEFINE enforced == {[name |-> n, effect |-> p.manifest.behavior.tools[n][1].effect] :
                          n \in DOMAIN p.manifest.behavior.tools}
<1>6. ASSUME p.shadow PROVE r.effects = enforced /\ r.effects \subseteq asserted
  <2>1. r.effects = UNION {Claims(x.spec) : x \in Identity(p)} /\ r.effects # {}
    BY <1>4, <1>6 DEF Effects, Injectable
  <2>2. \A x \in Identity(p) : Claims(x.spec) = enforced /\ Claims(x.spec) \subseteq asserted
    BY <1>3
  <2> HIDE DEF enforced
  <2>3. QED
    BY <2>1, <2>2
<1>7. ASSUME ~p.shadow PROVE r.effects = {}
  BY <1>4, <1>7
<1>8. AsNamed(r, p.manifest)
  BY <1>4, <1>5, <1>6 DEF AsNamed
<1>9. r.effects \subseteq asserted
  BY <1>6, <1>7
<1>10. QED
  BY <1>2, <1>8, <1>9 DEF IsRecorder, r

\* However often a pod passes, it is injected once.
LEMMA DefaultedIsPod ==
  ASSUME AdmissionInv, NEW p, IsPod(p, asserted)
  PROVE  IsPod(Defaulted(p), asserted)
<1>1. p = [f \in PodFields |-> p[f]]
  BY DEF IsPod
<1>2. CASE ~p.optIn \/ p.injected \/ HasRecorder(p)
  BY <1>2 DEF Defaulted
<1>3. CASE ~(~p.optIn \/ p.injected \/ HasRecorder(p)) /\ ~Injectable(p)
  <2>1. Defaulted(p) = [p EXCEPT !.skipped = TRUE]
    BY <1>3 DEF Defaulted
  <2> DEFINE q == Defaulted(p)
  <2>2. /\ q = [f \in PodFields |-> q[f]] /\ q.url = p.url /\ q.injected = p.injected
        /\ q.recorders = p.recorders /\ q.manifest = p.manifest
    BY <1>1, <2>1 DEF PodFields
  <2> HIDE DEF q
  <2>3. IsPod(q, asserted)
    BY <2>2 DEF IsPod
  <2>4. QED
    BY <2>3 DEF q
<1>4. CASE ~(~p.optIn \/ p.injected \/ HasRecorder(p)) /\ Injectable(p)
  <2> DEFINE q == Defaulted(p)
             r == Recorder(p)
  <2>1. p.recorders = <<>> /\ p.url \in {None, "provider"}
    BY <1>4 DEF IsPod, HasRecorder
  <2>2. IsRecorder(r, p.manifest, asserted)
    BY <1>4, <2>1, RecorderStates
  <2> HIDE DEF r
  <2>3. q = [p EXCEPT !.url       = IF Upstream(p) = None THEN @ ELSE "recorder",
                      !.recorders = Append(@, r),
                      !.injected  = TRUE]
    BY <1>4 DEF Defaulted, r
  <2> HIDE DEF q
  <2>4. /\ q = [f \in PodFields |-> q[f]] /\ q.url \in {p.url, "recorder"}
        /\ q.recorders = Append(p.recorders, r) /\ q.manifest = p.manifest
    BY <1>1, <2>3 DEF PodFields
  <2>5. Append(<<>>, r) = <<r>> /\ <<r>> # <<>>
    OBVIOUS
  <2>6. q.recorders = <<r>> /\ q.recorders # <<>>
    BY <2>1, <2>4, <2>5
  <2>7. q.recorders = <<q.recorders[1]>> /\ q.recorders[1] = r
    BY <2>6
  <2>8. q.url \in {None, "provider", "recorder"}
    BY <2>1, <2>4
  <2>9. IsPod(q, asserted)
    BY <2>2, <2>4, <2>6, <2>7, <2>8 DEF IsPod
  <2>10. QED
    BY <2>9 DEF q
<1>5. QED
  BY <1>2, <1>3, <1>4

\* A step of the pod alone.
LEMMA PodStep ==
  ASSUME AdmissionInv, pod' # None => IsPod(pod', asserted),
         UNCHANGED <<desk, objects, cache, asserted>>
  PROVE  AdmissionInv'
<1>1. PodInv'
  BY DEF PodInv
<1>2. DeskInv' /\ ObjectsInv'
  BY DEF AdmissionInv, DeskInv, ObjectsInv
<1>3. QED
  BY <1>1, <1>2 DEF AdmissionInv

LEMMA CreatePodKeeps ==
  ASSUME AdmissionInv, NEW p \in PodSpecs, NEW name, CreatePod(p, name)
  PROVE  AdmissionInv'
<1>1. p = [f \in PodFields |-> p[f]] /\ p.recorders = <<>> /\ ~p.injected /\ p.url \in {None, "provider"}
  BY AdmissionAssumption
<1>2. None # "recorder"
  BY AdmissionAssumption
<1>3. pod' = [p EXCEPT !.manifest = name]
  BY DEF CreatePod
<1>4. /\ pod' = [f \in PodFields |-> pod'[f]]
      /\ pod'.recorders = <<>> /\ ~pod'.injected /\ pod'.url \in {None, "provider"}
  BY <1>1, <1>3 DEF PodFields
<1>5. IsPod(pod', asserted)
  BY <1>2, <1>4 DEF IsPod
<1>6. QED
  BY <1>5, PodStep DEF CreatePod

LEMMA DefaultKeeps ==
  ASSUME AdmissionInv, Default
  PROVE  AdmissionInv'
<1>1. pod # None /\ pod' = Defaulted(pod) /\ UNCHANGED <<desk, objects, cache, asserted>>
  BY DEF Default
<1>2. IsPod(pod, asserted)
  BY <1>1 DEF AdmissionInv, PodInv
<1>3. IsPod(pod', asserted)
  BY <1>1, <1>2, DefaultedIsPod
<1>4. QED
  BY <1>1, <1>3, PodStep

LEMMA RecreateKeeps ==
  ASSUME AdmissionInv, Recreate
  PROVE  AdmissionInv'
<1>1. pod # None /\ pod' = [pod EXCEPT !.injected = FALSE]
  BY DEF Recreate
<1>2. IsPod(pod, asserted)
  BY <1>1 DEF AdmissionInv, PodInv
<1>3. /\ pod' = [f \in PodFields |-> pod'[f]] /\ ~pod'.injected
      /\ pod'.url = pod.url /\ pod'.recorders = pod.recorders /\ pod'.manifest = pod.manifest
  BY <1>1, <1>2 DEF IsPod, PodFields
<1>4. IsPod(pod', asserted)
  BY <1>2, <1>3 DEF IsPod
<1>5. QED
  BY <1>4, PodStep DEF Recreate
-----------------------------------------------------------------------------
(* What a diff lists.                                                      *)

LEMMA SameByName ==
  ASSUME NEW A, NEW B, IsList(A), IsList(B), Unique(A), Unique(B), NEW fields
  PROVE  ByName(A, fields) = ByName(B, fields) <=>
           /\ Names(A) = Names(B)
           /\ \A n \in Names(A) : \A f \in fields : LastNamed(A, n)[f] = LastNamed(B, n)[f]
<1> DEFINE Hashed(list, n) == [k \in {1} |-> [f \in fields |-> LastNamed(list, n)[f]]]
<1>1. ByName(A, fields) = [n \in Names(A) |-> Hashed(A, n)]
  BY ByNameWithoutNamesakes
<1>2. ByName(B, fields) = [n \in Names(B) |-> Hashed(B, n)]
  BY ByNameWithoutNamesakes
<1>3. ASSUME NEW n
      PROVE  Hashed(A, n) = Hashed(B, n) <=> \A f \in fields : LastNamed(A, n)[f] = LastNamed(B, n)[f]
  <2>1. Hashed(A, n)[1] = [f \in fields |-> LastNamed(A, n)[f]]
    OBVIOUS
  <2>2. Hashed(B, n)[1] = [f \in fields |-> LastNamed(B, n)[f]]
    OBVIOUS
  <2>3. ASSUME \A f \in fields : LastNamed(A, n)[f] = LastNamed(B, n)[f] PROVE Hashed(A, n) = Hashed(B, n)
    <3>1. [f \in fields |-> LastNamed(A, n)[f]] = [f \in fields |-> LastNamed(B, n)[f]]
      BY <2>3
    <3>2. QED
      BY <3>1
  <2>4. ASSUME Hashed(A, n) = Hashed(B, n), NEW f \in fields PROVE LastNamed(A, n)[f] = LastNamed(B, n)[f]
    <3>1. Hashed(A, n)[1][f] = Hashed(B, n)[1][f]
      BY <2>4
    <3> HIDE DEF Hashed
    <3>2. QED
      BY <2>1, <2>2, <3>1
  <2>5. QED
    BY <2>3, <2>4
<1> HIDE DEF Hashed
<1>4. ASSUME ByName(A, fields) = ByName(B, fields)
      PROVE  Names(A) = Names(B) /\ \A n \in Names(A) : Hashed(A, n) = Hashed(B, n)
  <2>1. Names(A) = Names(B)
    BY <1>1, <1>2, <1>4
  <2>2. ASSUME NEW n \in Names(A) PROVE Hashed(A, n) = Hashed(B, n)
    <3>1. ByName(A, fields)[n] = Hashed(A, n) /\ ByName(B, fields)[n] = Hashed(B, n)
      BY <1>1, <1>2, <2>1
    <3>2. QED
      BY <1>4, <3>1
  <2>3. QED
    BY <2>1, <2>2
<1>5. ASSUME Names(A) = Names(B), \A n \in Names(A) : Hashed(A, n) = Hashed(B, n)
      PROVE  ByName(A, fields) = ByName(B, fields)
  BY <1>1, <1>2, <1>5
<1>6. QED
  BY <1>3, <1>4, <1>5

\* The name a change is listed under is that of the element.
LEMMA NameOfLast ==
  ASSUME NEW list, IsList(list), Unique(list), NEW n \in Names(list)
  PROVE  LastNamed(list, n).name = n /\ \E i \in DOMAIN list : list[i].name = n /\ LastNamed(list, n) = list[i]
<1>1. PICK i \in DOMAIN list : list[i].name = n
  BY DEF Names
<1>2. LastNamed(list, n) = list[i]
  BY <1>1, OneOfAName
<1>3. QED
  BY <1>1, <1>2

LEMMA PromptChanges ==
  ASSUME NEW a, NEW b, IsList(a.prompts), IsList(b.prompts), Unique(a.prompts), Unique(b.prompts)
  PROVE  LET same(fields) == ByName(a.prompts, fields) = ByName(b.prompts, fields)
             listed == ComparePrompts(a, b)
         IN  /\ same({"name", "digest", "source"}) => listed = {}
             /\ same({"name", "digest"}) => \A c \in listed : c.tags = {}
             /\ ~same({"name", "digest"}) => \E c \in listed : c.tags # {}
<1> DEFINE A == a.prompts
           B == b.prompts
           Moved(p) == {Change("prompts", p.name, None, {"input"})}
           Changed(p, q) == Scalar("prompts", p.name, None, p.digest, q.digest, {"input"})
                            \cup Scalar("prompts", p.name, "source", p.source, q.source, {})
           Of(n) == IF n \notin Names(A) THEN Moved(LastNamed(B, n))
                    ELSE IF n \notin Names(B) THEN Moved(LastNamed(A, n))
                    ELSE Changed(LastNamed(A, n), LastNamed(B, n))
           same(fields) == ByName(A, fields) = ByName(B, fields)
           listed == ComparePrompts(a, b)
<1>1. listed = UNION {Of(n) : n \in Names(A) \cup Names(B)}
  BY DEF ComparePrompts, Elements
<1>2. \A n : n \in Names(A) \cap Names(B) => Of(n) = Changed(LastNamed(A, n), LastNamed(B, n))
  OBVIOUS
<1> HIDE DEF listed, Changed
<1>3. ASSUME same({"name", "digest"}), NEW c \in listed PROVE c.tags = {}
  <2>1. /\ Names(A) = Names(B)
        /\ \A n \in Names(A) : \A f \in {"name", "digest"} : LastNamed(A, n)[f] = LastNamed(B, n)[f]
    BY <1>3, SameByName
  <2>2. PICK n \in Names(A) : c \in Changed(LastNamed(A, n), LastNamed(B, n))
    BY <1>1, <1>2, <2>1
  <2>3. LastNamed(A, n).digest = LastNamed(B, n).digest
    BY <2>1
  <2>4. QED
    BY <2>2, <2>3 DEF Changed, Scalar, Change
<1>4. ASSUME same({"name", "digest", "source"}) PROVE listed = {}
  <2>1. /\ Names(A) = Names(B)
        /\ \A n \in Names(A) : \A f \in {"name", "digest", "source"} :
             LastNamed(A, n)[f] = LastNamed(B, n)[f]
    BY <1>4, SameByName
  <2>2. ASSUME NEW n \in Names(A) PROVE Changed(LastNamed(A, n), LastNamed(B, n)) = {}
    <3>1. /\ LastNamed(A, n).digest = LastNamed(B, n).digest
          /\ LastNamed(A, n).source = LastNamed(B, n).source
      BY <2>1
    <3>2. QED
      BY <3>1 DEF Changed, Scalar
  <2>3. ASSUME NEW c \in listed PROVE FALSE
    BY <1>1, <1>2, <2>1, <2>2
  <2>4. QED
    BY <2>3
<1>5. ASSUME ~same({"name", "digest"}) PROVE \E c \in listed : c.tags # {}
  <2>1. CASE Names(A) # Names(B)
    <3>1. PICK n \in Names(A) \cup Names(B) : n \notin Names(A) \/ n \notin Names(B)
      BY <2>1
    <3>2. PICK p : Of(n) = Moved(p)
      BY <3>1
    <3> HIDE DEF Of
    <3>3. Change("prompts", p.name, None, {"input"}) \in listed
      BY <1>1, <3>2
    <3>4. Change("prompts", p.name, None, {"input"}).tags # {}
      BY DEF Change
    <3>5. QED
      BY <3>3, <3>4
  <2>2. CASE Names(A) = Names(B)
    <3>1. PICK n \in Names(A) :
            ~\A f \in {"name", "digest"} : LastNamed(A, n)[f] = LastNamed(B, n)[f]
      BY <1>5, <2>2, SameByName
    <3>2. LastNamed(A, n).name = LastNamed(B, n).name
      BY <2>2, NameOfLast
    <3>3. LastNamed(A, n).digest # LastNamed(B, n).digest
      BY <3>1, <3>2
    <3> DEFINE c == Change("prompts", LastNamed(A, n).name, None, {"input"})
    <3>4. c \in Changed(LastNamed(A, n), LastNamed(B, n))
      BY <3>3 DEF Changed, Scalar
    <3>5. c \in listed
      BY <1>1, <1>2, <2>2, <3>4
    <3>6. c.tags # {}
      BY DEF Change
    <3>7. QED
      BY <3>5, <3>6
  <2>3. QED
    BY <2>1, <2>2
<1> HIDE DEF same
<1>6. QED
  BY <1>3, <1>4, <1>5 DEF listed, same
LEMMA RankIsNat == \A e : RankOf(e) \in Nat
BY DEF RankOf, Rank

\* Whether a tool writes, as the properties ask it.
Writes(s, t) == \E i \in DOMAIN s.tools : s.tools[i].name = t /\ RankOf(s.tools[i].effect) > 0

LEMMA ToolChanges ==
  ASSUME NEW a, NEW b, IsList(a.tools), IsList(b.tools), Unique(a.tools), Unique(b.tools)
  PROVE  LET same == ByName(a.tools, ToolFields) = ByName(b.tools, ToolFields)
             listed == CompareTools(a, b)
         IN  /\ same => listed = {}
             /\ ~same => \E c \in listed : c.tags # {}
             /\ \A t \in Names(b.tools) : Writes(b, t) /\ ~Writes(a, t) =>
                  \E c \in listed : c.element = t /\ Severe(c)
<1> DEFINE A == a.tools
           B == b.tools
           Added(t)   == {Change("tools", t.name, None, {"input"} \cup IF RankOf(t.effect) > 0 THEN {"security"} ELSE {})}
           Removed(t) == {Change("tools", t.name, None, {"input"})}
           Contract(t, u) == Scalar("tools", t.name, "contract", t.contract, u.contract, {"input", "security"})
           Effect(t, u) == Scalar("tools", t.name, "effect", t.effect, u.effect,
                                  {"exec"} \cup IF RankOf(u.effect) > RankOf(t.effect) THEN {"security"} ELSE {})
           Server(t, u) == Scalar("tools", t.name, "server", t.server, u.server, {"exec", "security"})
           Policy(t, u) == Scalar("tools", t.name, "replayPolicy", t.replay, u.replay, {"exec"})
           Changed(t, u) == Contract(t, u) \cup Effect(t, u) \cup Server(t, u) \cup Policy(t, u)
           Of(n) == IF n \notin Names(A) THEN Added(LastNamed(B, n))
                    ELSE IF n \notin Names(B) THEN Removed(LastNamed(A, n))
                    ELSE Changed(LastNamed(A, n), LastNamed(B, n))
           same == ByName(A, ToolFields) = ByName(B, ToolFields)
           listed == CompareTools(a, b)
<1>1. listed = UNION {Of(n) : n \in Names(A) \cup Names(B)}
  BY DEF CompareTools, Elements
<1>2. \A n : n \in Names(A) \cap Names(B) => Of(n) = Changed(LastNamed(A, n), LastNamed(B, n))
  OBVIOUS
<1>3. \A n : n \in Names(B) \ Names(A) => Of(n) = Added(LastNamed(B, n))
  OBVIOUS
<1>4. \A n : n \in Names(A) \ Names(B) => Of(n) = Removed(LastNamed(A, n))
  OBVIOUS
<1> HIDE DEF listed, Of
<1>5. ASSUME NEW t, NEW u
      PROVE  /\ /\ t.contract = u.contract /\ t.effect = u.effect
                /\ t.server = u.server /\ t.replay = u.replay
                => Changed(t, u) = {}
             /\ \/ t.contract # u.contract \/ t.effect # u.effect
                \/ t.server # u.server \/ t.replay # u.replay
                => \E c \in Changed(t, u) : c.tags # {}
             /\ RankOf(u.effect) > 0 /\ ~(RankOf(t.effect) > 0)
                => \E c \in Changed(t, u) : c.element = t.name /\ Severe(c)
  <2>1. /\ t.contract = u.contract /\ t.effect = u.effect
        /\ t.server = u.server /\ t.replay = u.replay
        => Changed(t, u) = {}
    BY DEF Scalar
  <2>2. t.contract # u.contract => Change("tools", t.name, "contract", {"input", "security"}) \in Changed(t, u)
    BY DEF Scalar
  <2> DEFINE wider == {"exec"} \cup IF RankOf(u.effect) > RankOf(t.effect) THEN {"security"} ELSE {}
  <2>3. t.effect # u.effect => Change("tools", t.name, "effect", wider) \in Changed(t, u)
    BY DEF Scalar
  <2>4. t.server # u.server => Change("tools", t.name, "server", {"exec", "security"}) \in Changed(t, u)
    BY DEF Scalar
  <2>5. t.replay # u.replay => Change("tools", t.name, "replayPolicy", {"exec"}) \in Changed(t, u)
    BY DEF Scalar
  <2>6. \A e, f, tags : Change("tools", e, f, tags).tags = tags /\ Change("tools", e, f, tags).element = e
    BY DEF Change
  <2>7. "exec" \in wider
    OBVIOUS
  <2>8. RankOf(u.effect) > 0 /\ ~(RankOf(t.effect) > 0) => t.effect # u.effect /\ "security" \in wider
    <3>1. RankOf(u.effect) \in Nat /\ RankOf(t.effect) \in Nat
      BY RankIsNat
    <3>2. RankOf(u.effect) > 0 /\ ~(RankOf(t.effect) > 0) => RankOf(u.effect) > RankOf(t.effect)
      BY <3>1
    <3>3. RankOf(u.effect) > 0 /\ ~(RankOf(t.effect) > 0) => t.effect # u.effect
      OBVIOUS
    <3>4. QED
      BY <3>2, <3>3
  <2> HIDE DEF Changed, wider
  <2>9. \/ t.contract # u.contract \/ t.effect # u.effect
        \/ t.server # u.server \/ t.replay # u.replay
        => \E c \in Changed(t, u) : c.tags # {}
    BY <2>2, <2>3, <2>4, <2>5, <2>6, <2>7
  <2>10. RankOf(u.effect) > 0 /\ ~(RankOf(t.effect) > 0)
         => \E c \in Changed(t, u) : c.element = t.name /\ Severe(c)
    BY <2>3, <2>6, <2>8 DEF Severe
  <2>11. QED
    BY <2>1, <2>9, <2>10
<1> HIDE DEF Changed
<1>6. \A t : \E c \in Added(t) :
        c.tags # {} /\ c.element = t.name /\ (RankOf(t.effect) > 0 => Severe(c))
  BY DEF Change, Severe
<1>7. \A t : \E c \in Removed(t) : c.tags # {}
  BY DEF Change
<1> HIDE DEF Added, Removed
<1>8. ASSUME same PROVE listed = {}
  <2>1. /\ Names(A) = Names(B)
        /\ \A n \in Names(A) : \A f \in ToolFields : LastNamed(A, n)[f] = LastNamed(B, n)[f]
    BY <1>8, SameByName
  <2>2. ASSUME NEW n \in Names(A) PROVE Changed(LastNamed(A, n), LastNamed(B, n)) = {}
    <3>1. /\ LastNamed(A, n).contract = LastNamed(B, n).contract
          /\ LastNamed(A, n).effect = LastNamed(B, n).effect
          /\ LastNamed(A, n).server = LastNamed(B, n).server
          /\ LastNamed(A, n).replay = LastNamed(B, n).replay
      BY <2>1 DEF ToolFields
    <3>2. QED
      BY <1>5, <3>1
  <2>3. ASSUME NEW c \in listed PROVE FALSE
    BY <1>1, <1>2, <2>1, <2>2
  <2>4. QED
    BY <2>3
<1>9. ASSUME ~same PROVE \E c \in listed : c.tags # {}
  <2>1. CASE Names(A) # Names(B)
    <3>1. PICK n \in Names(A) \cup Names(B) : n \notin Names(A) \/ n \notin Names(B)
      BY <2>1
    <3>2. \E c \in Of(n) : c.tags # {}
      BY <1>3, <1>4, <1>6, <1>7, <3>1
    <3>3. QED
      BY <1>1, <3>2
  <2>2. CASE Names(A) = Names(B)
    <3>1. PICK n \in Names(A) : ~\A f \in ToolFields : LastNamed(A, n)[f] = LastNamed(B, n)[f]
      BY <1>9, <2>2, SameByName
    <3>2. LastNamed(A, n).name = LastNamed(B, n).name
      BY <2>2, NameOfLast
    <3>3. \/ LastNamed(A, n).contract # LastNamed(B, n).contract
          \/ LastNamed(A, n).effect # LastNamed(B, n).effect
          \/ LastNamed(A, n).server # LastNamed(B, n).server
          \/ LastNamed(A, n).replay # LastNamed(B, n).replay
      BY <3>1, <3>2 DEF ToolFields
    <3>4. \E c \in Changed(LastNamed(A, n), LastNamed(B, n)) : c.tags # {}
      BY <1>5, <3>3
    <3>5. QED
      BY <1>1, <1>2, <2>2, <3>4
  <2>3. QED
    BY <2>1, <2>2
<1>10. ASSUME NEW n \in Names(B), Writes(b, n), ~Writes(a, n)
       PROVE  \E c \in listed : c.element = n /\ Severe(c)
  <2>1. LastNamed(B, n).name = n
    BY NameOfLast
  <2>2. RankOf(LastNamed(B, n).effect) > 0
    <3>1. PICK i \in DOMAIN B : B[i].name = n /\ RankOf(B[i].effect) > 0
      BY <1>10 DEF Writes
    <3>2. QED
      BY <3>1, OneOfAName
  <2>3. CASE n \notin Names(A)
    <3>1. Of(n) = Added(LastNamed(B, n))
      BY <1>3, <2>3
    <3>2. QED
      BY <1>1, <1>6, <2>1, <2>2, <3>1
  <2>4. CASE n \in Names(A)
    <3>1. PICK i \in DOMAIN A : A[i].name = n /\ LastNamed(A, n) = A[i]
      BY <2>4, NameOfLast
    <3>2. LastNamed(A, n).name = n /\ ~(RankOf(LastNamed(A, n).effect) > 0)
      BY <1>10, <3>1 DEF Writes
    <3>3. \E c \in Changed(LastNamed(A, n), LastNamed(B, n)) : c.element = n /\ Severe(c)
      BY <1>5, <2>2, <3>2
    <3>4. QED
      BY <1>1, <1>2, <2>4, <3>3
  <2>5. QED
    BY <2>3, <2>4
<1> HIDE DEF same
<1>11. QED
  BY <1>8, <1>9, <1>10 DEF listed, same
JudgeFields    == {"name", "model", "rubric"}
EvidenceFields == {"name", "model", "rubric", "kappa", "gold", "at"}

LEMMA JudgeChanges ==
  ASSUME NEW a, NEW b, IsList(a.judges), IsList(b.judges), Unique(a.judges), Unique(b.judges)
  PROVE  LET same(fields) == ByName(a.judges, fields) = ByName(b.judges, fields)
             listed == CompareJudges(a, b)
         IN  /\ same(EvidenceFields) => listed = {}
             /\ same(JudgeFields) => \A c \in listed : c.tags = {}
             /\ ~same(JudgeFields) => \E c \in listed : c.tags # {}
<1> DEFINE A == a.judges
           B == b.judges
           Moved(j) == {Change("judges", j.name, None, {"gate"})}
           Model(j, k)  == Scalar("judges", j.name, "model", j.model, k.model, {"gate"})
           Rubric(j, k) == Scalar("judges", j.name, "rubric", j.rubric, k.rubric, {"gate"})
           Kappa(j, k)  == IF j.model # k.model \/ j.rubric # k.rubric
                           THEN IF StaleCalibration(j, k) THEN {Change("judges", j.name, "calibration", {"gate"})} ELSE {}
                           ELSE Scalar("judges", j.name, "kappa", Shown(j.kappa), Shown(k.kappa), {})
           Changed(j, k) == Model(j, k) \cup Rubric(j, k) \cup Kappa(j, k)
           Of(n) == IF n \notin Names(A) THEN Moved(LastNamed(B, n))
                    ELSE IF n \notin Names(B) THEN Moved(LastNamed(A, n))
                    ELSE Changed(LastNamed(A, n), LastNamed(B, n))
           same(fields) == ByName(A, fields) = ByName(B, fields)
           listed == CompareJudges(a, b)
<1>1. listed = UNION {Of(n) : n \in Names(A) \cup Names(B)}
  BY DEF CompareJudges, Elements
<1>2. \A n : n \in Names(A) \cap Names(B) => Of(n) = Changed(LastNamed(A, n), LastNamed(B, n))
  OBVIOUS
<1>3. \A n : n \notin Names(A) \/ n \notin Names(B) => \E j : Of(n) = Moved(j)
  OBVIOUS
<1>4. \A j : \E c \in Moved(j) : c.tags # {}
  BY DEF Change
<1> HIDE DEF listed, Of
<1>5. ASSUME NEW j, NEW k, j.model = k.model, j.rubric = k.rubric
      PROVE  /\ \A c \in Changed(j, k) : c.tags = {}
             /\ j.kappa = k.kappa => Changed(j, k) = {}
  <2>1. Model(j, k) = {} /\ Rubric(j, k) = {} /\ Kappa(j, k) = Scalar("judges", j.name, "kappa", Shown(j.kappa), Shown(k.kappa), {})
    BY <1>5 DEF Scalar
  <2> HIDE DEF Model, Rubric, Kappa
  <2>2. QED
    BY <2>1 DEF Scalar, Change
<1>6. ASSUME NEW j, NEW k, j.model # k.model \/ j.rubric # k.rubric
      PROVE  \E c \in Changed(j, k) : c.tags # {}
  <2>1. \/ Change("judges", j.name, "model", {"gate"}) \in Model(j, k)
        \/ Change("judges", j.name, "rubric", {"gate"}) \in Rubric(j, k)
    BY <1>6 DEF Scalar
  <2>2. \A f : Change("judges", j.name, f, {"gate"}).tags # {}
    BY DEF Change
  <2> HIDE DEF Model, Rubric, Kappa
  <2>3. QED
    BY <2>1, <2>2
<1> HIDE DEF Changed, Moved
<1>7. ASSUME same(JudgeFields), NEW c \in listed PROVE c.tags = {}
  <2>1. /\ Names(A) = Names(B)
        /\ \A n \in Names(A) : \A f \in JudgeFields : LastNamed(A, n)[f] = LastNamed(B, n)[f]
    BY <1>7, SameByName
  <2>2. PICK n \in Names(A) : c \in Changed(LastNamed(A, n), LastNamed(B, n))
    BY <1>1, <1>2, <2>1
  <2>3. LastNamed(A, n).model = LastNamed(B, n).model /\ LastNamed(A, n).rubric = LastNamed(B, n).rubric
    BY <2>1 DEF JudgeFields
  <2>4. QED
    BY <1>5, <2>2, <2>3
<1>8. ASSUME same(EvidenceFields) PROVE listed = {}
  <2>1. /\ Names(A) = Names(B)
        /\ \A n \in Names(A) : \A f \in EvidenceFields : LastNamed(A, n)[f] = LastNamed(B, n)[f]
    BY <1>8, SameByName
  <2>2. ASSUME NEW n \in Names(A) PROVE Changed(LastNamed(A, n), LastNamed(B, n)) = {}
    <3>1. /\ LastNamed(A, n).model = LastNamed(B, n).model
          /\ LastNamed(A, n).rubric = LastNamed(B, n).rubric
          /\ LastNamed(A, n).kappa = LastNamed(B, n).kappa
      BY <2>1 DEF EvidenceFields
    <3>2. QED
      BY <1>5, <3>1
  <2>3. ASSUME NEW c \in listed PROVE FALSE
    BY <1>1, <1>2, <2>1, <2>2
  <2>4. QED
    BY <2>3
<1>9. ASSUME ~same(JudgeFields) PROVE \E c \in listed : c.tags # {}
  <2>1. CASE Names(A) # Names(B)
    <3>1. PICK n \in Names(A) \cup Names(B) : n \notin Names(A) \/ n \notin Names(B)
      BY <2>1
    <3>2. \E c \in Of(n) : c.tags # {}
      BY <1>3, <1>4, <3>1
    <3>3. QED
      BY <1>1, <3>2
  <2>2. CASE Names(A) = Names(B)
    <3>1. PICK n \in Names(A) : ~\A f \in JudgeFields : LastNamed(A, n)[f] = LastNamed(B, n)[f]
      BY <1>9, <2>2, SameByName
    <3>2. LastNamed(A, n).name = LastNamed(B, n).name
      BY <2>2, NameOfLast
    <3>3. LastNamed(A, n).model # LastNamed(B, n).model \/ LastNamed(A, n).rubric # LastNamed(B, n).rubric
      BY <3>1, <3>2 DEF JudgeFields
    <3>4. \E c \in Changed(LastNamed(A, n), LastNamed(B, n)) : c.tags # {}
      BY <1>6, <3>3
    <3>5. QED
      BY <1>1, <1>2, <2>2, <3>4
  <2>3. QED
    BY <2>1, <2>2
<1> HIDE DEF same
<1>10. QED
  BY <1>7, <1>8, <1>9 DEF listed, same

-----------------------------------------------------------------------------
(* The verdict.                                                            *)

Alike(d, e) == d # e /\ Shown(d) = Shown(e)

\* The changes of the fields that are not lists.
LEMMA FieldChanges ==
  ASSUME NEW a, NEW b
  PROVE  LET model     == Scalar("model", None, "model", Shown(a.model), Shown(b.model), {"model"})
             retrieval == Scalar("retrieval", None, "retrieval", a.retrieval, b.retrieval, {"input"})
             policy    == Scalar("policy", None, "bundleDigest", Shown(a.policy), Shown(b.policy), {"exec", "security"})
         IN  /\ a.model = b.model => model = {}
             /\ a.model # b.model => (\E c \in model : c.tags # {}) \/ Alike(a.model, b.model)
             /\ a.retrieval = b.retrieval => retrieval = {}
             /\ a.retrieval # b.retrieval => \E c \in retrieval : c.tags # {}
             /\ a.policy = b.policy => policy = {}
             /\ a.policy # b.policy => (\E c \in policy : c.tags # {}) \/ Alike(a.policy, b.policy)
             /\ a.repo = b.repo /\ a.id = b.id => CompareCode(a, b) = {}
             /\ ImageID(a) = ImageID(b) => \A c \in CompareCode(a, b) : c.tags = {}
             /\ ImageID(a) # ImageID(b) => (\E c \in CompareCode(a, b) : c.tags # {}) \/ Alike(a.id, b.id)
<1>1. ASSUME NEW plane, NEW field, NEW x, NEW y, NEW tags
      PROVE  /\ x = y => Scalar(plane, None, field, x, y, tags) = {}
             /\ x # y /\ tags # {} => \E c \in Scalar(plane, None, field, x, y, tags) : c.tags # {}
             /\ \A c \in Scalar(plane, None, field, x, y, tags) : c.tags = tags
  <2>1. Change(plane, None, field, tags).tags = tags
    BY DEF Change
  <2>2. Scalar(plane, None, field, x, y, tags) = IF x = y THEN {} ELSE {Change(plane, None, field, tags)}
    BY DEF Scalar
  <2>3. QED
    BY <2>1, <2>2
<1>2. {"model"} # {} /\ {"input"} # {} /\ {"exec", "security"} # {} /\ {"exec"} # {}
  OBVIOUS
<1>3. a.repo = b.repo /\ a.id = b.id => CompareCode(a, b) = {}
  BY <1>1 DEF CompareCode
<1>4. ImageID(a) = ImageID(b) => \A c \in CompareCode(a, b) : c.tags = {}
  BY <1>1 DEF CompareCode
<1>5. ASSUME ImageID(a) # ImageID(b), ~Alike(a.id, b.id) PROVE \E c \in CompareCode(a, b) : c.tags # {}
  <2>1. <<a.repo, Shown(a.id)>> # <<b.repo, Shown(b.id)>>
    <3>1. Shown(a.id) = Shown(b.id) => a.id = b.id
      BY <1>5 DEF Alike
    <3>2. ~(a.repo = b.repo /\ a.id = b.id)
      BY <1>5 DEF ImageID
    <3>3. QED
      BY <3>1, <3>2
  <2>2. CompareCode(a, b) = Scalar("code", None, "image", <<a.repo, Shown(a.id)>>, <<b.repo, Shown(b.id)>>, {"exec"})
    BY <1>5 DEF CompareCode
  <2>3. QED
    BY <1>1, <1>2, <2>1, <2>2
<1>6. \A d, e : d # e /\ ~Alike(d, e) => Shown(d) # Shown(e)
  BY DEF Alike
<1>7. QED
  BY <1>1, <1>2, <1>3, <1>4, <1>5, <1>6
LEMMA SameBehavior ==
  ASSUME NEW a, NEW b
  PROVE  Behavior(a) = Behavior(b) <=>
           /\ a.agent = b.agent /\ ImageID(a) = ImageID(b) /\ a.model = b.model
           /\ ByName(a.prompts, {"name", "digest"}) = ByName(b.prompts, {"name", "digest"})
           /\ ByName(a.tools, ToolFields) = ByName(b.tools, ToolFields)
           /\ a.retrieval = b.retrieval /\ a.policy = b.policy
           /\ ByName(a.judges, JudgeFields) = ByName(b.judges, JudgeFields)
BY DEF Behavior, JudgeFields

LEMMA SameContent ==
  ASSUME NEW a, NEW b, Content(a) = Content(b)
  PROVE  /\ a.repo = b.repo /\ a.id = b.id
         /\ ByName(a.prompts, {"name", "digest", "source"}) = ByName(b.prompts, {"name", "digest", "source"})
         /\ ByName(a.judges, EvidenceFields) = ByName(b.judges, EvidenceFields)
<1>1. \A s : /\ Content(s).image = <<s.repo, s.id>>
             /\ Content(s).prompts = ByName(s.prompts, {"name", "digest", "source"})
             /\ Content(s).judges = ByName(s.judges, EvidenceFields)
  BY DEF Content, Behavior, EvidenceFields
<1>2. <<a.repo, a.id>> = <<b.repo, b.id>>
  BY <1>1
<1>3. a.repo = b.repo /\ a.id = b.id
  BY <1>2
<1>4. QED
  BY <1>1, <1>3

\* The verdict and the list tell one story of any two specs.
IsStory(a, b, verdict) ==
  CASE verdict = "behavioural" ->
         /\ \/ \E c \in Compare(a, b) : c.tags # {}
            \/ Alike(a.id, b.id) \/ Alike(a.policy, b.policy) \/ Alike(a.model, b.model)
            \/ a.agent # b.agent
         /\ \A t \in Names(b.tools) : Writes(b, t) /\ ~Writes(a, t) =>
              \E c \in Compare(a, b) : c.element = t /\ Severe(c)
    [] verdict = "provenance-only" -> \A c \in Compare(a, b) : c.tags = {}
    [] verdict = "identical" -> Compare(a, b) = {}
    [] OTHER -> TRUE

LEMMA Explained ==
  ASSUME NEW a, NEW b, IsSpec(a), IsSpec(b), NoNamesakes(a), NoNamesakes(b), NEW force \in BOOLEAN
  PROVE  IsStory(a, b, Verdict(a, b, force))
<1> DEFINE listed    == Compare(a, b)
           model     == Scalar("model", None, "model", Shown(a.model), Shown(b.model), {"model"})
           retrieval == Scalar("retrieval", None, "retrieval", a.retrieval, b.retrieval, {"input"})
           policy    == Scalar("policy", None, "bundleDigest", Shown(a.policy), Shown(b.policy), {"exec", "security"})
<1>1. /\ IsList(a.prompts) /\ IsList(b.prompts) /\ Unique(a.prompts) /\ Unique(b.prompts)
      /\ IsList(a.tools) /\ IsList(b.tools) /\ Unique(a.tools) /\ Unique(b.tools)
      /\ IsList(a.judges) /\ IsList(b.judges) /\ Unique(a.judges) /\ Unique(b.judges)
  BY DEF IsSpec, NoNamesakes
<1>2. listed = CompareCode(a, b) \cup model \cup ComparePrompts(a, b) \cup CompareTools(a, b)
               \cup retrieval \cup policy \cup CompareJudges(a, b)
  BY DEF Compare
<1>3. /\ a.model = b.model => model = {}
      /\ a.model # b.model => (\E c \in model : c.tags # {}) \/ Alike(a.model, b.model)
      /\ a.retrieval = b.retrieval => retrieval = {}
      /\ a.retrieval # b.retrieval => \E c \in retrieval : c.tags # {}
      /\ a.policy = b.policy => policy = {}
      /\ a.policy # b.policy => (\E c \in policy : c.tags # {}) \/ Alike(a.policy, b.policy)
      /\ a.repo = b.repo /\ a.id = b.id => CompareCode(a, b) = {}
      /\ ImageID(a) = ImageID(b) => \A c \in CompareCode(a, b) : c.tags = {}
      /\ ImageID(a) # ImageID(b) => (\E c \in CompareCode(a, b) : c.tags # {}) \/ Alike(a.id, b.id)
  BY FieldChanges
<1> HIDE DEF listed, model, retrieval, policy
<1> DEFINE sources == ByName(a.prompts, {"name", "digest", "source"}) = ByName(b.prompts, {"name", "digest", "source"})
           prompts == ByName(a.prompts, {"name", "digest"}) = ByName(b.prompts, {"name", "digest"})
           tools   == ByName(a.tools, ToolFields) = ByName(b.tools, ToolFields)
           judges  == ByName(a.judges, JudgeFields) = ByName(b.judges, JudgeFields)
           evidence == ByName(a.judges, EvidenceFields) = ByName(b.judges, EvidenceFields)
<1>4. /\ sources => ComparePrompts(a, b) = {}
      /\ prompts => \A c \in ComparePrompts(a, b) : c.tags = {}
      /\ ~prompts => \E c \in ComparePrompts(a, b) : c.tags # {}
  BY <1>1, PromptChanges
<1>5. /\ tools => CompareTools(a, b) = {}
      /\ ~tools => \E c \in CompareTools(a, b) : c.tags # {}
      /\ \A t \in Names(b.tools) : Writes(b, t) /\ ~Writes(a, t) =>
           \E c \in CompareTools(a, b) : c.element = t /\ Severe(c)
  BY <1>1, ToolChanges
<1>6. /\ evidence => CompareJudges(a, b) = {}
      /\ judges => \A c \in CompareJudges(a, b) : c.tags = {}
      /\ ~judges => \E c \in CompareJudges(a, b) : c.tags # {}
  BY <1>1, JudgeChanges
<1>7. Behavior(a) = Behavior(b) <=>
        /\ a.agent = b.agent /\ ImageID(a) = ImageID(b) /\ a.model = b.model
        /\ prompts /\ tools /\ a.retrieval = b.retrieval /\ a.policy = b.policy /\ judges
  BY SameBehavior
<1>8. Content(a) = Content(b) => a.repo = b.repo /\ a.id = b.id /\ sources /\ evidence
  BY SameContent
<1> HIDE DEF sources, prompts, tools, judges, evidence
<1>9. ASSUME Verdict(a, b, force) = "behavioural" PROVE IsStory(a, b, "behavioural")
  <2>1. Behavior(a) # Behavior(b)
    BY <1>9 DEF Verdict
  <2>2. \/ \E c \in listed : c.tags # {}
        \/ Alike(a.id, b.id) \/ Alike(a.policy, b.policy) \/ Alike(a.model, b.model)
        \/ a.agent # b.agent
    BY <1>2, <1>3, <1>4, <1>5, <1>6, <1>7, <2>1
  <2>3. ASSUME NEW t \in Names(b.tools), Writes(b, t), ~Writes(a, t)
        PROVE  \E c \in listed : c.element = t /\ Severe(c)
    BY <1>2, <1>5, <2>3
  <2>4. QED
    BY <2>2, <2>3 DEF IsStory, listed
<1>10. ASSUME Verdict(a, b, force) = "provenance-only", NEW c \in listed PROVE c.tags = {}
  <2>1. Behavior(a) = Behavior(b)
    BY <1>10 DEF Verdict
  <2>2. model = {} /\ retrieval = {} /\ policy = {} /\ CompareTools(a, b) = {}
    BY <1>3, <1>5, <1>7, <2>1
  <2>3. c \in CompareCode(a, b) \/ c \in ComparePrompts(a, b) \/ c \in CompareJudges(a, b)
    BY <1>2, <1>10, <2>2
  <2>4. QED
    BY <1>3, <1>4, <1>6, <1>7, <2>1, <2>3
<1>11. ASSUME Verdict(a, b, force) = "identical" PROVE listed = {}
  <2>1. Behavior(a) = Behavior(b) /\ Content(a) = Content(b)
    BY <1>11 DEF Verdict
  <2>2. /\ CompareCode(a, b) = {} /\ model = {} /\ ComparePrompts(a, b) = {} /\ CompareTools(a, b) = {}
        /\ retrieval = {} /\ policy = {} /\ CompareJudges(a, b) = {}
    BY <1>3, <1>4, <1>5, <1>6, <1>7, <1>8, <2>1
  <2>3. QED
    BY <1>2, <2>2
<1>12. Verdict(a, b, force) \in {"cross-agent", "behavioural", "provenance-only", "identical"}
  BY DEF Verdict
<1>13. QED
  BY <1>9, <1>10, <1>11, <1>12 DEF IsStory, listed

-----------------------------------------------------------------------------
(* The theorems.                                                           *)

LEMMA AdmissionInvInductive ==
  /\ Init => AdmissionInv
  /\ AdmissionInv /\ [Next]_vars => AdmissionInv'
<1>1. ASSUME Init PROVE AdmissionInv
  <2>1. desk = <<>> /\ objects = {} /\ cache = {} /\ pod = None
    BY <1>1 DEF Init
  <2>2. DeskInv
    BY <2>1, EmptyList DEF DeskInv
  <2>3. QED
    BY <2>1, <2>2 DEF AdmissionInv, ObjectsInv, PodInv
<1>2. ASSUME AdmissionInv, Next PROVE AdmissionInv'
  <2>1. ASSUME NEW d \in Deployments, Pin(d) PROVE AdmissionInv'
    BY <1>2, <2>1, PinKeeps
  <2>2. ASSUME NEW o \in objects, Take(o) PROVE AdmissionInv'
    BY <1>2, <2>2, TakeKeeps
  <2>3. ASSUME NEW o \in objects, Delete(o) PROVE AdmissionInv'
    BY <1>2, <2>3, FewerObjectsKeep DEF Delete
  <2>4. ASSUME NEW i \in DOMAIN desk, NEW spec, Edit(i, spec) PROVE AdmissionInv'
    BY <1>2, <2>4, EditKeeps
  <2>5. ASSUME NEW i \in DOMAIN desk, NEW t \in DOMAIN desk[i].manifest.spec.tools,
               NEW effect \in DOMAIN Rank, AssertEffect(i, t, effect)
        PROVE  AdmissionInv'
    BY <1>2, <2>5, AssertEffectKeeps
  <2>6. ASSUME NEW i \in DOMAIN desk, Disambiguate(i) \/ Create(desk[i].manifest) PROVE AdmissionInv'
    BY <1>2, <2>6, DisambiguateKeeps, CreateKeeps
  <2>7. ASSUME NEW p \in PodSpecs, NEW name, CreatePod(p, name) PROVE AdmissionInv'
    BY <1>2, <2>7, CreatePodKeeps
  <2>8. ASSUME Sync PROVE AdmissionInv'
    BY <1>2, <2>8, FewerObjectsKeep DEF Sync
  <2>9. ASSUME Gone PROVE AdmissionInv'
    BY <1>2, <2>9, PodStep DEF Gone
  <2>10. VerifyWrite \/ PutAway \/ Default \/ Recreate => AdmissionInv'
    BY <1>2, VerifyWriteKeeps, PutAwayKeeps, DefaultKeeps, RecreateKeeps
  <2>11. QED
    BY <1>2, <2>1, <2>2, <2>3, <2>4, <2>5, <2>6, <2>7, <2>8, <2>9, <2>10 DEF Next
<1>3. ASSUME AdmissionInv, UNCHANGED vars PROVE AdmissionInv'
  BY <1>3 DEF vars, AdmissionInv, DeskInv, ObjectsInv, PodInv
<1>4. QED
  BY <1>1, <1>2, <1>3

LEMMA AdmissionInvHolds == Spec => []AdmissionInv
<1>1. Init => AdmissionInv
  BY AdmissionInvInductive
<1>2. AdmissionInv /\ [Next]_vars => AdmissionInv'
  BY AdmissionInvInductive
<1>3. QED
  BY <1>1, <1>2, PTL DEF Spec

\* The file, the objects and the pod are of their types, objects are valid and
\* have each a name of their own, and a pod marked as injected has its recorder.
THEOREM AdmissionTypeCorrect == Spec => []TypeOK
<1>1. AdmissionInv => TypeOK
  <2>1. ASSUME AdmissionInv, pod # None
        PROVE  pod.url \in {None, "provider", "recorder"} /\ (pod.injected => pod.recorders # <<>>)
    BY <2>1 DEF AdmissionInv, PodInv, IsPod
  <2>2. ASSUME AdmissionInv, NEW m \in Manifests PROVE IsSpec(m.spec)
    BY <2>2 DEF AdmissionInv, DeskInv, IsDocument, ObjectsInv, Manifests, IsManifest
  <2>3. ASSUME AdmissionInv
        PROVE  /\ IsList(desk)
               /\ \A i \in DOMAIN desk :
                    desk[i].says \in {"todo", "complete", "overridden", "repaired", "namesake"}
               /\ \A o \in objects : Valid(o)
               /\ \A o, q \in objects : o.name = q.name => o = q
    BY <2>3 DEF AdmissionInv, DeskInv, IsDocument, ObjectsInv
  <2>4. QED
    BY <2>1, <2>2, <2>3 DEF TypeOK
<1>2. QED
  BY <1>1, AdmissionInvHolds, PTL

\* A document that pin calls complete is admitted as it is, but for a name the
\* schema refuses; one that verify --write repaired is, unless it needs a decision
\* or shared its name with another: whatever file the documents stand in, pin,
\* verify and admission agree about their digests and names.
THEOREM FinishedManifestsAreAdmitted == Spec => []FinishedIsAdmitted
<1>1. AdmissionInv => FinishedIsAdmitted
  BY DEF AdmissionInv, DeskInv, IsDocument, FinishedIsAdmitted
<1>2. QED
  BY <1>1, AdmissionInvHolds, PTL

\* A recorder states the behaviour its pod's manifest is named for and enforces
\* that behaviour's effects, however old the copy the injector read.
THEOREM RecordersAreNamed == Spec => []RecordedAsNamed
<1>1. ASSUME AdmissionInv PROVE RecordedAsNamed
  <2>1. ASSUME pod # None, NEW i \in DOMAIN pod.recorders PROVE AsNamed(pod.recorders[i], pod.manifest)
    <3>1. IsPod(pod, asserted)
      BY <1>1, <2>1 DEF AdmissionInv, PodInv
    <3>2. pod.recorders # <<>>
      BY <2>1
    <3>3. pod.recorders = <<pod.recorders[1]>> /\ IsRecorder(pod.recorders[1], pod.manifest, asserted)
      BY <3>1, <3>2 DEF IsPod
    <3>4. i = 1
      BY <2>1, <3>3
    <3>5. QED
      BY <3>3, <3>4 DEF IsRecorder
  <2>2. QED
    BY <2>1 DEF RecordedAsNamed, AsNamed
<1>2. QED
  BY <1>1, AdmissionInvHolds, PTL

\* A shadow pod suppresses writes by effects an operator asserted, by whatever
\* files, objects and copies they reached the recorder.
THEOREM EffectsAreTheOperators == Spec => []EffectsAreAsserted
<1>1. ASSUME AdmissionInv PROVE EffectsAreAsserted
  <2>1. ASSUME pod # None, NEW i \in DOMAIN pod.recorders PROVE pod.recorders[i].effects \subseteq asserted
    <3>1. IsPod(pod, asserted)
      BY <1>1, <2>1 DEF AdmissionInv, PodInv
    <3>2. pod.recorders # <<>>
      BY <2>1
    <3>3. pod.recorders = <<pod.recorders[1]>> /\ IsRecorder(pod.recorders[1], pod.manifest, asserted)
      BY <3>1, <3>2 DEF IsPod
    <3>4. i = 1
      BY <2>1, <3>3
    <3>5. QED
      BY <3>3, <3>4 DEF IsRecorder
  <2>2. QED
    BY <2>1 DEF EffectsAreAsserted
<1>2. QED
  BY <1>1, AdmissionInvHolds, PTL

\* However often the injector is called for a pod, and however often the pod is
\* created anew, it has one recorder, which does not stand behind itself.
THEOREM RecorderIsOne == Spec => []OneRecorder
<1>1. ASSUME AdmissionInv PROVE OneRecorder
  <2>1. ASSUME pod # None
        PROVE  Len(pod.recorders) <= 1 /\ \A i \in DOMAIN pod.recorders : pod.recorders[i].upstream # "recorder"
    <3>1. IsPod(pod, asserted)
      BY <1>1, <2>1 DEF AdmissionInv, PodInv
    <3>2. CASE pod.recorders = <<>>
      BY <3>2
    <3>3. CASE pod.recorders # <<>>
      <4>1. pod.recorders = <<pod.recorders[1]>> /\ IsRecorder(pod.recorders[1], pod.manifest, asserted)
        BY <3>1, <3>3 DEF IsPod
      <4>2. PICK r : pod.recorders = <<r>> /\ IsRecorder(r, pod.manifest, asserted)
        BY <4>1
      <4>3. QED
        BY <4>2 DEF IsRecorder
    <3>4. QED
      BY <3>2, <3>3
  <2>2. QED
    BY <2>1 DEF OneRecorder
<1>2. QED
  BY <1>1, AdmissionInvHolds, PTL

\* The verdict of a diff, forced or not, and the changes listed under it tell one
\* story of any two manifests in the file or in the cluster; what differs and is
\* listed under nothing are values that read alike and, if forced, the agents.
THEOREM VerdictsAreExplained == Spec => []VerdictIsExplained
<1>1. ASSUME AdmissionInv PROVE VerdictIsExplained
  <2>1. ASSUME NEW m \in Manifests PROVE IsSpec(m.spec)
    BY <1>1, <2>1 DEF AdmissionInv, DeskInv, IsDocument, ObjectsInv, Manifests, IsManifest
  <2> DEFINE Specs == {m.spec : m \in Manifests}
  <2>2. ASSUME NEW a \in Specs, NEW b \in Specs, NoNamesakes(a), NoNamesakes(b), NEW force \in BOOLEAN
        PROVE  IsStory(a, b, Verdict(a, b, force))
    <3>1. IsSpec(a) /\ IsSpec(b)
      BY <2>1
    <3>2. QED
      BY <2>2, <3>1, Explained
  <2> HIDE DEF Specs
  <2>3. \A a, b \in Specs : NoNamesakes(a) /\ NoNamesakes(b) =>
          \A verdict \in {Verdict(a, b, force) : force \in BOOLEAN} : IsStory(a, b, verdict)
    BY <2>2
  <2>4. QED
    BY <2>3 DEF VerdictIsExplained, IsStory, Alike, Writes, Specs
<1>2. QED
  BY <1>1, AdmissionInvHolds, PTL
=============================================================================
