------------------------------ MODULE Manifest ------------------------------
(***************************************************************************)
(* An AgentManifest: the projections its two digests are taken of, the     *)
(* name derived from them, what `waveoff verify` and the admission webhook *)
(* hold against it, and what `waveoff diff` says of two of them.           *)
(*                                                                         *)
(* A digest is the projection it hashes: SHA-256 is taken to be free of    *)
(* collisions, at the 12 and 8 digits a name keeps of it as well.          *)
(***************************************************************************)
EXTENDS Naturals, Sequences, FiniteSets

CONSTANTS
  Digests,     \* what pins bytes: of an image, a prompt, a contract, a bundle
  Short,       \* what a diff abbreviates or formats -> the text it shows
  Conforming,  \* the agent names the schema of the CRD lets by
  None

\* A spec is [agent, repo, id, model, prompts, tools, retrieval, policy, judges].
\* Its image is repo and id, a digest or a tag; model stands for the provider,
\* the identifier and the sampling parameters; the three lists hold
\*   [name, digest, source], [name, server, contract, effect, replay] and
\*   [name, model, rubric, kappa, gold, at].
\* A manifest is a spec, the two digests and the name it states.

Names(list) == {list[i].name : i \in DOMAIN list}

\* The elements of a list at some of its places, in order.
Nth(places, k) == CHOOSE i \in places : Cardinality({j \in places : j <= i}) = k

Kept(list, places) == [k \in 1..Cardinality(places) |-> list[Nth(places, k)]]

\* Lists are sorted by name where they are hashed, and the order of namesakes
\* stays.
ByName(list, fields) ==
  [n \in Names(list) |->
     LET named == Kept(list, {i \in DOMAIN list : list[i].name = n})
     IN  [k \in DOMAIN named |-> [f \in fields |-> named[k][f]]]]

-----------------------------------------------------------------------------
(* The two digests.                                                        *)

\* The registry an image comes from does not enter its identity; an image that
\* is not pinned has only its whole reference.
ImageID(s) == IF s.id \in Digests THEN s.id ELSE <<s.repo, s.id>>

ToolFields == {"name", "server", "contract", "effect", "replay"}

\* What a file has to decode to.
IsList(list) ==
  LET n == Cardinality(DOMAIN list) IN n \in Nat /\ list = [i \in 1..n |-> list[i]]

IsSpec(s) ==
  /\ s = [agent |-> s.agent, repo |-> s.repo, id |-> s.id, model |-> s.model, prompts |-> s.prompts,
          tools |-> s.tools, retrieval |-> s.retrieval, policy |-> s.policy, judges |-> s.judges]
  /\ IsList(s.prompts) /\ IsList(s.tools) /\ IsList(s.judges)
  /\ \A i \in DOMAIN s.tools : s.tools[i] = [f \in ToolFields |-> s.tools[i][f]]

Behavior(s) ==
  [agent     |-> s.agent,
   image     |-> ImageID(s),
   model     |-> s.model,
   prompts   |-> ByName(s.prompts, {"name", "digest"}),
   tools     |-> ByName(s.tools, ToolFields),
   retrieval |-> s.retrieval,
   policy    |-> s.policy,
   judges    |-> ByName(s.judges, {"name", "model", "rubric"})]

Content(s) ==
  [Behavior(s) EXCEPT
     !.image   = <<s.repo, s.id>>,
     !.prompts = ByName(s.prompts, {"name", "digest", "source"}),
     !.judges  = ByName(s.judges, {"name", "model", "rubric", "kappa", "gold", "at"})]

-----------------------------------------------------------------------------
(* Names, verify and validation.                                           *)

Name(s)              == [agent |-> s.agent, behavior |-> Behavior(s), content |-> None]
DisambiguatedName(s) == [Name(s) EXCEPT !.content = Content(s)]

\* Any suffix counts for verify; admission wants the right one.
IsDisambiguated(m) == m.name # None /\ m.name.content # None /\ [m.name EXCEPT !.content = None] = Name(m.spec)

\* check(): verify has nothing to report.
Checks(m) ==
  /\ m.behavior = Behavior(m.spec)
  /\ m.content = Content(m.spec)
  /\ m.name = Name(m.spec) \/ IsDisambiguated(m)

\* Mutant: a repair keeps the name the operator gave.
RepairedInPlace(m) == [m EXCEPT !.behavior = Behavior(m.spec), !.content = Content(m.spec)]

\* verify --write, of one document: a disambiguation the operator chose is kept.
Repaired(m) ==
  [m EXCEPT !.behavior = Behavior(m.spec),
            !.content  = Content(m.spec),
            !.name     = IF IsDisambiguated(m) THEN DisambiguatedName(m.spec) ELSE Name(m.spec)]

Rank == [x \in {"read", "idempotent-write", "write"} |->
           CASE x = "read" -> 0 [] x = "idempotent-write" -> 1 [] x = "write" -> 2]

Unique(list) == \A i, j \in DOMAIN list : list[i].name = list[j].name => i = j

NoNamesakes(s) == Unique(s.tools) /\ Unique(s.prompts) /\ Unique(s.judges)

\* What the API server's schema asks of names: pin takes an agent's from its
\* Deployment and a prompt's from its file, and neither it nor verify looks.
Conforms(s) == s.agent \in Conforming /\ None \notin Names(s.prompts)

\* The rest of the schema, which holds before any webhook is called.
Schema(s) ==
  /\ s.model # None
  /\ s.policy \in Digests \cup {None}
  /\ \A i \in DOMAIN s.prompts : s.prompts[i].digest \in Digests
  /\ \A i \in DOMAIN s.tools : s.tools[i].name # None /\ s.tools[i].contract \in Digests
  /\ \A i \in DOMAIN s.judges :
       /\ s.judges[i].name # None /\ s.judges[i].model # None
       /\ s.judges[i].rubric \in Digests /\ s.judges[i].gold \in Digests \cup {None}

\* What no digest can mend: a spec the schema refuses, a tag for an image, a tool
\* nobody classified, a name given twice.
Appliable(s) ==
  /\ Conforms(s) /\ Schema(s)
  /\ s.id \in Digests
  /\ \A i \in DOMAIN s.tools : s.tools[i].effect \in DOMAIN Rank
  /\ NoNamesakes(s)

Valid(m) ==
  /\ Appliable(m.spec)
  /\ m.behavior = Behavior(m.spec) /\ m.content = Content(m.spec)
  /\ m.name \in {Name(m.spec), DisambiguatedName(m.spec)}

-----------------------------------------------------------------------------
(* waveoff diff.                                                           *)

Change(plane, element, field, tags) == [plane |-> plane, element |-> element, field |-> field, tags |-> tags]

Scalar(plane, element, field, x, y, tags) == IF x = y THEN {} ELSE {Change(plane, element, field, tags)}

\* What is abbreviated or formatted is compared as it is shown: four digits of a
\* digest, a number without its last zeros (1, 10 and 100 all read 1), a list
\* without its quotes.
Shown(x) == IF x \in DOMAIN Short THEN Short[x] ELSE x

CompareCode(a, b) ==
  Scalar("code", None, "image", <<a.repo, Shown(a.id)>>, <<b.repo, Shown(b.id)>>,
         IF ImageID(a) = ImageID(b) THEN {} ELSE {"exec"})

\* Of namesakes in one list, the last is compared.
LastNamed(list, n) ==
  list[CHOOSE i \in DOMAIN list :
         list[i].name = n /\ \A j \in DOMAIN list : list[j].name = n => j <= i]

\* The changes of two lists: of an element that only one has, and of one both
\* have, as the three operators say.
Elements(a, b, Added(_), Removed(_), Changed(_, _)) ==
  UNION {IF n \notin Names(a) THEN Added(LastNamed(b, n))
         ELSE IF n \notin Names(b) THEN Removed(LastNamed(a, n))
         ELSE Changed(LastNamed(a, n), LastNamed(b, n)) : n \in Names(a) \cup Names(b)}

ComparePrompts(a, b) ==
  LET Moved(p)     == {Change("prompts", p.name, None, {"input"})}
      Changed(p, q) == Scalar("prompts", p.name, None, p.digest, q.digest, {"input"})
                       \cup Scalar("prompts", p.name, "source", p.source, q.source, {})
  IN  Elements(a.prompts, b.prompts, Moved, Moved, Changed)

RankOf(effect) == IF effect \in DOMAIN Rank THEN Rank[effect] ELSE 0

\* A new writer, a rewritten contract, another server and a wider effect are
\* security events.
CompareTools(a, b) ==
  LET Added(t)   == {Change("tools", t.name, None, {"input"} \cup IF RankOf(t.effect) > 0 THEN {"security"} ELSE {})}
      Removed(t) == {Change("tools", t.name, None, {"input"})}
      Changed(t, u) ==
        Scalar("tools", t.name, "contract", t.contract, u.contract, {"input", "security"})
        \cup Scalar("tools", t.name, "effect", t.effect, u.effect,
                    {"exec"} \cup IF RankOf(u.effect) > RankOf(t.effect) THEN {"security"} ELSE {})
        \cup Scalar("tools", t.name, "server", t.server, u.server, {"exec", "security"})
        \cup Scalar("tools", t.name, "replayPolicy", t.replay, u.replay, {"exec"})
  IN  Elements(a.tools, b.tools, Added, Removed, Changed)

\* The agreement with the gold set was measured of the judge that went before.
StaleCalibration(j, k) == k.at = None \/ (j.at # None /\ k.at <= j.at)

CompareJudges(a, b) ==
  LET Moved(j) == {Change("judges", j.name, None, {"gate"})}
      Changed(j, k) ==
        Scalar("judges", j.name, "model", j.model, k.model, {"gate"})
        \cup Scalar("judges", j.name, "rubric", j.rubric, k.rubric, {"gate"})
        \cup IF j.model # k.model \/ j.rubric # k.rubric
             THEN IF StaleCalibration(j, k) THEN {Change("judges", j.name, "calibration", {"gate"})} ELSE {}
             ELSE Scalar("judges", j.name, "kappa", Shown(j.kappa), Shown(k.kappa), {})
  IN  Elements(a.judges, b.judges, Moved, Moved, Changed)

\* Mutant: the server of a tool is taken for an address.
CompareWithoutServers(a, b) ==
  CompareCode(a, b)
  \cup Scalar("model", None, "model", Shown(a.model), Shown(b.model), {"model"})
  \cup ComparePrompts(a, b)
  \cup {c \in CompareTools(a, b) : c.field # "server"}
  \cup Scalar("retrieval", None, "retrieval", a.retrieval, b.retrieval, {"input"})
  \cup Scalar("policy", None, "bundleDigest", Shown(a.policy), Shown(b.policy), {"exec", "security"})
  \cup CompareJudges(a, b)

Compare(a, b) ==
  CompareCode(a, b)
  \cup Scalar("model", None, "model", Shown(a.model), Shown(b.model), {"model"})
  \cup ComparePrompts(a, b)
  \cup CompareTools(a, b)
  \cup Scalar("retrieval", None, "retrieval", a.retrieval, b.retrieval, {"input"})
  \cup Scalar("policy", None, "bundleDigest", Shown(a.policy), Shown(b.policy), {"exec", "security"})
  \cup CompareJudges(a, b)

\* --force compares two agents anyway.
Verdict(a, b, force) ==
  IF a.agent # b.agent /\ ~force THEN "cross-agent"
  ELSE IF Behavior(a) # Behavior(b) THEN "behavioural"
  ELSE IF Content(a) # Content(b) THEN "provenance-only"
  ELSE "identical"

Severe(c) == c.tags \cap {"security", "gate"} # {}
=============================================================================
