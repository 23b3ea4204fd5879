---------------------------- MODULE MCAdmission ----------------------------
(***************************************************************************)
(* Deployments that leave nothing to decide, or an agent name the schema   *)
(* refuses, an image set to a tag, a tool to classify, or neither a digest *)
(* nor a model and two tools of one name, pinned into a file of two        *)
(* documents, of which one may be the next version of what is in the       *)
(* cluster; pods that meet each of the injector's conditions.              *)
(***************************************************************************)
EXTENDS Admission

CONSTANTS agent, dotted, registry, mirror, tag, old, new, bundle, twin, file, git, model, hotter,
          instructions, task, tool, contract, serverA, serverB, judge, rubric, stricter

\* Two models, and some digests, read alike when shown.
ShortOf == [x \in Digests \cup {model, hotter} |-> CASE x \in {bundle, twin} -> old [] x = hotter -> model [] OTHER -> x]

Tagged == [repo |-> registry, id |-> tag]

\* In the middle of a rollout, and of two files of one stem.
Running == <<[id |-> new, ready |-> FALSE], [id |-> old, ready |-> TRUE]>>

Stem == <<[name |-> task, digest |-> instructions, source |-> file],
          [name |-> task, digest |-> rubric, source |-> git]>>

Offer(s, c) == [name |-> tool, server |-> s, contract |-> c, hint |-> "read"]

Plain == [agent |-> agent, image |-> Tagged, fleet |-> Running, model |-> model, files |-> Stem, answers |-> <<>>,
          set |-> None]

DeploymentsOf ==
  {Plain,
   [Plain EXCEPT !.agent = dotted],
   [Plain EXCEPT !.set = Tagged],
   [Plain EXCEPT !.answers = <<Offer(serverA, contract), [Offer(serverB, contract) EXCEPT !.contract = None]>>],
   [Plain EXCEPT !.model = None, !.fleet = <<>>,
                 !.answers = <<Offer(serverA, contract), Offer(serverB, contract), None>>]}

Judge(r, k, at) == [name |-> judge, model |-> model, rubric |-> r, kappa |-> k, gold |-> None, at |-> at]

EditsOf(s) ==
  {[s EXCEPT !.repo = mirror],
   [s EXCEPT !.id = twin],
   [s EXCEPT !.model = IF @ = None THEN model ELSE hotter],
   [s EXCEPT !.policy = IF @ = None THEN bundle ELSE twin]}
  \cup {[s EXCEPT !.judges = <<j>>] :
          j \in IF s.judges = <<>> THEN {Judge(rubric, 1, 1)} ELSE {Judge(rubric, 2, 2), Judge(stricter, 1, 1)}}
  \cup {[s EXCEPT !.prompts[i].source = git] : i \in DOMAIN s.prompts}
  \cup {[s EXCEPT !.tools[i].server = serverB] : i \in DOMAIN s.tools}

\* A live pod and a shadow one of a manifest, and pods without one that lack a
\* condition or meet it another way.
Live == [optIn |-> TRUE, injected |-> FALSE, known |-> TRUE, override |-> FALSE, url |-> None, key |-> TRUE,
         tools |-> "some", named |-> TRUE, manifest |-> None, shadow |-> FALSE, confined |-> FALSE,
         skipped |-> FALSE, recorders |-> <<>>]
Shadow    == [Live EXCEPT !.shadow = TRUE, !.confined = TRUE]
Anonymous == [Live EXCEPT !.named = FALSE, !.key = FALSE, !.tools = "none"]

PodSpecsOf ==
  {Live, Shadow,
   [Shadow EXCEPT !.named = FALSE], [Shadow EXCEPT !.named = FALSE, !.confined = FALSE],
   Anonymous, [Anonymous EXCEPT !.url = "provider"], [Anonymous EXCEPT !.override = TRUE],
   [Anonymous EXCEPT !.tools = "bad"], [Anonymous EXCEPT !.key = TRUE, !.known = FALSE],
   [Anonymous EXCEPT !.key = TRUE, !.optIn = FALSE]}
=============================================================================
