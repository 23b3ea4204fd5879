----------------------------- MODULE BlobStore -----------------------------
(***************************************************************************)
(* What a content-addressed store promises to those who put into it: a put *)
(* answers with the digest of what it stored or fails, and what was stored *)
(* stays, in a durable store for good and in another until the power goes. *)
(* A put that fails may have stored its content all the same.              *)
(***************************************************************************)
CONSTANTS Contents, Writers

VARIABLES
  durable, \* whether what is stored outlives a loss of power
  stored,  \* the contents that are under their digest
  asked,   \* writer -> the content it has a put of in progress, if any
  told     \* the contents whose digest was given out

vars == <<durable, stored, asked, told>>

Init ==
  /\ durable \in BOOLEAN
  /\ stored = {} /\ asked = [w \in Writers |-> {}] /\ told = {}

Put(w, c) ==
  /\ asked[w] = {}
  /\ asked' = [asked EXCEPT ![w] = {c}]
  /\ UNCHANGED <<durable, stored, told>>

Answer(w) ==
  /\ asked[w] # {}
  /\ stored' = stored \cup asked[w] /\ told' = told \cup asked[w]
  /\ asked' = [asked EXCEPT ![w] = {}]
  /\ UNCHANGED durable

\* Any number of puts fail at once, when the process of their writers does.
Fail(ws) ==
  /\ stored' \in {stored, stored \cup UNION {asked[w] : w \in ws}}
  /\ asked' = [w \in Writers |-> IF w \in ws THEN {} ELSE asked[w]]
  /\ UNCHANGED <<durable, told>>

\* The node of the store and its writers loses power: contents may be gone, and
\* what is there is there whole.
Outage ==
  /\ ~durable
  /\ stored' \in SUBSET stored
  /\ asked' = [w \in Writers |-> {}]
  /\ UNCHANGED <<durable, told>>

Next ==
  \/ \E w \in Writers, c \in Contents : Put(w, c)
  \/ \E w \in Writers : Answer(w)
  \/ \E ws \in SUBSET Writers : Fail(ws)
  \/ Outage

Spec == Init /\ [][Next]_vars
=============================================================================
