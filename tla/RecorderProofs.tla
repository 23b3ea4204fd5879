--------------------------- MODULE RecorderProofs ----------------------------
(* What holds of the recorder sidecar for every number of conversations,    *)
(* tools and calls, every queue and every timing that satisfies             *)
(* TimingAssumption.                                                        *)
EXTENDS Recorder, SequenceTheorems, TLAPS

------------------------------------------------------------------------------
(* Facts about the operators of the model.                                  *)

LEMMA Constants ==
  /\ Idle \in Nat /\ TTL \in Nat /\ CallTime \in Nat
  /\ QueueDepth \in Nat /\ MaxCalls \in Nat /\ MaxTime \in Nat /\ MaxFaults \in Nat
  /\ Never \in Int /\ Never \notin Nat
BY TimingAssumption, RecorderAssumption DEF Never

LEMMA SessionNames ==
  ASSUME NEW s \in Conversations
  PROVE  /\ \A c \in 1..MaxCalls : ProxySession(s, c) \in Named
         /\ SuppressorSession(s) \in Named
BY DEF ProxySession, SuppressorSession, Named

\* What the type invariant says of one call.
LEMMA CallFields ==
  ASSUME TypeOK, NEW c \in DOMAIN calls
  PROVE  /\ c \in 1..MaxCalls /\ calls[c] \in Call
         /\ calls[c].via \in Tools /\ calls[c].key \in Named
         /\ calls[c].invents \in Writes \cup {NoWrite}
         /\ calls[c].step \in Nat /\ calls[c].at \in Nat /\ calls[c].life \in Nat
<1>1. c \in 1..MaxCalls /\ calls[c] \in Call
  BY Constants, LenProperties, ElementOfSeq DEF TypeOK
<1>2. QED
  BY <1>1 DEF Call

\* The two outcomes of handing a record to the sink.
LEMMA RecordType ==
  ASSUME TypeOK, NEW c \in DOMAIN calls, Record(c)
  PROVE  /\ c \in 1..MaxCalls
         /\ queue' \in Seq(DOMAIN calls) /\ Len(queue') <= QueueDepth
         /\ dropped' \subseteq 1..MaxCalls
<1>1. c \in 1..MaxCalls
  BY Constants, LenProperties DEF TypeOK
<1>2. CASE queue' = Append(queue, c) /\ dropped' = dropped /\ Len(queue) < QueueDepth
  <2>1. queue' \in Seq(DOMAIN calls) /\ Len(queue') = Len(queue) + 1 /\ Len(queue) \in Nat
    BY <1>1, <1>2, AppendProperties, LenProperties DEF TypeOK
  <2>2. QED
    BY <1>1, <1>2, <2>1, Constants DEF TypeOK
<1>3. CASE queue' = queue /\ dropped' = dropped \cup {c}
  BY <1>1, <1>3 DEF TypeOK
<1>4. QED
  BY <1>2, <1>3 DEF Record

LEMMA IdentifyType ==
  ASSUME TypeOK, NEW k \in Named, Identify(k)
  PROVE  /\ NextStep(k) \in Nat
         /\ steps' \in [Named -> Nat] /\ seen' \in [Named -> Nat \cup {Never}]
<1>1. clock \in Nat
  BY Constants DEF TypeOK
<1>2. NextStep(k) \in Nat
  BY DEF NextStep, TypeOK
<1>3. QED
  BY <1>1, <1>2 DEF Identify, TypeOK

LEMMA MintType ==
  ASSUME TypeOK, NEW t \in Tools, NEW k \in Named, NEW w \in Writes, Mint(t, k, w)
  PROVE  /\ minted' \in [Tools -> [Named -> Nat \cup {Never}]]
         /\ objects' \in [Tools -> [Named -> SUBSET Writes]]
<1>1. clock \in Nat
  BY Constants DEF TypeOK
<1>2. QED
  BY <1>1 DEF Mint, TypeOK

\* A call arrives at the end of the list.
LEMMA Arrival ==
  ASSUME TypeOK, Accepting, NEW kind \in {"forwarded", "suppressed", "refused", "answered"},
         NEW t \in Tools, NEW w \in Writes \cup {NoWrite}, NEW k \in Named,
         NEW step \in Nat, NEW phase \in {"open", "over"},
         Arrive(kind, t, w, k, step, phase)
  PROVE  /\ calls' \in Seq(Call) /\ Len(calls') = Len(calls) + 1
         /\ Len(calls') <= MaxCalls
         /\ Fresh \notin DOMAIN calls
         /\ DOMAIN calls' = DOMAIN calls \cup {Fresh}
         /\ \A c \in DOMAIN calls : calls'[c] = calls[c]
         /\ calls'[Fresh] = [kind |-> kind, via |-> t, invents |-> w, key |-> k,
                             step |-> step, at |-> clock, life |-> life, phase |-> phase]
<1> DEFINE r == [kind |-> kind, via |-> t, invents |-> w, key |-> k,
                 step |-> step, at |-> clock, life |-> life, phase |-> phase]
<1>1. r \in Call
  BY Constants DEF Call, TypeOK
<1>2. calls \in Seq(Call) /\ calls' = Append(calls, r)
  BY DEF TypeOK, Arrive
<1> HIDE DEF r
<1>3. /\ calls' \in Seq(Call) /\ Len(calls') = Len(calls) + 1
      /\ \A i \in 1..Len(calls) : calls'[i] = calls[i]
      /\ calls'[Len(calls) + 1] = r
  BY <1>1, <1>2, AppendProperties
<1>4. /\ Len(calls) \in Nat /\ DOMAIN calls = 1..Len(calls)
      /\ DOMAIN calls' = 1..(Len(calls) + 1)
  BY <1>2, <1>3, LenProperties
<1>5. QED
  BY <1>3, <1>4, Constants DEF Accepting, Fresh, r

\* A call changes in place.
LEMMA Update ==
  ASSUME TypeOK, NEW c \in DOMAIN calls, NEW e \in Call, calls' = [calls EXCEPT ![c] = e]
  PROVE  /\ calls' \in Seq(Call) /\ Len(calls') = Len(calls)
         /\ DOMAIN calls' = DOMAIN calls
         /\ \A d \in DOMAIN calls : calls'[d] = IF d = c THEN e ELSE calls[d]
<1>1. calls \in Seq(Call) /\ DOMAIN calls = 1..Len(calls)
  BY LenProperties DEF TypeOK
<1>2. QED
  BY <1>1, ExceptSeq

LEMMA CutType ==
  ASSUME TypeOK, calls' = Cut
  PROVE  /\ calls' \in Seq(Call) /\ Len(calls') = Len(calls)
         /\ DOMAIN calls' = DOMAIN calls
<1>1. /\ calls \in Seq(Call) /\ Len(calls) \in Nat /\ DOMAIN calls = 1..Len(calls)
      /\ calls \in [1..Len(calls) -> Call]
  BY LenProperties DEF TypeOK
<1>2. calls' \in [1..Len(calls) -> Call]
  <2>1. ASSUME NEW c \in DOMAIN calls PROVE [calls[c] EXCEPT !.phase = "lost"] \in Call
    <3>1. calls[c] \in Call
      BY <1>1, <2>1
    <3>2. QED
      BY <3>1 DEF Call
  <2>2. ASSUME NEW c \in DOMAIN calls PROVE calls'[c] \in Call
    BY <1>1, <2>1, <2>2 DEF Cut
  <2>3. calls' = [c \in 1..Len(calls) |-> calls'[c]]
    BY <1>1 DEF Cut
  <2>4. QED
    BY <1>1, <2>2, <2>3
<1>3. calls' \in Seq(Call)
  BY <1>1, <1>2, SeqDef
<1>4. DOMAIN calls' = 1..Len(calls)
  BY <1>2
<1>5. Len(calls') = Len(calls)
  BY <1>1, <1>3, <1>4, LenProperties
<1>6. QED
  BY <1>1, <1>3, <1>4, <1>5

------------------------------------------------------------------------------
(* Type correctness.                                                        *)

LEMMA TypeInit == Init => TypeOK
<1> SUFFICES ASSUME Init PROVE TypeOK
  OBVIOUS
<1>1. <<>> \in Seq(Call) /\ Len(<<>>) = 0 /\ <<>> \in Seq(DOMAIN <<>>)
  OBVIOUS
<1>2. QED
  BY <1>1, Constants DEF Init, TypeOK

LEMMA TypeNext == TypeOK /\ [Next]_vars => TypeOK'
<1> SUFFICES ASSUME TypeOK, [Next]_vars PROVE TypeOK'
  OBVIOUS
<1> USE Constants
<1>a. /\ calls \in Seq(Call) /\ Len(calls) \in Nat /\ DOMAIN calls = 1..Len(calls)
      /\ DOMAIN calls \subseteq 1..MaxCalls
      /\ \A c \in DOMAIN calls : calls[c] \in Call
  BY LenProperties, ElementOfSeq DEF TypeOK
<1>b. Accepting => Fresh \in 1..MaxCalls
  BY <1>a DEF Accepting, Fresh
<1>c. DOMAIN calls \subseteq DOMAIN calls' => queue \in Seq(DOMAIN calls')
  BY SeqMonotonic DEF TypeOK
<1>1. ASSUME NEW s \in Conversations, NEW t \in Tools, NEW w \in Writes \cup {NoWrite},
             Forward(s, t, w)
      PROVE  TypeOK'
  <2> DEFINE k == ProxySession(s, Fresh)
  <2>1. k \in Named
    BY <1>1, <1>b, SessionNames DEF Forward
  <2>2. Accepting /\ Identify(k) /\ Arrive("forwarded", t, NoWrite, k, NextStep(k), "open")
    BY <1>1 DEF Forward
  <2> HIDE DEF k
  <2>3. /\ NextStep(k) \in Nat
        /\ steps' \in [Named -> Nat] /\ seen' \in [Named -> Nat \cup {Never}]
    BY <2>1, <2>2, IdentifyType
  <2>4. calls' \in Seq(Call) /\ Len(calls') <= MaxCalls /\ queue \in Seq(DOMAIN calls')
    BY <1>c, <2>1, <2>2, <2>3, Arrival
  <2>5. QED
    BY <1>1, <2>3, <2>4 DEF Forward, TypeOK, corpus, counts
<1>2. ASSUME NEW s \in Conversations, NEW t \in Tools, NEW w \in Writes, ReadBack(s, t, w)
      PROVE  TypeOK'
  <2>1. /\ SuppressorSession(s) \in Named /\ Accepting
        /\ Arrive("answered", t, NoWrite, SuppressorSession(s), 0, "over")
    BY <1>2, SessionNames DEF ReadBack
  <2>2. calls' \in Seq(Call) /\ Len(calls') <= MaxCalls /\ queue \in Seq(DOMAIN calls')
    BY <1>c, <2>1, Arrival
  <2>3. QED
    BY <1>2, <2>2 DEF ReadBack, TypeOK, tables, corpus, counts
<1>3. ASSUME NEW s \in Conversations, NEW t \in Tools, NEW w \in Writes, Suppress(s, t, w)
      PROVE  TypeOK'
  <2>1. /\ SuppressorSession(s) \in Named /\ Accepting
        /\ Arrive("suppressed", t, w, SuppressorSession(s), 0, "open")
        /\ Mint(t, SuppressorSession(s), w)
    BY <1>3, SessionNames DEF Suppress
  <2>2. calls' \in Seq(Call) /\ Len(calls') <= MaxCalls /\ queue \in Seq(DOMAIN calls')
    BY <1>c, <2>1, Arrival
  <2>3. /\ minted' \in [Tools -> [Named -> Nat \cup {Never}]]
        /\ objects' \in [Tools -> [Named -> SUBSET Writes]]
    BY <2>1, MintType
  <2>4. QED
    BY <1>3, <2>2, <2>3 DEF Suppress, TypeOK, corpus, counts
<1>4. ASSUME NEW s \in Conversations, NEW t \in Tools, Refuse(s, t)
      PROVE  TypeOK'
  <2>1. /\ SuppressorSession(s) \in Named /\ Accepting
        /\ Arrive("refused", t, NoWrite, SuppressorSession(s), 0, "open")
    BY <1>4, SessionNames DEF Refuse
  <2>2. calls' \in Seq(Call) /\ Len(calls') <= MaxCalls /\ queue \in Seq(DOMAIN calls')
    BY <1>c, <2>1, Arrival
  <2>3. QED
    BY <1>4, <2>2 DEF Refuse, TypeOK, tables, corpus, counts
<1>5. ASSUME NEW c \in DOMAIN calls, Emit(c)
      PROVE  TypeOK'
  <2> DEFINE t == calls[c].via
             k == calls[c].key
             e == [calls[c] EXCEPT !.step = emitted[t][k], !.phase = "over"]
  <2>1. t \in Tools /\ k \in Named /\ emitted[t][k] \in Nat
    BY CallFields DEF TypeOK
  <2>2. e \in Call
    BY <1>a, <2>1 DEF Call
  <2>3. calls' = [calls EXCEPT ![c] = e]
    BY <1>5 DEF Emit
  <2>4. emitted' = [emitted EXCEPT ![t][k] = @ + 1]
    BY <1>5 DEF Emit
  <2> HIDE DEF t, k, e
  <2>5. emitted' \in [Tools -> [Named -> Nat]]
    BY <2>1, <2>4 DEF TypeOK
  <2>6. /\ calls' \in Seq(Call) /\ Len(calls') <= MaxCalls
        /\ DOMAIN calls' = DOMAIN calls
    BY <2>2, <2>3, Update DEF TypeOK
  <2>7. /\ queue' \in Seq(DOMAIN calls) /\ Len(queue') <= QueueDepth
        /\ dropped' \subseteq 1..MaxCalls
    BY <1>5, RecordType DEF Emit
  <2>8. QED
    BY <1>5, <2>5, <2>6, <2>7 DEF Emit, TypeOK, corpus
<1>6. ASSUME NEW c \in DOMAIN calls, NEW phase \in {"over", "lost"}, Finish(c, phase)
      PROVE  /\ calls' \in Seq(Call) /\ Len(calls') <= MaxCalls
             /\ DOMAIN calls' = DOMAIN calls
  <2> DEFINE e == [calls[c] EXCEPT !.phase = phase]
  <2>1. e \in Call
    BY <1>a DEF Call
  <2>2. calls' = [calls EXCEPT ![c] = e]
    BY <1>6 DEF Finish
  <2> HIDE DEF e
  <2>3. QED
    BY <2>1, <2>2, Update DEF TypeOK
<1>7. ASSUME NEW c \in DOMAIN calls, Respond(c)
      PROVE  TypeOK'
  <2>1. /\ queue' \in Seq(DOMAIN calls) /\ Len(queue') <= QueueDepth
        /\ dropped' \subseteq 1..MaxCalls
    BY <1>7, RecordType DEF Respond
  <2>2. QED
    BY <1>6, <1>7, <2>1 DEF Respond, TypeOK, tables, corpus
<1>8. ASSUME NEW c \in DOMAIN calls, Abort(c)
      PROVE  TypeOK'
  <2>1. /\ calls' \in Seq(Call) /\ Len(calls') <= MaxCalls
        /\ DOMAIN calls' = DOMAIN calls
    BY <1>6, <1>8 DEF Abort
  <2>2. QED
    BY <1>8, <2>1 DEF Abort, TypeOK, tables, corpus, counts
<1>9. ASSUME Write \/ WriteFails
      PROVE  TypeOK'
  <2> DEFINE c == Head(queue)
             k == calls[c].key
  <2>1. queue # <<>> /\ queue \in Seq(DOMAIN calls) /\ queue' = Tail(queue) /\ calls' = calls
    BY <1>9 DEF Write, WriteFails, Writing, TypeOK
  <2>2. /\ c \in DOMAIN calls /\ Len(queue) \in Nat
        /\ queue' \in Seq(DOMAIN calls) /\ Len(queue') = Len(queue) - 1
    BY <2>1, HeadTailProperties, LenProperties
  <2>3. \/ open' = open /\ spans' = spans /\ exists' = exists
        \/ /\ open' = [open EXCEPT ![k] = clock] /\ exists' = exists \cup {k}
           /\ spans' = spans \/ spans' = [spans EXCEPT ![k] = @ \cup {c}]
    BY <1>9 DEF Write, WriteFails, corpus
  <2>4. errored' = errored \/ errored' = errored \cup {c}
    BY <1>9 DEF Write, WriteFails, Fail
  <2> HIDE DEF c
  <2>5. c \in 1..MaxCalls /\ k \in Named
    BY <2>2, CallFields
  <2>6. errored' \subseteq 1..MaxCalls
    BY <2>4, <2>5 DEF TypeOK
  <2> HIDE DEF k
  <2>7. /\ exists' \subseteq Named
        /\ open' \in [Named -> Nat \cup {Never}]
        /\ spans' \in [Named -> SUBSET (1..MaxCalls)]
    <3>1. exists \subseteq Named /\ clock \in Nat
      BY DEF TypeOK
    <3>2. exists' \subseteq Named
      BY <2>3, <2>5, <3>1
    <3>3. open' \in [Named -> Nat \cup {Never}]
      <4>1. open \in [Named -> Nat \cup {Never}] /\ clock \in Nat \cup {Never}
        BY <3>1 DEF TypeOK
      <4>2. [open EXCEPT ![k] = clock] \in [Named -> Nat \cup {Never}]
        BY <2>5, <4>1
      <4>3. QED
        BY <2>3, <4>1, <4>2
    <3>4. spans' \in [Named -> SUBSET (1..MaxCalls)]
      <4>1. spans \in [Named -> SUBSET (1..MaxCalls)]
        BY DEF TypeOK
      <4>2. spans[k] \cup {c} \in SUBSET (1..MaxCalls)
        BY <2>5, <4>1
      <4>3. [spans EXCEPT ![k] = @ \cup {c}] \in [Named -> SUBSET (1..MaxCalls)]
        BY <4>1, <4>2
      <4>4. QED
        BY <2>3, <4>1, <4>3
    <3>5. QED
      BY <3>2, <3>3, <3>4
  <2>8. /\ faults' \in 0..MaxFaults
        /\ UNCHANGED <<tables, dropped, worker, server, life, clock>>
    <3>1. faults \in 0..MaxFaults /\ MaxFaults \in Nat
      BY RecorderAssumption DEF TypeOK
    <3>2. CASE Write
      BY <3>1, <3>2 DEF Write
    <3>3. CASE WriteFails
      BY <3>1, <3>3 DEF WriteFails
    <3>4. QED
      BY <1>9, <3>2, <3>3
  <2>9. QED
    BY <2>1, <2>2, <2>6, <2>7, <2>8 DEF TypeOK, tables
<1>10. ASSUME Sweep \/ Stop
       PROVE  TypeOK'
  BY <1>10 DEF Sweep, Stop, TypeOK, tables, counts
<1>11. ASSUME StartDrain \/ Terminate \/ CloseSink
       PROVE  TypeOK'
  BY <1>11 DEF StartDrain, Terminate, CloseSink, TypeOK, tables, corpus, counts
<1>12. ASSUME Tick
       PROVE  TypeOK'
  BY <1>12 DEF Tick, TypeOK, tables, corpus, counts
<1>13. ASSUME Exit
       PROVE  TypeOK'
  BY <1>13, CutType DEF Exit, TypeOK, tables, corpus, counts
<1>14. ASSUME RestartContainer
       PROVE  TypeOK'
  <2>1. queue' \in Seq(DOMAIN calls') /\ Len(queue') = 0
    BY <1>14 DEF RestartContainer
  <2>2. calls' \in Seq(Call) /\ Len(calls') <= MaxCalls
    BY <1>14, CutType DEF RestartContainer, TypeOK
  <2>3. QED
    BY <1>14, <2>1, <2>2 DEF RestartContainer, TypeOK
<1>15. CASE UNCHANGED vars
  BY <1>15 DEF vars, TypeOK
<1>16. QED
  BY <1>1, <1>2, <1>3, <1>4, <1>5, <1>7, <1>8, <1>9, <1>10, <1>11, <1>12, <1>13, <1>14,
     <1>15 DEF Next

\* Every step of the sidecar keeps its variables within their types, whatever
\* the number of calls and the depth of the queue.
THEOREM RecorderTypeCorrect == Spec => []TypeOK
<1>1. Init => TypeOK
  BY TypeInit
<1>2. TypeOK /\ [Next]_vars => TypeOK'
  BY TypeNext
<1>3. QED
  BY <1>1, <1>2, PTL DEF Spec

------------------------------------------------------------------------------
(* What a step does to the calls made before it, and to a new one.          *)

\* The fields of a call that no step changes, and those only a suppressor's
\* own answer changes.
Same(c) ==
  /\ c \in DOMAIN calls'
  /\ calls'[c].kind = calls[c].kind /\ calls'[c].via = calls[c].via
  /\ calls'[c].invents = calls[c].invents /\ calls'[c].key = calls[c].key
  /\ calls'[c].at = calls[c].at /\ calls'[c].life = calls[c].life
  /\ calls[c].kind = "forwarded" => calls'[c].step = calls[c].step
  /\ calls'[c].phase = calls[c].phase \/ calls[c].phase = "open"

\* What is new about a call that arrives.
New(c) ==
  /\ c = Fresh /\ c \notin DOMAIN calls
  /\ calls'[c].at = clock /\ calls'[c].life = life
  /\ UNCHANGED <<queue, corpus, counts, life, clock>>
  /\ \/ /\ calls'[c].kind = "forwarded" /\ calls'[c].phase = "open"
        /\ calls'[c].step = NextStep(calls'[c].key)
        /\ Identify(calls'[c].key)
        /\ UNCHANGED <<objects, minted>>
     \/ /\ calls'[c].kind = "suppressed" /\ calls'[c].phase = "open"
        /\ calls'[c].invents \in Writes
        /\ Mint(calls'[c].via, calls'[c].key, calls'[c].invents)
        /\ UNCHANGED <<steps, seen>>
     \/ /\ calls'[c].kind = "refused" /\ calls'[c].phase = "open"
        /\ UNCHANGED tables
     \/ /\ calls'[c].kind = "answered" /\ calls'[c].phase = "over"
        /\ UNCHANGED tables

\* Steps in which a call arrives.
Arriving ==
  \E s \in Conversations, t \in Tools :
    \/ \E w \in Writes \cup {NoWrite} : Forward(s, t, w)
    \/ \E w \in Writes : ReadBack(s, t, w) \/ Suppress(s, t, w)
    \/ Refuse(s, t)

LEMMA ArrivingStep ==
  ASSUME TypeOK, Arriving
  PROVE  /\ \A c \in DOMAIN calls : c \in DOMAIN calls' /\ calls'[c] = calls[c]
         /\ DOMAIN calls' = DOMAIN calls \cup {Fresh}
         /\ New(Fresh)
<1>b. Accepting => Fresh \in 1..MaxCalls
  BY Constants, LenProperties DEF Accepting, Fresh, TypeOK
<1>1. ASSUME NEW s \in Conversations, NEW t \in Tools, NEW w \in Writes \cup {NoWrite},
             Forward(s, t, w)
      PROVE  /\ \A c \in DOMAIN calls : c \in DOMAIN calls' /\ calls'[c] = calls[c]
             /\ DOMAIN calls' = DOMAIN calls \cup {Fresh}
             /\ New(Fresh)
  <2> DEFINE k == ProxySession(s, Fresh)
  <2>1. k \in Named
    BY <1>1, <1>b, SessionNames DEF Forward
  <2>2. Accepting /\ Identify(k) /\ Arrive("forwarded", t, NoWrite, k, NextStep(k), "open")
    BY <1>1 DEF Forward
  <2> HIDE DEF k
  <2>3. NextStep(k) \in Nat
    BY <2>1, <2>2, IdentifyType
  <2>4. /\ \A c \in DOMAIN calls : calls'[c] = calls[c]
        /\ DOMAIN calls' = DOMAIN calls \cup {Fresh} /\ Fresh \notin DOMAIN calls
        /\ calls'[Fresh] = [kind |-> "forwarded", via |-> t, invents |-> NoWrite, key |-> k,
                            step |-> NextStep(k), at |-> clock, life |-> life,
                            phase |-> "open"]
    BY <2>1, <2>2, <2>3, Arrival
  <2>5. QED
    BY <1>1, <2>2, <2>4 DEF Forward, New, corpus, counts
<1>2. ASSUME NEW s \in Conversations, NEW t \in Tools, NEW w \in Writes, ReadBack(s, t, w)
      PROVE  /\ \A c \in DOMAIN calls : c \in DOMAIN calls' /\ calls'[c] = calls[c]
             /\ DOMAIN calls' = DOMAIN calls \cup {Fresh}
             /\ New(Fresh)
  <2> DEFINE k == SuppressorSession(s)
  <2>1. k \in Named /\ Accepting /\ Arrive("answered", t, NoWrite, k, 0, "over")
    BY <1>2, SessionNames DEF ReadBack
  <2> HIDE DEF k
  <2>2. /\ \A c \in DOMAIN calls : calls'[c] = calls[c]
        /\ DOMAIN calls' = DOMAIN calls \cup {Fresh} /\ Fresh \notin DOMAIN calls
        /\ calls'[Fresh] = [kind |-> "answered", via |-> t, invents |-> NoWrite, key |-> k,
                            step |-> 0, at |-> clock, life |-> life, phase |-> "over"]
    BY <2>1, Arrival
  <2>3. QED
    BY <1>2, <2>2 DEF ReadBack, New, corpus, counts
<1>3. ASSUME NEW s \in Conversations, NEW t \in Tools, NEW w \in Writes, Suppress(s, t, w)
      PROVE  /\ \A c \in DOMAIN calls : c \in DOMAIN calls' /\ calls'[c] = calls[c]
             /\ DOMAIN calls' = DOMAIN calls \cup {Fresh}
             /\ New(Fresh)
  <2> DEFINE k == SuppressorSession(s)
  <2>1. /\ k \in Named /\ Accepting /\ Arrive("suppressed", t, w, k, 0, "open")
        /\ Mint(t, k, w)
    BY <1>3, SessionNames DEF Suppress
  <2> HIDE DEF k
  <2>2. /\ \A c \in DOMAIN calls : calls'[c] = calls[c]
        /\ DOMAIN calls' = DOMAIN calls \cup {Fresh} /\ Fresh \notin DOMAIN calls
        /\ calls'[Fresh] = [kind |-> "suppressed", via |-> t, invents |-> w, key |-> k,
                            step |-> 0, at |-> clock, life |-> life, phase |-> "open"]
    BY <2>1, Arrival
  <2>3. QED
    BY <1>3, <2>1, <2>2 DEF Suppress, New, corpus, counts
<1>4. ASSUME NEW s \in Conversations, NEW t \in Tools, Refuse(s, t)
      PROVE  /\ \A c \in DOMAIN calls : c \in DOMAIN calls' /\ calls'[c] = calls[c]
             /\ DOMAIN calls' = DOMAIN calls \cup {Fresh}
             /\ New(Fresh)
  <2> DEFINE k == SuppressorSession(s)
  <2>1. k \in Named /\ Accepting /\ Arrive("refused", t, NoWrite, k, 0, "open")
    BY <1>4, SessionNames DEF Refuse
  <2> HIDE DEF k
  <2>2. /\ \A c \in DOMAIN calls : calls'[c] = calls[c]
        /\ DOMAIN calls' = DOMAIN calls \cup {Fresh} /\ Fresh \notin DOMAIN calls
        /\ calls'[Fresh] = [kind |-> "refused", via |-> t, invents |-> NoWrite, key |-> k,
                            step |-> 0, at |-> clock, life |-> life, phase |-> "open"]
    BY <2>1, Arrival
  <2>3. QED
    BY <1>4, <2>2 DEF Refuse, New, corpus, counts
<1>5. QED
  BY <1>1, <1>2, <1>3, <1>4 DEF Arriving

\* Every other step leaves the list as long as it is.
LEMMA OtherStep ==
  ASSUME TypeOK, [Next]_vars, ~Arriving
  PROVE  DOMAIN calls' = DOMAIN calls /\ \A c \in DOMAIN calls : Same(c)
<1>1. ASSUME NEW c \in DOMAIN calls, Emit(c)
      PROVE  DOMAIN calls' = DOMAIN calls /\ \A d \in DOMAIN calls : Same(d)
  <2> DEFINE n == emitted[calls[c].via][calls[c].key]
             e == [calls[c] EXCEPT !.step = n, !.phase = "over"]
  <2>1. /\ calls' = [calls EXCEPT ![c] = e]
        /\ calls[c].phase = "open" /\ calls[c].kind # "forwarded"
    BY <1>1 DEF Emit, InFlight
  <2>2. n \in Nat
    BY CallFields DEF TypeOK
  <2> HIDE DEF n
  <2>3. e \in Call /\ \A f \in {"kind", "via", "invents", "key", "at", "life"} : e[f] = calls[c][f]
    BY <2>2, CallFields DEF Call
  <2> HIDE DEF e
  <2>4. /\ DOMAIN calls' = DOMAIN calls
        /\ \A d \in DOMAIN calls : calls'[d] = IF d = c THEN e ELSE calls[d]
    BY <2>1, <2>3, Update
  <2>5. QED
    BY <2>1, <2>3, <2>4 DEF Same
<1>2. ASSUME NEW c \in DOMAIN calls, Respond(c) \/ Abort(c)
      PROVE  DOMAIN calls' = DOMAIN calls /\ \A d \in DOMAIN calls : Same(d)
  <2>1. PICK phase \in {"over", "lost"} : Finish(c, phase)
    BY <1>2 DEF Respond, Abort
  <2> DEFINE e == [calls[c] EXCEPT !.phase = phase]
  <2>2. calls' = [calls EXCEPT ![c] = e] /\ calls[c].phase = "open"
    BY <1>2, <2>1 DEF Respond, Abort, InFlight, Finish
  <2>3. /\ e \in Call
        /\ \A f \in {"kind", "via", "invents", "key", "at", "life", "step"} : e[f] = calls[c][f]
    BY CallFields DEF Call
  <2> HIDE DEF e
  <2>4. /\ DOMAIN calls' = DOMAIN calls
        /\ \A d \in DOMAIN calls : calls'[d] = IF d = c THEN e ELSE calls[d]
    BY <2>2, <2>3, Update
  <2>5. QED
    BY <2>2, <2>3, <2>4 DEF Same
<1>3. ASSUME Exit \/ RestartContainer
      PROVE  DOMAIN calls' = DOMAIN calls /\ \A d \in DOMAIN calls : Same(d)
  <2>1. calls' = Cut
    BY <1>3 DEF Exit, RestartContainer
  <2>2. DOMAIN calls' = DOMAIN calls
    BY <2>1, CutType
  <2>3. ASSUME NEW d \in DOMAIN calls
        PROVE  Same(d)
    <3>1. calls'[d] = IF calls[d].phase = "open" THEN [calls[d] EXCEPT !.phase = "lost"]
                                                 ELSE calls[d]
      BY <2>1 DEF Cut
    <3>2. calls[d] \in Call
      BY CallFields
    <3>3. QED
      BY <2>2, <3>1, <3>2 DEF Same, Call
  <2>4. QED
    BY <2>2, <2>3
<1>4. ASSUME UNCHANGED calls
      PROVE  DOMAIN calls' = DOMAIN calls /\ \A d \in DOMAIN calls : Same(d)
  BY <1>4 DEF Same
<1>5. CASE Write \/ WriteFails \/ Sweep \/ StartDrain \/ Stop \/ Terminate \/ CloseSink \/ Tick
  BY <1>4, <1>5 DEF Write, WriteFails, Sweep, StartDrain, Stop, Terminate, CloseSink, Tick
<1>6. QED
  BY <1>1, <1>2, <1>3, <1>4, <1>5 DEF Next, Arriving, vars

\* Every call stays what it was.
LEMMA CallsKept ==
  ASSUME TypeOK, [Next]_vars
  PROVE  \A c \in DOMAIN calls : Same(c)
<1>1. CASE Arriving
  BY <1>1, ArrivingStep DEF Same
<1>2. QED
  BY <1>1, OtherStep

------------------------------------------------------------------------------
(* What an agent's writes invented is remembered.                           *)

\* No call is from the future.
Dated == \A c \in DOMAIN calls : calls[c].at <= clock /\ calls[c].life <= life

\* The registry entry of a recent suppressed call is at least as recent.
Registered(c) ==
  /\ calls[c].kind = "suppressed" /\ Here(c)
  /\ clock <= calls[c].at + TTL
  => /\ minted[calls[c].via][calls[c].key] >= calls[c].at
     /\ calls[c].invents \in objects[calls[c].via][calls[c].key]

OwnInv == TypeOK /\ Dated /\ \A c \in DOMAIN calls : Registered(c)

LEMMA TimesAreNat ==
  /\ TypeOK => clock \in Nat /\ life \in Nat
  /\ TypeOK' => clock' \in Nat /\ life' \in Nat
BY Constants DEF TypeOK

LEMMA ClockStep ==
  ASSUME TypeOK, [Next]_vars
  PROVE  /\ clock' >= clock /\ life' >= life
         /\ Arriving => clock' = clock /\ life' = life
<1>1. clock \in Nat /\ life \in Nat
  BY Constants DEF TypeOK
<1>2. Arriving => clock' = clock /\ life' = life
  BY DEF Arriving, Forward, ReadBack, Suppress, Refuse
<1>3. CASE \E c \in DOMAIN calls : Emit(c) \/ Respond(c) \/ Abort(c)
  BY <1>1, <1>3 DEF Emit, Respond, Abort, Arriving, Forward, ReadBack, Suppress, Refuse
<1>4. CASE Write \/ WriteFails \/ Sweep \/ StartDrain \/ Stop \/ Terminate \/ CloseSink
  BY <1>1, <1>2, <1>4 DEF Write, WriteFails, Sweep, StartDrain, Stop, Terminate, CloseSink
<1>5. CASE Exit \/ RestartContainer \/ Tick \/ UNCHANGED vars
  BY <1>1, <1>2, <1>5 DEF Exit, RestartContainer, Tick, vars
<1>6. QED
  BY <1>1, <1>2, <1>3, <1>4, <1>5 DEF Next, Arriving

LEMMA DatedNext == TypeOK /\ Dated /\ [Next]_vars => Dated'
<1> SUFFICES ASSUME TypeOK, Dated, [Next]_vars, NEW c \in DOMAIN calls'
             PROVE  calls'[c].at <= clock' /\ calls'[c].life <= life'
  BY DEF Dated
<1>1. TypeOK' /\ clock \in Nat /\ life \in Nat
  BY TypeNext, TimesAreNat
<1>2. clock' \in Nat /\ life' \in Nat
  BY TypeNext, TimesAreNat
<1>3. CASE c \in DOMAIN calls
  <2>1. calls'[c].at = calls[c].at /\ calls'[c].life = calls[c].life
    BY <1>3, CallsKept DEF Same
  <2>2. calls[c].at \in Nat /\ calls[c].life \in Nat
    BY <1>3, CallFields
  <2>3. QED
    BY <1>1, <1>2, <1>3, <2>1, <2>2, ClockStep DEF Dated
<1>4. CASE c \notin DOMAIN calls
  BY <1>1, <1>4, ArrivingStep, OtherStep, ClockStep DEF New
<1>5. QED
  BY <1>3, <1>4

\* mint keeps every entry younger than the TTL, and its own.
LEMMA MintKeeps ==
  ASSUME TypeOK, NEW t \in Tools, NEW k \in Named, NEW w \in Writes, Mint(t, k, w)
  PROVE  /\ minted'[t][k] = clock /\ w \in objects'[t][k]
         /\ \A u \in Tools, j \in Named, b \in Nat :
              b <= minted[u][j] /\ b <= clock /\ clock <= b + TTL =>
                b <= minted'[u][j] /\ objects[u][j] \subseteq objects'[u][j]
<1> DEFINE kept(j) == IF Retained(t, j) THEN objects[t][j] ELSE {}
           mt == [j \in Named |-> IF j = k THEN clock
                                  ELSE IF Retained(t, j) THEN minted[t][j] ELSE Never]
           os == [j \in Named |-> IF j = k THEN kept(k) \cup {w} ELSE kept(j)]
<1>1. minted' = [minted EXCEPT ![t] = mt] /\ objects' = [objects EXCEPT ![t] = os]
  BY DEF Mint
<1>2. /\ minted \in [Tools -> [Named -> Nat \cup {Never}]]
      /\ objects \in [Tools -> [Named -> SUBSET Writes]]
      /\ clock \in Nat /\ TTL \in Nat
  BY Constants DEF TypeOK
<1>3. mt[k] = clock /\ w \in os[k]
  OBVIOUS
<1>4. ASSUME NEW j \in Named, NEW b \in Nat, b <= minted[t][j], b <= clock, clock <= b + TTL
      PROVE  b <= mt[j] /\ objects[t][j] \subseteq os[j]
  <2>1. minted[t][j] \in Nat /\ minted[t][j] # Never /\ minted[t][j] >= clock - TTL
    BY <1>2, <1>4 DEF Never
  <2>2. Retained(t, j)
    BY <2>1 DEF Retained
  <2>3. QED
    BY <1>4, <2>2
<1> HIDE DEF kept, mt, os
<1>5. /\ minted'[t] = mt /\ objects'[t] = os
      /\ \A u \in Tools : u # t => minted'[u] = minted[u] /\ objects'[u] = objects[u]
  BY <1>1, <1>2
<1>6. QED
  BY <1>3, <1>4, <1>5

\* Only a suppressed call and a restart touch the registries.
LEMMA RegistryStep ==
  ASSUME TypeOK, [Next]_vars
  PROVE  \/ UNCHANGED <<objects, minted>>
         \/ life' = life + 1
         \/ Arriving /\ calls'[Fresh].kind = "suppressed" /\ New(Fresh)
<1>1. CASE Arriving
  BY <1>1, ArrivingStep DEF New, tables
<1>2. CASE \E c \in DOMAIN calls : Emit(c) \/ Respond(c) \/ Abort(c)
  BY <1>2 DEF Emit, Respond, Abort, tables
<1>3. CASE Write \/ WriteFails \/ Sweep \/ StartDrain \/ Stop
  BY <1>3 DEF Write, WriteFails, Sweep, StartDrain, Stop, tables
<1>4. CASE Terminate \/ CloseSink \/ Exit \/ RestartContainer \/ Tick \/ UNCHANGED vars
  BY <1>4 DEF Terminate, CloseSink, Exit, RestartContainer, Tick, tables, vars
<1>5. QED
  BY <1>1, <1>2, <1>3, <1>4 DEF Next, Arriving

LEMMA RegisteredNext ==
  ASSUME OwnInv, [Next]_vars, NEW c \in DOMAIN calls'
  PROVE  Registered(c)'
<1> SUFFICES ASSUME calls'[c].kind = "suppressed", calls'[c].life = life',
                    clock' <= calls'[c].at + TTL
             PROVE  /\ minted'[calls'[c].via][calls'[c].key] >= calls'[c].at
                    /\ calls'[c].invents \in objects'[calls'[c].via][calls'[c].key]
  BY DEF Registered, Here
<1>1. /\ TypeOK /\ TypeOK' /\ TTL \in Nat
      /\ clock \in Nat /\ clock' \in Nat /\ life \in Nat /\ life' \in Nat
  BY Constants, TypeNext, TimesAreNat DEF OwnInv
<1>2. CASE c \in DOMAIN calls
  <2> DEFINE t == calls[c].via
             k == calls[c].key
             b == calls[c].at
  <2>1. /\ calls'[c].kind = calls[c].kind /\ calls'[c].via = t /\ calls'[c].key = k
        /\ calls'[c].at = b /\ calls'[c].life = calls[c].life
        /\ calls'[c].invents = calls[c].invents
    BY <1>1, <1>2, CallsKept DEF Same
  <2>2. t \in Tools /\ k \in Named /\ b \in Nat /\ calls[c].life \in Nat
    BY <1>1, <1>2, CallFields
  <2>3. b <= clock /\ calls[c].life <= life /\ clock <= clock' /\ life <= life'
    BY <1>1, <1>2, ClockStep DEF OwnInv, Dated
  <2>4. life' # life + 1 /\ life' = life
    BY <1>1, <2>1, <2>2, <2>3, ClockStep
  <2>5. /\ minted[t][k] >= b /\ calls[c].invents \in objects[t][k]
        /\ clock <= b + TTL
    BY <1>1, <1>2, <2>1, <2>2, <2>3, <2>4 DEF OwnInv, Registered, Here
  <2>6. CASE UNCHANGED <<objects, minted>>
    BY <2>1, <2>5, <2>6
  <2>7. CASE Arriving /\ calls'[Fresh].kind = "suppressed" /\ New(Fresh)
    <3> DEFINE n == calls'[Fresh]
    <3>1. Mint(n.via, n.key, n.invents)
      BY <2>7 DEF New
    <3>2. n.via \in Tools /\ n.key \in Named /\ n.invents \in Writes
      <4>1. Fresh \in DOMAIN calls'
        BY <1>1, <2>7, ArrivingStep
      <4>2. n \in Call
        BY <1>1, <4>1, LenProperties, ElementOfSeq DEF TypeOK
      <4>3. QED
        BY <2>7, <4>2 DEF New, Call
    <3>3. QED
      BY <1>1, <2>1, <2>2, <2>3, <2>5, <3>1, <3>2, MintKeeps
  <2>8. QED
    BY <1>1, <2>4, <2>6, <2>7, RegistryStep
<1>3. CASE c \notin DOMAIN calls
  <2> DEFINE n == calls'[c]
  <2>1. Arriving /\ c = Fresh /\ New(c)
    BY <1>1, <1>3, ArrivingStep, OtherStep
  <2>2. /\ Mint(n.via, n.key, n.invents) /\ n.at = clock /\ n.invents \in Writes
    BY <2>1 DEF New
  <2>3. n \in Call
    BY <1>1, LenProperties, ElementOfSeq DEF TypeOK
  <2>4. n.via \in Tools /\ n.key \in Named
    BY <2>3 DEF Call
  <2>5. QED
    BY <1>1, <2>2, <2>4, MintKeeps
<1>4. QED
  BY <1>2, <1>3

LEMMA OwnInitial == Init => OwnInv
BY TypeInit DEF Init, OwnInv, Dated

\* For every number of tools, sessions and writes: an object a suppressed write
\* invented stays in the registry for the TTL, so a later call of its session
\* that names it is answered and not forwarded to a server that has no such
\* object.
THEOREM InventionsAreRemembered == Spec => []OwnWritesAreRemembered
<1>1. Init => OwnInv
  BY OwnInitial
<1>2. OwnInv /\ [Next]_vars => OwnInv'
  BY TypeNext, DatedNext, RegisteredNext DEF OwnInv
<1>3. OwnInv => OwnWritesAreRemembered
  BY DEF OwnInv, Registered, OwnWritesAreRemembered, Remembered
<1>4. QED
  BY <1>1, <1>2, <1>3, PTL DEF Spec

-----------------------------------------------------------------------------
(* The steps of a cassette of proxied calls are distinct, and its holes are *)
(* counted.                                                                 *)

\* A call whose record may still be written.
Pending(c)      == calls[c].phase = "open" \/ InQueue(c)
Forwarded(c)    == calls[c].kind = "forwarded"
AllForwarded(k) == \A c \in spans[k] : Forwarded(c)

\* A pending call is recent, and an open cassette was written to recently.
Recent ==
  /\ \A c \in DOMAIN calls : Pending(c) => clock <= calls[c].at + CallTime
  /\ \A k \in Named : open[k] # Never =>
       open[k] <= clock /\ clock <= open[k] + Idle + Idle \div 2 + 1

\* A cassette holds calls of its own session, and a session that has an open
\* cassette, or a record, has a file.
Filed ==
  \A k \in Named :
    /\ \A c \in spans[k] : c \in DOMAIN calls /\ calls[c].key = k
    /\ spans[k] # {} \/ open[k] # Never => k \in exists

\* The session table is ahead of the pending calls and of the open cassettes.
PendingAhead(c) ==
  Pending(c) /\ Forwarded(c) =>
    seen[calls[c].key] >= calls[c].at /\ steps[calls[c].key] > calls[c].step
OpenAhead(k) ==
  open[k] # Never /\ AllForwarded(k) => \A c \in spans[k] :
    /\ seen[k] # Never /\ seen[k] + CallTime >= open[k]
    /\ steps[k] > calls[c].step

\* Steps differ between pending calls, and between them and what was written.
PendingDistinct ==
  \A c, d \in DOMAIN calls :
    Pending(c) /\ Pending(d) /\ Forwarded(c) /\ Forwarded(d) /\ c # d
      /\ calls[c].key = calls[d].key => calls[c].step # calls[d].step
OpenDistinct(k) ==
  open[k] # Never /\ AllForwarded(k) =>
    \A c \in spans[k], d \in DOMAIN calls :
      Pending(d) /\ Forwarded(d) /\ calls[d].key = k /\ c # d =>
        calls[c].step # calls[d].step

StepsOK ==
  /\ \A c \in DOMAIN calls : PendingAhead(c)
  /\ \A k \in Named : OpenAhead(k) /\ OpenDistinct(k)
  /\ PendingDistinct
  /\ ForwardedStepsAreDistinct

StepInv == TypeOK /\ Dated /\ Recent /\ Filed /\ StepsOK

------------------------------------------------------------------------------
(* The queue.                                                               *)

LEMMA QueuedIsCall ==
  ASSUME TypeOK, NEW c, InQueue(c)
  PROVE  c \in DOMAIN calls
BY LenProperties, ElementOfSeq DEF TypeOK, InQueue

LEMMA RecordQueue ==
  ASSUME TypeOK, NEW c \in DOMAIN calls, Record(c)
  PROVE  /\ \A d : InQueue(d)' => InQueue(d) \/ d = c
         /\ \A d : InQueue(d) => InQueue(d)'
         /\ c \in dropped' \/ InQueue(c)'
         /\ dropped \subseteq dropped'
<1>1. queue \in Seq(DOMAIN calls) /\ Len(queue) \in Nat /\ DOMAIN queue = 1..Len(queue)
  BY LenProperties DEF TypeOK
<1>2. CASE queue' = Append(queue, c) /\ dropped' = dropped
  <2>1. /\ queue' \in Seq(DOMAIN calls) /\ Len(queue') = Len(queue) + 1
        /\ \A i \in 1..Len(queue) : queue'[i] = queue[i]
        /\ queue'[Len(queue) + 1] = c
    BY <1>1, <1>2, AppendProperties
  <2>2. DOMAIN queue' = 1..(Len(queue) + 1)
    BY <2>1, LenProperties
  <2>3. QED
    BY <1>1, <1>2, <2>1, <2>2 DEF InQueue
<1>3. CASE queue' = queue /\ dropped' = dropped \cup {c}
  BY <1>3 DEF InQueue
<1>4. QED
  BY <1>2, <1>3 DEF Record

LEMMA TailQueue ==
  ASSUME TypeOK, queue # <<>>, queue' = Tail(queue), NEW h, h = Head(queue)
  PROVE  /\ InQueue(h) /\ h \in DOMAIN calls
         /\ \A d : InQueue(d)' => InQueue(d)
         /\ \A d : InQueue(d) => d = h \/ InQueue(d)'
<1>1. /\ queue \in Seq(DOMAIN calls) /\ Len(queue) \in Nat
      /\ DOMAIN queue = 1..Len(queue) /\ Len(queue) # 0
  BY LenProperties, EmptySeq DEF TypeOK
<1>2. /\ queue' \in Seq(DOMAIN calls) /\ Len(queue') = Len(queue) - 1
      /\ \A i \in 1..Len(queue') : queue'[i] = queue[i + 1]
      /\ h \in DOMAIN calls
  BY <1>1, HeadTailProperties
<1>3. DOMAIN queue' = 1..(Len(queue) - 1) /\ h = queue[1]
  BY <1>1, <1>2, LenProperties
<1>4. InQueue(h)
  BY <1>1, <1>3 DEF InQueue
<1>5. ASSUME NEW d, InQueue(d)'
      PROVE  InQueue(d)
  <2>1. PICK i \in DOMAIN queue' : queue'[i] = d
    BY <1>5 DEF InQueue
  <2>2. i + 1 \in DOMAIN queue /\ queue[i + 1] = d
    BY <1>1, <1>2, <1>3, <2>1
  <2>3. QED
    BY <2>2 DEF InQueue
<1>6. ASSUME NEW d, InQueue(d), d # h
      PROVE  InQueue(d)'
  <2>1. PICK i \in DOMAIN queue : queue[i] = d
    BY <1>6 DEF InQueue
  <2>2. i # 1 /\ i - 1 \in DOMAIN queue' /\ queue'[i - 1] = d
    BY <1>1, <1>2, <1>3, <1>6, <2>1
  <2>3. QED
    BY <2>2 DEF InQueue
<1>7. QED
  BY <1>2, <1>4, <1>5, <1>6

------------------------------------------------------------------------------
(* The kinds of steps, by what they do to the session table and the corpus. *)

Pends == \A c \in DOMAIN calls' : Pending(c)' => c \in DOMAIN calls /\ Pending(c)

\* Records move on and cassettes close.
Quieter ==
  /\ UNCHANGED <<steps, seen, exists, spans>>
  /\ \A k \in Named : open'[k] \in {open[k], Never}
  /\ \A c \in DOMAIN calls' : Pending(c)' =>
       IF c \in DOMAIN calls THEN Pending(c) ELSE calls'[c].kind # "forwarded"

\* The worker takes the first record, and may create its cassette or write to it.
Taken(c) ==
  LET k == calls[c].key IN
  /\ InQueue(c) /\ c \in DOMAIN calls
  /\ UNCHANGED <<calls, steps, seen, clock>> /\ Pends
  /\ \/ UNCHANGED corpus
     \/ /\ open[k] # Never \/ k \notin exists
        /\ exists' = exists \cup {k}
        /\ open' = [open EXCEPT ![k] = clock]
        /\ spans' = [spans EXCEPT ![k] = @ \cup {c}]
     \/ /\ open[k] = Never /\ k \notin exists
        /\ exists' = exists \cup {k}
        /\ open' = [open EXCEPT ![k] = clock]
        /\ UNCHANGED spans

\* A proxied call arrives.
Proxied(c) ==
  /\ c \notin DOMAIN calls /\ DOMAIN calls' = DOMAIN calls \cup {c}
  /\ \A d \in DOMAIN calls : calls'[d] = calls[d]
  /\ calls'[c].step = NextStep(calls'[c].key) /\ calls'[c].at = clock
  /\ Identify(calls'[c].key)
  /\ UNCHANGED <<queue, corpus, clock>>

\* The container starts again.
Restarted ==
  /\ \A c \in DOMAIN calls' : ~Pending(c)'
  /\ \A k \in Named : open'[k] = Never
  /\ UNCHANGED <<exists, spans, clock>>

LEMMA ArrivingKinds ==
  ASSUME TypeOK, Arriving
  PROVE  Quieter \/ Proxied(Fresh)
<1>1. /\ \A c \in DOMAIN calls : c \in DOMAIN calls' /\ calls'[c] = calls[c]
      /\ DOMAIN calls' = DOMAIN calls \cup {Fresh}
      /\ New(Fresh)
  BY ArrivingStep
<1>2. CASE calls'[Fresh].kind = "forwarded"
  BY <1>1, <1>2 DEF New, Proxied, corpus
<1>3. CASE calls'[Fresh].kind # "forwarded"
  <2>1. UNCHANGED <<steps, seen, queue, open, exists, spans>>
    BY <1>1, <1>3 DEF New, corpus, tables
  <2>2. \A c \in DOMAIN calls' : Pending(c)' =>
          IF c \in DOMAIN calls THEN Pending(c) ELSE calls'[c].kind # "forwarded"
    BY <1>1, <1>3, <2>1 DEF Pending, InQueue
  <2>3. QED
    BY <2>1, <2>2 DEF Quieter
<1>4. QED
  BY <1>2, <1>3

LEMMA StepKinds ==
  ASSUME TypeOK, [Next]_vars
  PROVE  Quieter \/ Proxied(Fresh) \/ (\E c \in DOMAIN calls : Taken(c)) \/ Restarted
<1>1. CASE Arriving
  BY <1>1, ArrivingKinds
<1> SUFFICES ASSUME ~Arriving
             PROVE  Quieter \/ (\E c \in DOMAIN calls : Taken(c)) \/ Restarted
  BY <1>1
<1>2. DOMAIN calls' = DOMAIN calls /\ \A c \in DOMAIN calls : Same(c)
  BY OtherStep
<1>3. ASSUME NEW c \in DOMAIN calls, Emit(c) \/ Respond(c) \/ Abort(c)
      PROVE  Quieter
  <2>1. /\ UNCHANGED <<steps, seen, open, exists, spans>> /\ calls[c].phase = "open"
        /\ Record(c) \/ queue' = queue
    BY <1>3 DEF Emit, Respond, Abort, InFlight, tables, corpus
  <2>2. \A d \in DOMAIN calls : InQueue(d)' => InQueue(d) \/ d = c
    BY <2>1, RecordQueue DEF InQueue
  <2>3. \A d \in DOMAIN calls' : Pending(d)' => d \in DOMAIN calls /\ Pending(d)
    BY <1>2, <2>1, <2>2 DEF Pending, Same
  <2>4. QED
    BY <2>1, <2>3 DEF Quieter
<1>4. ASSUME Write \/ WriteFails
      PROVE  \E c \in DOMAIN calls : Taken(c)
  <2> DEFINE h == Head(queue)
  <2>1. queue # <<>> /\ queue' = Tail(queue) /\ UNCHANGED <<calls, steps, seen, clock>>
    BY <1>4 DEF Write, WriteFails, Writing, tables
  <2>2. /\ InQueue(h) /\ h \in DOMAIN calls
        /\ \A d : InQueue(d)' => InQueue(d)
    BY <2>1, TailQueue
  <2>3. Pends
    BY <2>1, <2>2 DEF Pends, Pending
  <2>4. Taken(h)
    BY <1>4, <2>1, <2>2, <2>3 DEF Write, WriteFails, Taken, Creatable, corpus
  <2>5. QED
    BY <2>2, <2>4
<1>5. CASE Sweep \/ Stop
  <2>1. UNCHANGED <<calls, queue, steps, seen, exists, spans>>
    BY <1>5 DEF Sweep, Stop, tables
  <2>2. \A k \in Named : open'[k] \in {open[k], Never}
    BY <1>5 DEF Sweep, Stop
  <2>3. QED
    BY <2>1, <2>2 DEF Quieter, Pending, InQueue
<1>6. CASE Exit
  <2>1. UNCHANGED <<queue, steps, seen, open, exists, spans>>
    BY <1>6 DEF Exit, tables, corpus
  <2>2. QED
    BY <1>2, <2>1 DEF Quieter, Pending, InQueue, Same
<1>7. CASE RestartContainer
  <2>1. queue' = <<>> /\ calls' = Cut
    BY <1>7 DEF RestartContainer
  <2>2. \A c : ~InQueue(c)'
    BY <2>1 DEF InQueue
  <2>3. \A c \in DOMAIN calls : calls'[c].phase # "open"
    <3>1. ASSUME NEW c \in DOMAIN calls
          PROVE  calls'[c].phase # "open"
      <4>1. calls'[c] = IF calls[c].phase = "open" THEN [calls[c] EXCEPT !.phase = "lost"]
                                                   ELSE calls[c]
        BY <2>1 DEF Cut
      <4>2. calls[c] \in Call
        BY CallFields
      <4>3. QED
        BY <4>1, <4>2 DEF Call
    <3>2. QED
      BY <3>1
  <2>4. QED
    BY <1>2, <1>7, <2>2, <2>3 DEF RestartContainer, Restarted, Pending
<1>8. CASE StartDrain \/ Terminate \/ CloseSink \/ Tick \/ UNCHANGED vars
  <2>1. UNCHANGED <<calls, queue, steps, seen, open, exists, spans>>
    BY <1>8 DEF StartDrain, Terminate, CloseSink, Tick, vars, tables, corpus
  <2>2. QED
    BY <2>1 DEF Quieter, Pending, InQueue
<1>9. QED
  BY <1>3, <1>4, <1>5, <1>6, <1>7, <1>8 DEF Next, Arriving

------------------------------------------------------------------------------
(* Time and files.                                                          *)

LEMMA PendingShrinks ==
  ASSUME TypeOK, [Next]_vars, NEW c \in DOMAIN calls, Pending(c)'
  PROVE  Pending(c)
<1>1. c \in DOMAIN calls'
  BY CallsKept DEF Same
<1>2. QED
  BY <1>1, StepKinds DEF Quieter, Proxied, Taken, Pends, Restarted, Pending, InQueue

\* Time passes in a step of its own, when nothing is queued or overdue.
LEMMA ClockKinds ==
  ASSUME TypeOK, [Next]_vars
  PROVE  \/ clock' = clock
         \/ /\ clock' = clock + 1 /\ UNCHANGED <<calls, queue, open>>
            /\ WorkerKeepsUp /\ CallsKeepUp
<1>1. CASE Arriving
  BY <1>1, ClockStep
<1>2. CASE \E c \in DOMAIN calls : Emit(c) \/ Respond(c) \/ Abort(c)
  BY <1>2 DEF Emit, Respond, Abort
<1>3. CASE Write \/ WriteFails \/ Sweep \/ StartDrain \/ Stop
  BY <1>3 DEF Write, WriteFails, Sweep, StartDrain, Stop
<1>4. CASE Terminate \/ CloseSink \/ Exit \/ RestartContainer \/ UNCHANGED vars
  BY <1>4 DEF Terminate, CloseSink, Exit, RestartContainer, vars
<1>5. CASE Tick
  BY <1>5 DEF Tick, corpus
<1>6. QED
  BY <1>1, <1>2, <1>3, <1>4, <1>5 DEF Next, Arriving

LEMMA HalfIdle == Idle \div 2 \in Nat
BY Constants

LEMMA RecentNext == TypeOK /\ Dated /\ Recent /\ [Next]_vars => Recent'
<1> SUFFICES ASSUME TypeOK, Dated, Recent, [Next]_vars PROVE Recent'
  OBVIOUS
<1> DEFINE half == Idle \div 2
<1>0. /\ clock \in Nat /\ CallTime \in Nat /\ Idle \in Nat /\ half \in Nat
      /\ TypeOK'
  BY Constants, TimesAreNat, HalfIdle, TypeNext
<1>1. /\ \A c \in DOMAIN calls : Pending(c) => clock <= calls[c].at + CallTime
      /\ \A k \in Named : open[k] # Never => open[k] <= clock /\ clock <= open[k] + Idle + half + 1
      /\ \A k \in Named : open[k] # Never => open[k] \in Nat
  BY DEF Recent, TypeOK
<1> SUFFICES /\ \A c \in DOMAIN calls' : Pending(c)' => clock' <= calls'[c].at + CallTime
             /\ \A k \in Named : open'[k] # Never =>
                  open'[k] <= clock' /\ clock' <= open'[k] + Idle + half + 1
  BY DEF Recent
<1> HIDE DEF half
<1>2. CASE clock' = clock
  <2>1. ASSUME NEW c \in DOMAIN calls', Pending(c)'
        PROVE  clock' <= calls'[c].at + CallTime
    <3>1. CASE c \in DOMAIN calls
      BY <1>1, <1>2, <2>1, <3>1, PendingShrinks, CallsKept DEF Same
    <3>2. CASE c \notin DOMAIN calls
      <4>1. calls'[c].at = clock
        BY <3>2, ArrivingStep, OtherStep DEF New
      <4>2. QED
        BY <1>0, <1>2, <4>1
    <3>3. QED
      BY <3>1, <3>2
  <2>2. ASSUME NEW k \in Named, open'[k] # Never
        PROVE  open'[k] <= clock' /\ clock' <= open'[k] + Idle + half + 1
    <3>1. open'[k] = open[k] \/ open'[k] = clock
      <4>1. open \in [Named -> Nat \cup {Never}]
        BY DEF TypeOK
      <4>2. ASSUME NEW c \in DOMAIN calls, Taken(c)
            PROVE  open'[k] = open[k] \/ open'[k] = clock
        BY <4>1, <4>2 DEF Taken, corpus
      <4>3. QED
        BY <2>2, <4>2, StepKinds DEF Quieter, Proxied, Restarted, corpus
    <3>2. QED
      BY <1>0, <1>1, <1>2, <2>2, <3>1
  <2>3. QED
    BY <2>1, <2>2
<1>3. CASE /\ clock' = clock + 1 /\ UNCHANGED <<calls, queue, open>>
           /\ WorkerKeepsUp /\ CallsKeepUp
  <2>1. ASSUME NEW c \in DOMAIN calls', Pending(c)'
        PROVE  clock' <= calls'[c].at + CallTime
    <3>1. c \in DOMAIN calls /\ calls[c].phase = "open"
      BY <1>3, <2>1 DEF Pending, InQueue, WorkerKeepsUp
    <3>2. clock < calls[c].at + CallTime /\ calls[c].at \in Nat
      BY <1>3, <3>1, CallFields DEF CallsKeepUp
    <3>3. QED
      BY <1>0, <1>3, <3>2
  <2>2. ASSUME NEW k \in Named, open'[k] # Never
        PROVE  open'[k] <= clock' /\ clock' <= open'[k] + Idle + half + 1
    <3>1. open'[k] = open[k] /\ clock <= open[k] + Idle + half
      BY <1>3, <2>2 DEF WorkerKeepsUp, half
    <3>2. QED
      BY <1>0, <1>1, <1>3, <2>2, <3>1
  <2>3. QED
    BY <2>1, <2>2
<1>4. QED
  BY <1>2, <1>3, ClockKinds

LEMMA FiledNext == TypeOK /\ Filed /\ [Next]_vars => Filed'
<1> SUFFICES ASSUME TypeOK, Filed, [Next]_vars, NEW k \in Named
             PROVE  /\ \A c \in spans'[k] : c \in DOMAIN calls' /\ calls'[c].key = k
                    /\ spans'[k] # {} \/ open'[k] # Never => k \in exists'
  BY DEF Filed
<1>1. \A c \in DOMAIN calls : c \in DOMAIN calls' /\ calls'[c].key = calls[c].key
  BY CallsKept DEF Same
<1>2. /\ \A c \in spans[k] : c \in DOMAIN calls /\ calls[c].key = k
      /\ spans[k] # {} \/ open[k] # Never => k \in exists
      /\ open \in [Named -> Nat \cup {Never}]
      /\ spans \in [Named -> SUBSET (1..MaxCalls)]
  BY DEF Filed, TypeOK
<1>3. ASSUME NEW h \in DOMAIN calls, Taken(h)
      PROVE  /\ spans'[k] \subseteq spans[k] \cup (IF k = calls[h].key THEN {h} ELSE {})
             /\ k \in exists => k \in exists'
             /\ k = calls[h].key => k \in exists' \/ (spans' = spans /\ open' = open)
             /\ k # calls[h].key => open'[k] = open[k]
  BY <1>2, <1>3 DEF Taken, corpus
<1>4. CASE \E h \in DOMAIN calls : Taken(h)
  BY <1>1, <1>2, <1>3, <1>4
<1>5. CASE Quieter \/ Proxied(Fresh) \/ Restarted
  BY <1>1, <1>2, <1>5 DEF Quieter, Proxied, Restarted, corpus
<1>6. QED
  BY <1>4, <1>5, StepKinds
------------------------------------------------------------------------------
(* Steps.                                                                   *)

\* A proxied call keeps its session and its step.
LEMMA ForwardedKept ==
  ASSUME TypeOK, [Next]_vars, NEW c \in DOMAIN calls
  PROVE  /\ c \in DOMAIN calls' /\ (Forwarded(c)' <=> Forwarded(c))
         /\ calls'[c].key = calls[c].key /\ calls'[c].at = calls[c].at
         /\ Forwarded(c) => calls'[c].step = calls[c].step
BY CallsKept DEF Same, Forwarded

LEMMA SpansKept ==
  ASSUME TypeOK, Filed, [Next]_vars, NEW k \in Named, spans'[k] = spans[k]
  PROVE  /\ AllForwarded(k)' <=> AllForwarded(k)
         /\ AllForwarded(k) => \A c \in spans[k] :
              c \in DOMAIN calls /\ Forwarded(c) /\ calls'[c].step = calls[c].step
<1>1. \A c \in spans[k] : c \in DOMAIN calls
  BY DEF Filed
<1>2. QED
  BY <1>1, ForwardedKept DEF AllForwarded

\* What was written stays distinct when nothing is written.
LEMMA UnwrittenDistinct ==
  ASSUME TypeOK, Filed, ForwardedStepsAreDistinct, [Next]_vars, UNCHANGED spans
  PROVE  ForwardedStepsAreDistinct'
<1> SUFFICES ASSUME NEW k \in Named, AllForwarded(k)',
                    NEW c \in spans[k], NEW d \in spans[k], c # d
             PROVE  calls'[c].step # calls'[d].step
  BY DEF ForwardedStepsAreDistinct, AllForwarded, Forwarded
<1>1. AllForwarded(k)
  BY SpansKept
<1>2. calls'[c].step = calls[c].step /\ calls'[d].step = calls[d].step
  BY <1>1, SpansKept
<1>3. QED
  BY <1>1, <1>2 DEF ForwardedStepsAreDistinct, AllForwarded, Forwarded

LEMMA QuieterSteps == StepInv /\ [Next]_vars /\ Quieter => StepsOK'
<1> SUFFICES ASSUME StepInv, [Next]_vars, Quieter PROVE StepsOK'
  OBVIOUS
<1>0. /\ TypeOK /\ Filed
      /\ \A c \in DOMAIN calls : PendingAhead(c)
      /\ \A k \in Named : OpenAhead(k) /\ OpenDistinct(k)
      /\ PendingDistinct /\ ForwardedStepsAreDistinct
  BY DEF StepInv, StepsOK
<1>1. \A c \in DOMAIN calls' : Pending(c)' /\ Forwarded(c)' =>
        /\ c \in DOMAIN calls /\ Pending(c) /\ Forwarded(c)
        /\ calls'[c].key = calls[c].key /\ calls'[c].at = calls[c].at
        /\ calls'[c].step = calls[c].step
  BY <1>0, ForwardedKept DEF Quieter, Forwarded
<1>2. /\ \A k \in Named : open'[k] # Never => open'[k] = open[k]
      /\ UNCHANGED <<steps, seen, spans>>
  BY DEF Quieter
<1>3. \A c \in DOMAIN calls' : PendingAhead(c)'
  BY <1>0, <1>1, <1>2 DEF PendingAhead
<1>4. ASSUME NEW k \in Named
      PROVE  OpenAhead(k)' /\ OpenDistinct(k)'
  <2> SUFFICES ASSUME open'[k] # Never, AllForwarded(k)', NEW c \in spans[k]
               PROVE  /\ seen[k] # Never /\ seen[k] + CallTime >= open[k]
                      /\ steps[k] > calls'[c].step
                      /\ \A d \in DOMAIN calls' :
                           Pending(d)' /\ Forwarded(d)' /\ calls'[d].key = k /\ c # d =>
                             calls'[c].step # calls'[d].step
    BY <1>2 DEF OpenAhead, OpenDistinct
  <2>1. /\ open[k] # Never /\ AllForwarded(k)
        /\ calls'[c].step = calls[c].step
    BY <1>0, <1>2, SpansKept
  <2>2. QED
    BY <1>0, <1>1, <2>1 DEF OpenAhead, OpenDistinct
<1>5. PendingDistinct'
  BY <1>0, <1>1 DEF PendingDistinct
<1>6. ForwardedStepsAreDistinct'
  BY <1>0, <1>2, UnwrittenDistinct
<1>7. QED
  BY <1>3, <1>4, <1>5, <1>6 DEF StepsOK

LEMMA RestartedSteps == StepInv /\ [Next]_vars /\ Restarted => StepsOK'
<1> SUFFICES ASSUME StepInv, [Next]_vars, Restarted PROVE StepsOK'
  OBVIOUS
<1>1. ForwardedStepsAreDistinct'
  BY UnwrittenDistinct DEF StepInv, StepsOK, Restarted
<1>2. QED
  BY <1>1 DEF StepsOK, Restarted, PendingAhead, OpenAhead, OpenDistinct, PendingDistinct

\* The worker takes a record: what it writes differs from what is in the
\* cassette, which is open or new.
LEMMA TakenSteps ==
  ASSUME StepInv, [Next]_vars, NEW h \in DOMAIN calls, Taken(h)
  PROVE  StepsOK'
<1>0. /\ TypeOK /\ Filed /\ Dated /\ Recent
      /\ \A c \in DOMAIN calls : PendingAhead(c)
      /\ \A k \in Named : OpenAhead(k) /\ OpenDistinct(k)
      /\ PendingDistinct /\ ForwardedStepsAreDistinct
  BY DEF StepInv, StepsOK
<1>1. UNCHANGED <<calls, steps, seen, clock>> /\ Pends /\ Pending(h)
  BY DEF Taken, Pending
<1>n. PICK n \in Named : n = calls[h].key
  BY <1>0, CallFields
<1>2. /\ n \in Named /\ calls[h].at \in Nat /\ calls[h].step \in Nat
      /\ open \in [Named -> Nat \cup {Never}]
      /\ spans \in [Named -> SUBSET (1..MaxCalls)]
      /\ seen \in [Named -> Nat \cup {Never}] /\ steps \in [Named -> Nat]
      /\ clock \in Nat /\ CallTime \in Nat
  BY <1>0, CallFields, Constants, TimesAreNat DEF TypeOK
<1>3. \A c \in DOMAIN calls : Pending(c)' => Pending(c)
  BY <1>1 DEF Pends
<1>4. \A k \in Named \ {n} : open'[k] = open[k] /\ spans'[k] = spans[k]
  BY <1>n, <1>2 DEF Taken, corpus
<1>5. \/ open'[n] = open[n] /\ spans'[n] = spans[n]
      \/ /\ open'[n] = clock /\ spans'[n] = spans[n] \cup {h}
         /\ open[n] # Never \/ spans[n] = {}
      \/ spans'[n] = {}
  BY <1>n, <1>0, <1>2 DEF Taken, Filed, corpus
<1>6. \A c \in DOMAIN calls' : PendingAhead(c)'
  BY <1>0, <1>1, <1>3 DEF PendingAhead, Forwarded
<1>7. PendingDistinct'
  BY <1>0, <1>1, <1>3 DEF PendingDistinct, Forwarded
<1>8. ASSUME NEW k \in Named, open'[k] = open[k], spans'[k] = spans[k]
      PROVE  /\ OpenAhead(k)' /\ OpenDistinct(k)'
             /\ AllForwarded(k)' => \A c, d \in spans'[k] : c # d => calls'[c].step # calls'[d].step
  <2>1. OpenAhead(k)'
    BY <1>0, <1>1, <1>8 DEF OpenAhead, AllForwarded, Forwarded
  <2>2. OpenDistinct(k)'
    BY <1>0, <1>1, <1>3, <1>8 DEF OpenDistinct, AllForwarded, Forwarded
  <2>3. QED
    BY <1>0, <1>1, <1>8, <2>1, <2>2 DEF ForwardedStepsAreDistinct, AllForwarded, Forwarded
<1>9. ASSUME open'[n] = clock, spans'[n] = spans[n] \cup {h}, open[n] # Never \/ spans[n] = {},
             AllForwarded(n)'
      PROVE  /\ OpenAhead(n)' /\ OpenDistinct(n)'
             /\ \A c, d \in spans'[n] : c # d => calls'[c].step # calls'[d].step
  <2>1. AllForwarded(n) /\ Forwarded(h) /\ h \in spans'[n]
    BY <1>1, <1>9 DEF AllForwarded, Forwarded
  <2>2. /\ seen[n] >= calls[h].at /\ steps[n] > calls[h].step
        /\ clock <= calls[h].at + CallTime
    BY <1>n, <1>0, <1>1, <2>1 DEF PendingAhead, Recent
  <2>3. \A c \in spans[n] :
          /\ steps[n] > calls[c].step /\ c \in DOMAIN calls
          /\ c # h => calls[c].step # calls[h].step
          /\ \A d \in DOMAIN calls :
               Pending(d) /\ Forwarded(d) /\ calls[d].key = n /\ c # d =>
                 calls[c].step # calls[d].step
    BY <1>n, <1>0, <1>1, <1>2, <1>9, <2>1 DEF OpenAhead, OpenDistinct, Filed
  <2>4. seen[n] # Never /\ seen[n] + CallTime >= clock
    BY <1>2, <2>2 DEF Never
  <2>5. OpenAhead(n)'
    BY <1>1, <1>9, <2>2, <2>3, <2>4 DEF OpenAhead
  <2>6. \A d \in DOMAIN calls :
          Pending(d) /\ Forwarded(d) /\ calls[d].key = n /\ h # d =>
            calls[h].step # calls[d].step
    BY <1>n, <1>0, <1>1, <2>1 DEF PendingDistinct
  <2>7. OpenDistinct(n)'
    BY <1>1, <1>3, <1>9, <2>3, <2>6 DEF OpenDistinct, Forwarded
  <2>8. \A c, d \in spans[n] : c # d => calls[c].step # calls[d].step
    BY <1>0, <1>2, <2>1 DEF ForwardedStepsAreDistinct, AllForwarded, Forwarded
  <2>9. QED
    BY <1>1, <1>9, <2>3, <2>5, <2>7, <2>8
<1>10. ASSUME NEW k \in Named
       PROVE  /\ OpenAhead(k)' /\ OpenDistinct(k)'
              /\ AllForwarded(k)' => \A c, d \in spans'[k] : c # d => calls'[c].step # calls'[d].step
  <2>1. CASE k # n
    BY <1>4, <1>8, <2>1
  <2>2. CASE k = n /\ spans'[n] = {}
    BY <2>2 DEF OpenAhead, OpenDistinct
  <2>3. CASE k = n /\ open'[n] = open[n] /\ spans'[n] = spans[n]
    BY <1>8, <2>3
  <2>4. CASE k = n /\ open'[n] = clock /\ spans'[n] = spans[n] \cup {h}
                   /\ (open[n] # Never \/ spans[n] = {})
    BY <1>9, <2>4 DEF OpenAhead, OpenDistinct
  <2>5. QED
    BY <1>5, <2>1, <2>2, <2>3, <2>4
<1>11. ForwardedStepsAreDistinct'
  BY <1>10 DEF ForwardedStepsAreDistinct, AllForwarded, Forwarded
<1>12. QED
  BY <1>6, <1>7, <1>10, <1>11 DEF StepsOK
\* The table still holds the sessions of the pending proxied calls and of the
\* open cassettes: TimingAssumption.
LEMMA PendingIsTracked ==
  ASSUME StepInv, NEW c \in DOMAIN calls, Pending(c), Forwarded(c)
  PROVE  Tracked(calls[c].key)
<1> DEFINE half == Idle \div 2
<1>1. /\ seen[calls[c].key] >= calls[c].at /\ clock <= calls[c].at + CallTime
      /\ calls[c].at \in Nat /\ calls[c].key \in Named
      /\ seen \in [Named -> Nat \cup {Never}] /\ clock \in Nat
  BY CallFields, TimesAreNat DEF StepInv, StepsOK, PendingAhead, Recent, TypeOK
<1>2. /\ CallTime \in Nat /\ Idle \in Nat /\ TTL \in Nat /\ half \in Nat
      /\ TTL > CallTime + Idle + half
  BY Constants, HalfIdle, TimingAssumption
<1> HIDE DEF half
<1>3. QED
  BY <1>1, <1>2 DEF Tracked, Never

LEMMA OpenIsTracked ==
  ASSUME StepInv, NEW k \in Named, open[k] # Never, AllForwarded(k), spans[k] # {}
  PROVE  Tracked(k)
<1> DEFINE half == Idle \div 2
<1>1. /\ seen[k] # Never /\ seen[k] + CallTime >= open[k]
      /\ clock <= open[k] + Idle + half + 1
      /\ seen[k] \in Nat \cup {Never} /\ open[k] \in Nat \cup {Never} /\ clock \in Nat
  BY TimesAreNat DEF StepInv, StepsOK, OpenAhead, Recent, TypeOK
<1>2. /\ CallTime \in Nat /\ Idle \in Nat /\ TTL \in Nat /\ half \in Nat
      /\ TTL > CallTime + Idle + half
  BY Constants, HalfIdle, TimingAssumption
<1> HIDE DEF half
<1>3. QED
  BY <1>1, <1>2 DEF Tracked

\* Identify moves a session the table holds forward and forgets none of them.
LEMMA IdentifyKeeps ==
  ASSUME TypeOK, NEW k \in Named, Identify(k)
  PROVE  /\ seen'[k] = clock /\ steps'[k] = NextStep(k) + 1 /\ NextStep(k) \in Nat
         /\ Tracked(k) => NextStep(k) = steps[k]
         /\ \A j \in Named : Tracked(j) =>
              /\ seen'[j] \in {seen[j], clock} /\ seen'[j] # Never
              /\ steps'[j] >= steps[j] /\ steps[j] \in Nat /\ steps'[j] \in Nat
<1>1. /\ clock \in Nat /\ steps \in [Named -> Nat] /\ seen \in [Named -> Nat \cup {Never}]
      /\ NextStep(k) \in Nat
  BY IdentifyType, TimesAreNat DEF TypeOK
<1>2. Tracked(k) => NextStep(k) = steps[k]
  BY DEF NextStep
<1>3. seen'[k] = clock /\ steps'[k] = NextStep(k) + 1
  BY DEF Identify
<1>4. \A j \in Named : Tracked(j) /\ j # k => seen'[j] = seen[j] /\ steps'[j] = steps[j]
  BY DEF Identify
<1>5. \A j \in Named : Tracked(j) => seen[j] # Never
  BY DEF Tracked
<1>6. clock # Never
  BY <1>1, Constants
<1>7. QED
  BY <1>1, <1>2, <1>3, <1>4, <1>5, <1>6

\* A proxied call gets a step beyond those of its session's pending calls and
\* open cassette.
LEMMA ProxiedSteps ==
  ASSUME StepInv, [Next]_vars, NEW n, Proxied(n)
  PROVE  StepsOK'
<1>0. /\ TypeOK /\ Filed /\ Dated /\ Recent
      /\ \A c \in DOMAIN calls : PendingAhead(c)
      /\ \A k \in Named : OpenAhead(k) /\ OpenDistinct(k)
      /\ PendingDistinct /\ ForwardedStepsAreDistinct
  BY DEF StepInv, StepsOK
<1>1. /\ n \notin DOMAIN calls /\ DOMAIN calls' = DOMAIN calls \cup {n}
      /\ \A d \in DOMAIN calls : calls'[d] = calls[d]
      /\ UNCHANGED <<queue, open, exists, spans, clock>>
  BY DEF Proxied, corpus
<1>k. PICK m : m = calls'[n].key
  OBVIOUS
<1>2. m \in Named
  <2>1. TypeOK' /\ n \in DOMAIN calls'
    BY <1>0, <1>1, TypeNext
  <2>2. calls'[n] \in Call
    BY <2>1, ElementOfSeq, LenProperties DEF TypeOK
  <2>3. QED
    BY <1>k, <2>2 DEF Call
<1>3. /\ Identify(m) /\ calls'[n].step = NextStep(m) /\ calls'[n].at = clock
  BY <1>k DEF Proxied
<1>4. /\ \A c \in DOMAIN calls : Pending(c)' /\ Forwarded(c)' => Pending(c) /\ Forwarded(c)
      /\ \A k \in Named : /\ AllForwarded(k)' => AllForwarded(k)
                          /\ \A c \in spans[k] : c \in DOMAIN calls
  BY <1>0, <1>1 DEF Pending, Forwarded, InQueue, AllForwarded, Filed
<1>5. /\ clock \in Nat /\ CallTime \in Nat
      /\ \A c \in DOMAIN calls : /\ calls[c].at \in Nat /\ calls[c].step \in Nat
                                 /\ calls[c].at <= clock /\ calls[c].key \in Named
      /\ \A k \in Named : open[k] # Never => open[k] \in Nat /\ open[k] <= clock
  BY <1>0, CallFields, Constants, TimesAreNat DEF Dated, Recent, TypeOK
<1>6. /\ seen'[m] = clock /\ steps'[m] = NextStep(m) + 1 /\ NextStep(m) \in Nat
      /\ Tracked(m) => NextStep(m) = steps[m]
      /\ \A j \in Named : Tracked(j) =>
           /\ seen'[j] \in {seen[j], clock} /\ seen'[j] # Never
           /\ steps'[j] >= steps[j] /\ steps[j] \in Nat /\ steps'[j] \in Nat
  BY <1>0, <1>2, <1>3, IdentifyKeeps
<1>7. ASSUME NEW c \in DOMAIN calls', Pending(c)', Forwarded(c)'
      PROVE  /\ seen'[calls'[c].key] >= calls'[c].at
             /\ steps'[calls'[c].key] > calls'[c].step
  <2>1. CASE c = n
    BY <1>k, <1>3, <1>5, <1>6, <2>1
  <2>2. CASE c \in DOMAIN calls
    <3>1. Pending(c) /\ Forwarded(c) /\ calls'[c] = calls[c]
      BY <1>1, <1>4, <1>7, <2>2
    <3>2. Tracked(calls[c].key) /\ calls[c].key \in Named
      BY <1>5, <2>2, <3>1, PendingIsTracked
    <3>3. seen[calls[c].key] >= calls[c].at /\ steps[calls[c].key] > calls[c].step
      BY <1>0, <2>2, <3>1 DEF PendingAhead
    <3>4. QED
      BY <1>5, <1>6, <2>2, <3>1, <3>2, <3>3
  <2>3. QED
    BY <1>1, <2>1, <2>2
<1>8. ASSUME NEW c \in DOMAIN calls, Pending(c), Forwarded(c), calls[c].key = m
      PROVE  calls[c].step # calls'[n].step
  <2>1. Tracked(m) /\ steps[m] > calls[c].step
    BY <1>0, <1>8, PendingIsTracked DEF PendingAhead
  <2>2. QED
    BY <1>2, <1>3, <1>5, <1>6, <2>1
<1>9. PendingDistinct'
  <2> SUFFICES ASSUME NEW c \in DOMAIN calls', NEW d \in DOMAIN calls', c # d,
                      Pending(c)', Pending(d)', Forwarded(c)', Forwarded(d)',
                      calls'[c].key = calls'[d].key
               PROVE  calls'[c].step # calls'[d].step
    BY DEF PendingDistinct
  <2>1. CASE c \in DOMAIN calls /\ d \in DOMAIN calls
    BY <1>0, <1>1, <1>4, <2>1 DEF PendingDistinct
  <2>2. CASE c = n
    BY <1>1, <1>k, <1>4, <1>8, <2>2
  <2>3. CASE d = n
    BY <1>1, <1>k, <1>4, <1>8, <2>3
  <2>4. QED
    BY <1>1, <2>1, <2>2, <2>3
<1>10. ASSUME NEW k \in Named, open[k] # Never, AllForwarded(k)', NEW c \in spans[k]
       PROVE  /\ seen'[k] # Never /\ seen'[k] + CallTime >= open[k]
              /\ steps'[k] > calls'[c].step
              /\ \A d \in DOMAIN calls' :
                   Pending(d)' /\ Forwarded(d)' /\ calls'[d].key = k /\ c # d =>
                     calls'[c].step # calls'[d].step
  <2>1. /\ AllForwarded(k) /\ c \in DOMAIN calls /\ calls'[c] = calls[c]
    BY <1>1, <1>4, <1>10
  <2>2. Tracked(k)
    BY <1>10, <2>1, OpenIsTracked
  <2>3. /\ seen[k] + CallTime >= open[k] /\ steps[k] > calls[c].step
        /\ \A d \in DOMAIN calls :
             Pending(d) /\ Forwarded(d) /\ calls[d].key = k /\ c # d =>
               calls[c].step # calls[d].step
    BY <1>0, <1>10, <2>1 DEF OpenAhead, OpenDistinct
  <2>4. seen'[k] # Never /\ seen'[k] + CallTime >= open[k] /\ steps'[k] > calls'[c].step
    BY <1>5, <1>6, <1>10, <2>1, <2>2, <2>3
  <2>5. k = m => calls[c].step # calls'[n].step
    BY <1>3, <1>5, <1>6, <2>1, <2>2, <2>3
  <2>6. QED
    BY <1>1, <1>k, <1>4, <2>1, <2>3, <2>4, <2>5
<1>11. ForwardedStepsAreDistinct'
  BY <1>0, <1>1, UnwrittenDistinct
<1>12. QED
  BY <1>1, <1>7, <1>9, <1>10, <1>11 DEF StepsOK, PendingAhead, OpenAhead, OpenDistinct

LEMMA StepInvInit == Init => StepInv
<1> SUFFICES ASSUME Init PROVE StepInv
  OBVIOUS
<1>1. TypeOK /\ calls = <<>> /\ DOMAIN calls = {}
  BY TypeInit DEF Init
<1>2. \A k \in Named : open[k] = Never /\ spans[k] = {}
  BY DEF Init
<1>3. QED
  BY <1>1, <1>2 DEF StepInv, Dated, Recent, Filed, StepsOK, OpenAhead, OpenDistinct,
     PendingDistinct, ForwardedStepsAreDistinct

LEMMA StepInvNext == StepInv /\ [Next]_vars => StepInv'
<1> SUFFICES ASSUME StepInv, [Next]_vars PROVE StepInv'
  OBVIOUS
<1>1. TypeOK /\ Dated /\ Recent /\ Filed
  BY DEF StepInv
<1>2. StepsOK'
  BY <1>1, StepKinds, QuieterSteps, ProxiedSteps, TakenSteps, RestartedSteps
<1>3. QED
  BY <1>1, <1>2, TypeNext, DatedNext, RecentNext, FiledNext DEF StepInv

\* For every number of sessions and calls and every timing that satisfies
\* TimingAssumption: what Identify, closeIdle and the exclusive creation of
\* cassettes do together never numbers two proxied calls of a cassette alike,
\* through idle sessions, evictions, restarts and failed writes.
THEOREM ProxiedStepsAreDistinct == Spec => []ForwardedStepsAreDistinct
<1>1. StepInv => ForwardedStepsAreDistinct
  BY DEF StepInv, StepsOK
<1>2. QED
  BY <1>1, StepInvInit, StepInvNext, PTL DEF Spec
------------------------------------------------------------------------------
(* Holes.                                                                   *)

\* Where the record of an answered call is.
Kept(c) == c \in spans[calls[c].key] \cup dropped \cup errored \/ InQueue(c)

Answered(c) == Here(c) /\ calls[c].phase = "over" /\ Recordable(c)

LEMMA HolesNext ==
  ASSUME TypeOK, Dated, HolesAreCounted, [Next]_vars, NEW c \in DOMAIN calls', Answered(c)'
  PROVE  Kept(c)'
<1>1. CASE Arriving
  <2>1. /\ DOMAIN calls' = DOMAIN calls \cup {Fresh} /\ New(Fresh)
        /\ \A d \in DOMAIN calls : calls'[d] = calls[d]
    BY <1>1, ArrivingStep
  <2>2. /\ c \in DOMAIN calls /\ calls'[c] = calls[c]
        /\ UNCHANGED <<queue, spans, dropped, errored, life>>
    BY <2>1 DEF New, Answered, Recordable, corpus, counts
  <2>3. QED
    BY <2>2 DEF HolesAreCounted, Answered, Kept, Here, Recordable, InQueue
<1> SUFFICES ASSUME ~Arriving
             PROVE  Kept(c)'
  BY <1>1
<1>2. c \in DOMAIN calls /\ Same(c)
  BY OtherStep
<1>3. /\ calls'[c].key = calls[c].key /\ calls[c].key \in Named
      /\ calls'[c].kind = calls[c].kind /\ calls'[c].life = calls[c].life
      /\ calls'[c].phase = "over" /\ Recordable(c)
  BY <1>2, CallFields DEF Same, Answered, Recordable
<1>4. calls[c].phase = "over" /\ life' = life => Kept(c)
  BY <1>2, <1>3 DEF HolesAreCounted, Answered, Kept, Here
<1>5. ASSUME NEW d \in DOMAIN calls, Emit(d) \/ Respond(d) \/ Abort(d)
      PROVE  Kept(c)'
  <2>1. UNCHANGED <<spans, errored, life>> /\ (Abort(d) \/ Record(d))
    BY <1>5 DEF Emit, Respond, Abort, corpus, counts
  <2>2. CASE Record(d)
    <3>1. /\ \A e : InQueue(e) => InQueue(e)'
          /\ d \in dropped' \/ InQueue(d)'
          /\ dropped \subseteq dropped'
      BY <2>2, RecordQueue
    <3>2. CASE c = d
      BY <3>1, <3>2 DEF Kept
    <3>3. CASE c # d
      <4>1. calls'[c].phase = calls[c].phase
        BY <1>2, <1>5, <3>3 DEF Emit, Respond, Abort, Finish
      <4>2. QED
        BY <1>3, <1>4, <2>1, <3>1, <4>1 DEF Kept
    <3>4. QED
      BY <3>2, <3>3
  <2>3. CASE Abort(d)
    <3>1. UNCHANGED <<queue, dropped>> /\ calls' = [calls EXCEPT ![d].phase = "lost"]
      BY <2>3 DEF Abort, Finish, counts
    <3>2. calls'[c].phase = calls[c].phase
      BY <1>2, <1>3, <3>1, CallFields DEF Call
    <3>3. QED
      BY <1>3, <1>4, <2>1, <3>1, <3>2 DEF Kept, InQueue
  <2>4. QED
    BY <2>1, <2>2, <2>3
<1>6. ASSUME Write \/ WriteFails
      PROVE  Kept(c)'
  <2> DEFINE h == Head(queue)
  <2>1. /\ queue # <<>> /\ queue' = Tail(queue) /\ UNCHANGED <<calls, dropped, life>>
    BY <1>6 DEF Write, WriteFails, Writing
  <2>2. Kept(c)
    BY <1>3, <1>4, <2>1
  <2>3. h \in DOMAIN calls /\ (InQueue(c) => c = h \/ InQueue(c)')
    BY <2>1, TailQueue
  <2>4. /\ calls[h].key \in Named /\ spans \in [Named -> SUBSET (1..MaxCalls)]
    BY <2>3, CallFields DEF TypeOK
  <2>5. \/ spans' = [spans EXCEPT ![calls[h].key] = @ \cup {h}] /\ errored' = errored
        \/ spans' = spans /\ errored' = errored \cup {h}
    BY <1>6 DEF Write, WriteFails, Fail, corpus
  <2> HIDE DEF h
  <2>6. QED
    BY <1>3, <2>1, <2>2, <2>3, <2>4, <2>5 DEF Kept
<1>7. CASE Sweep \/ StartDrain \/ Stop \/ Terminate \/ CloseSink \/ Tick \/ UNCHANGED vars
  <2>1. UNCHANGED <<calls, queue, spans, dropped, errored, life>>
    BY <1>7 DEF Sweep, StartDrain, Stop, Terminate, CloseSink, Tick, vars, corpus, counts
  <2>2. QED
    BY <1>3, <1>4, <2>1 DEF Kept, InQueue
<1>8. CASE Exit
  <2>1. UNCHANGED <<queue, spans, dropped, errored, life>> /\ calls' = Cut
    BY <1>8 DEF Exit, corpus, counts
  <2>2. calls[c].phase = "over"
    BY <1>2, <1>3, <2>1, CallFields DEF Cut, Call
  <2>3. QED
    BY <1>3, <1>4, <2>1, <2>2 DEF Kept, InQueue
<1>9. CASE RestartContainer
  <2>1. calls[c].life = life + 1 /\ calls[c].life <= life /\ life \in Nat
    BY <1>2, <1>3, <1>9, TimesAreNat DEF RestartContainer, Answered, Here, Dated
  <2>2. QED
    BY <2>1
<1>10. QED
  BY <1>5, <1>6, <1>7, <1>8, <1>9 DEF Next, Arriving

\* For every depth of the queue: a call that was answered is written, queued or
\* counted, so the counters tell every hole, except those of a container that
\* was killed.
THEOREM HolesCounted == Spec => []HolesAreCounted
<1> DEFINE HoleInv == TypeOK /\ Dated /\ HolesAreCounted
<1>1. Init => HoleInv
  <2> SUFFICES ASSUME Init PROVE HoleInv
    OBVIOUS
  <2>1. TypeOK /\ DOMAIN calls = {}
    BY TypeInit DEF Init
  <2>2. QED
    BY <2>1 DEF Dated, HolesAreCounted
<1>2. HoleInv /\ [Next]_vars => HoleInv'
  <2> SUFFICES ASSUME HoleInv, [Next]_vars PROVE HoleInv'
    OBVIOUS
  <2>1. TypeOK' /\ Dated'
    BY TypeNext, DatedNext
  <2>2. HolesAreCounted'
    BY HolesNext DEF HolesAreCounted, Answered, Kept, Here, Recordable
  <2>3. QED
    BY <2>1, <2>2
<1>3. HoleInv => HolesAreCounted
  OBVIOUS
<1> HIDE DEF HoleInv
<1>4. QED
  BY <1>1, <1>2, <1>3, PTL DEF Spec
==============================================================================
