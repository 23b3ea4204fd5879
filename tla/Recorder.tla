------------------------------ MODULE Recorder -------------------------------
(***************************************************************************)
(* The recorder sidecar of a shadow deployment: the proxies and write      *)
(* suppressors that serve an agent's calls, the sink that turns completed  *)
(* records into cassettes on a worker goroutine, and the shutdown of both. *)
(*                                                                         *)
(* Handlers, the worker and the main goroutine share the session table,    *)
(* the suppressors' tables and the queue.  Each takes its lock, or the     *)
(* channel, once per action below.  A container restart (RestartContainer) *)
(* forgets everything but the corpus directory.  A sidecar that does not   *)
(* suppress writes is this one with Forward as its only arrival.           *)
(***************************************************************************)
EXTENDS Integers, Sequences, FiniteSets

CONSTANTS
  Conversations,  \* runs of the agent
  Identified,     \* those that send trace context or the session header
  Unattributed,   \* the session under which a suppressor files the others
  Tools,          \* labels of the tool upstreams, one suppressor each
  Writes,         \* distinct write requests: a tool with its arguments
  NoWrite,        \* a call that names no invented object
  QueueDepth,     \* records the sink's channel holds
  Idle,           \* ticks without a record after which a cassette is closed
  TTL,            \* ticks after which sessions and invented objects are dropped
  CallTime,       \* assumption: ticks a proxied call is open at most
  MaxCalls,       \* bound: calls
  MaxTime,        \* bound: ticks
  MaxFaults       \* bound: container restarts and failed writes

\* Nothing in the code relates -session-idle, the 30 minutes of NewSessions and
\* the length of a call, which has no write timeout; the defaults satisfy this
\* for calls of up to 26 minutes.
ASSUME TimingAssumption ==
  /\ Idle \in Nat /\ TTL \in Nat /\ CallTime \in Nat
  /\ TTL > CallTime + Idle + Idle \div 2

ASSUME RecorderAssumption ==
  /\ Identified \subseteq Conversations
  /\ Conversations \cap Nat = {}
  /\ Unattributed \notin Conversations \cup Nat
  /\ NoWrite \notin Writes
  /\ QueueDepth \in Nat /\ MaxCalls \in Nat /\ MaxTime \in Nat /\ MaxFaults \in Nat

\* Sessions.  A synthetic one is named by the call it was made for.
Named == Identified \cup 1..MaxCalls \cup {Unattributed}
Never == -1       \* no entry in the table

\* A call and, once it is over, its record.  "suppressed" and "refused" are the
\* suppressor's own answers, "answered" one from its registry, which is never
\* recorded.  "invents" is the write a suppressed call made an object of.  A
\* "lost" call never reached finalise.
Call == [via: Tools, invents: Writes \cup {NoWrite}, key: Named, step: Nat, at: Nat,
         life: Nat, phase: {"open", "over", "lost"},
         kind: {"forwarded", "suppressed", "refused", "answered"}]

VARIABLES
  calls,      \* the calls made, in order of arrival
  steps,      \* Sessions: session -> next step
  seen,       \* Sessions: session -> last arrival, or Never
  emitted,    \* suppressor -> session -> its next step
  objects,    \* registry -> session -> the writes it invented an object for
  minted,     \* registry -> session -> last invention, or Never
  queue,      \* the sink's channel
  open,       \* session -> last write to its open cassette, or Never
  exists,     \* sessions that have a cassette file
  spans,      \* session -> calls recorded in its cassette
  dropped,    \* calls whose record found the queue full
  errored,    \* calls whose record could not be written
  worker,     \* the sink's goroutine
  server,     \* the main goroutine
  life,       \* container restarts so far
  clock,      \* time, in ticks
  faults      \* faults injected so far

tables == <<steps, seen, emitted, objects, minted>>
corpus == <<open, exists, spans>>
counts == <<dropped, errored>>
vars   == <<calls, steps, seen, emitted, objects, minted, queue, open, exists,
            spans, dropped, errored, worker, server, life, clock, faults>>

InQueue(c) == \E i \in DOMAIN queue : queue[i] = c

TypeOK ==
  /\ calls \in Seq(Call) /\ Len(calls) <= MaxCalls
  /\ steps \in [Named -> Nat]
  /\ seen \in [Named -> Nat \cup {Never}]
  /\ emitted \in [Tools -> [Named -> Nat]]
  /\ objects \in [Tools -> [Named -> SUBSET Writes]]
  /\ minted \in [Tools -> [Named -> Nat \cup {Never}]]
  /\ queue \in Seq(DOMAIN calls) /\ Len(queue) <= QueueDepth
  /\ open \in [Named -> Nat \cup {Never}]
  /\ exists \subseteq Named
  /\ spans \in [Named -> SUBSET (1..MaxCalls)]
  /\ dropped \subseteq 1..MaxCalls
  /\ errored \subseteq 1..MaxCalls
  /\ worker \in {"running", "draining", "stopped"}
  /\ server \in {"serving", "stopping", "closing", "exited"}
  /\ life \in Nat /\ clock \in 0..MaxTime /\ faults \in 0..MaxFaults

------------------------------------------------------------------------------
(* Sessions and step indices.                                               *)

\* evictLocked: an entry is dropped when it was seen before clock - TTL.
TrackedForIdle(k) == seen[k] # Never /\ seen[k] >= clock - Idle
Tracked(k)        == seen[k] # Never /\ seen[k] >= clock - TTL

NextStep(k) == IF Tracked(k) THEN steps[k] ELSE 0

\* Identify evicts, then hands out the next step of session k.
Identify(k) ==
  /\ seen'  = [j \in Named |-> IF j = k THEN clock
                               ELSE IF Tracked(j) THEN seen[j] ELSE Never]
  /\ steps' = [j \in Named |-> IF j = k THEN NextStep(k) + 1
                               ELSE IF Tracked(j) THEN steps[j] ELSE 0]

\* The session of a forwarded call, and of a call a suppressor answers.
ProxySession(s, c)   == IF s \in Identified THEN s ELSE c
SuppressorSession(s) == IF s \in Identified THEN s ELSE Unattributed

------------------------------------------------------------------------------
(* The registry of invented objects.                                        *)

RetainedForIdle(t, k) == minted[t][k] # Never /\ minted[t][k] >= clock - Idle
Retained(t, k)        == minted[t][k] # Never /\ minted[t][k] >= clock - TTL

\* lookup: it neither evicts nor refreshes.
Remembered(t, k, w) == w \in objects[t][k]

\* mint evicts, then records the object write w invents in session k.
Mint(t, k, w) ==
  LET kept(j) == IF Retained(t, j) THEN objects[t][j] ELSE {} IN
  /\ minted'  = [minted EXCEPT ![t] = [j \in Named |->
                   IF j = k THEN clock ELSE IF Retained(t, j) THEN @[j] ELSE Never]]
  /\ objects' = [objects EXCEPT ![t] = [j \in Named |->
                   IF j = k THEN kept(k) \cup {w} ELSE kept(j)]]

------------------------------------------------------------------------------
(* The sink's side of a completed call.                                     *)

RecordBlindly(c) == queue' = Append(queue, c) /\ UNCHANGED dropped

\* Record never blocks: a full queue drops the record and counts it.
Record(c) ==
  \/ /\ Len(queue) < QueueDepth
     /\ queue' = Append(queue, c)
     /\ UNCHANGED dropped
  \/ /\ Len(queue) >= QueueDepth
     /\ dropped' = dropped \cup {c}
     /\ UNCHANGED queue

FailSilently(c) == UNCHANGED errored
Fail(c)         == errored' = errored \cup {c}

------------------------------------------------------------------------------
(* The calls of the agent.                                                  *)

Accepting == server = "serving" /\ Len(calls) < MaxCalls
Fresh     == Len(calls) + 1

Arrive(kind, t, w, k, step, phase) ==
  calls' = Append(calls, [kind |-> kind, via |-> t, invents |-> w, key |-> k,
                          step |-> step, at |-> clock, life |-> life, phase |-> phase])

Finish(c, phase) == calls' = [calls EXCEPT ![c].phase = phase]

\* A call that is proxied: to the model, protocol chatter, or a read of tool t
\* that names no object the suppressor of t invented for this session.
Forward(s, t, w) ==
  LET k == ProxySession(s, Fresh) IN
  /\ Accepting
  /\ ~Remembered(t, SuppressorSession(s), w)
  /\ Arrive("forwarded", t, NoWrite, k, NextStep(k), "open")
  /\ Identify(k)
  /\ UNCHANGED <<emitted, objects, minted, queue, corpus, counts, worker, server,
                 life, clock, faults>>

\* A call that names an invented object, whatever its tool does, is answered
\* from the registry and not recorded.
ReadBack(s, t, w) ==
  /\ Accepting
  /\ Remembered(t, SuppressorSession(s), w)
  /\ Arrive("answered", t, NoWrite, SuppressorSession(s), 0, "over")
  /\ UNCHANGED <<tables, queue, corpus, counts, worker, server, life, clock, faults>>

\* A write is answered with an object instead of being performed.
Suppress(s, t, w) ==
  /\ Accepting
  /\ Arrive("suppressed", t, w, SuppressorSession(s), 0, "open")
  /\ Mint(t, SuppressorSession(s), w)
  /\ UNCHANGED <<steps, seen, emitted, queue, corpus, counts, worker, server, life,
                 clock, faults>>

\* A tool nobody classified is refused.
Refuse(s, t) ==
  /\ Accepting
  /\ Arrive("refused", t, NoWrite, SuppressorSession(s), 0, "open")
  /\ UNCHANGED <<tables, queue, corpus, counts, worker, server, life, clock, faults>>

InFlight(c) == calls[c].phase = "open" /\ server # "exited"

\* emit: a suppressed or refused call gets its step from the suppressor's own
\* counter, goes to the sink, and is answered.
Emit(c) ==
  LET t == calls[c].via
      k == calls[c].key
  IN /\ InFlight(c)
     /\ calls[c].kind \in {"suppressed", "refused"}
     /\ calls' = [calls EXCEPT ![c].step = emitted[t][k], ![c].phase = "over"]
     /\ emitted' = [emitted EXCEPT ![t][k] = @ + 1]
     /\ Record(c)
     /\ UNCHANGED <<steps, seen, objects, minted, corpus, errored, worker, server,
                    life, clock, faults>>

\* The response was delivered, or the upstream failed: finalise records both.
Respond(c) ==
  /\ InFlight(c)
  /\ calls[c].kind = "forwarded"
  /\ Finish(c, "over")
  /\ Record(c)
  /\ UNCHANGED <<tables, corpus, errored, worker, server, life, clock, faults>>

\* The body breaks off while it is copied to the client: ReverseProxy panics,
\* and ServeHTTP never reaches finalise.
Abort(c) ==
  /\ InFlight(c)
  /\ calls[c].kind = "forwarded"
  /\ Finish(c, "lost")
  /\ UNCHANGED <<tables, queue, corpus, counts, worker, server, life, clock, faults>>

------------------------------------------------------------------------------
(* The worker goroutine.                                                    *)

\* corpus.FS.Create opens the file with O_EXCL.
CreatableAgain(k) == TRUE
Creatable(k)      == k \notin exists

Writing == worker \in {"running", "draining"} /\ queue # <<>>

\* write: the next record goes to its open cassette, or to a new one, or is
\* counted as an error when the session's cassette was closed before.
Write ==
  LET c == Head(queue)
      k == calls[c].key
      writable == open[k] # Never \/ Creatable(k)
  IN /\ Writing
     /\ queue' = Tail(queue)
     /\ \/ /\ writable
           /\ exists' = exists \cup {k}
           /\ open' = [open EXCEPT ![k] = clock]
           /\ spans' = [spans EXCEPT ![k] = @ \cup {c}]
           /\ UNCHANGED errored
        \/ ~writable /\ Fail(c) /\ UNCHANGED corpus
     /\ UNCHANGED <<calls, tables, dropped, worker, server, life, clock, faults>>

\* The store fails: no file, or a cassette is open and the span is not in it.
WriteFails ==
  LET c == Head(queue)
      k == calls[c].key
  IN /\ Writing
     /\ faults < MaxFaults /\ faults' = faults + 1
     /\ queue' = Tail(queue)
     /\ Fail(c)
     /\ \/ UNCHANGED corpus
        \/ /\ open[k] = Never /\ Creatable(k)
           /\ exists' = exists \cup {k}
           /\ open' = [open EXCEPT ![k] = clock]
           /\ UNCHANGED spans
     /\ UNCHANGED <<calls, tables, dropped, worker, server, life, clock>>

Quiet(k) == open[k] # Never /\ open[k] < clock - Idle

\* closeIdle(false), on the sweep ticker.
Sweep ==
  /\ worker = "running"
  /\ \E k \in Named : Quiet(k)
  /\ open' = [k \in Named |-> IF Quiet(k) THEN Never ELSE open[k]]
  /\ UNCHANGED <<calls, tables, queue, exists, spans, counts, worker, server, life,
                 clock, faults>>

\* The worker sees the closing channel.
StartDrain ==
  /\ worker = "running" /\ server = "closing"
  /\ worker' = "draining"
  /\ UNCHANGED <<calls, tables, queue, corpus, counts, server, life, clock, faults>>

DrainedAtOnce == TRUE
Drained       == queue = <<>>

\* Nothing is queued: closeIdle(true), and the goroutine ends.
Stop ==
  /\ worker = "draining" /\ Drained
  /\ worker' = "stopped"
  /\ open' = [k \in Named |-> Never]
  /\ UNCHANGED <<calls, tables, queue, exists, spans, counts, server, life, clock,
                 faults>>

------------------------------------------------------------------------------
(* The main goroutine, restarts and time.                                   *)

\* SIGTERM: http.Server.Shutdown accepts no more calls.
Terminate ==
  /\ server = "serving"
  /\ server' = "stopping"
  /\ UNCHANGED <<calls, tables, queue, corpus, counts, worker, life, clock, faults>>

NoCallOpen     == \A c \in DOMAIN calls : calls[c].phase # "open"

\* Shutdown returns when no call is open, and after 30 seconds when one is.
ShutdownReturns == TRUE

\* Serve returned; Close signals the worker and waits for it.
CloseSink ==
  /\ server = "stopping" /\ ShutdownReturns
  /\ server' = "closing"
  /\ UNCHANGED <<calls, tables, queue, corpus, counts, worker, life, clock, faults>>

\* The calls that were still open.
Cut == [c \in DOMAIN calls |->
          IF calls[c].phase = "open" THEN [calls[c] EXCEPT !.phase = "lost"] ELSE calls[c]]

\* main returns.
Exit ==
  /\ server = "closing" /\ worker = "stopped"
  /\ server' = "exited"
  /\ calls' = Cut
  /\ UNCHANGED <<tables, queue, corpus, counts, worker, life, clock, faults>>

\* The container is killed, or was stopped, and starts again on the same volume.
RestartContainer ==
  /\ faults < MaxFaults /\ faults' = faults + 1
  /\ life' = life + 1
  /\ calls' = Cut
  /\ steps' = [k \in Named |-> 0]
  /\ seen' = [k \in Named |-> Never]
  /\ emitted' = [t \in Tools |-> [k \in Named |-> 0]]
  /\ objects' = [t \in Tools |-> [k \in Named |-> {}]]
  /\ minted' = [t \in Tools |-> [k \in Named |-> Never]]
  /\ queue' = <<>>
  /\ open' = [k \in Named |-> Never]
  /\ dropped' = {} /\ errored' = {}
  /\ worker' = "running" /\ server' = "serving"
  /\ UNCHANGED <<exists, spans, clock>>

\* A tick is long for the worker: it ends with the queue empty, and with no
\* cassette open that the sweep, twice per idle period, should have closed.
WorkerKeepsUp ==
  /\ queue = <<>>
  /\ \A k \in Named : open[k] # Never => clock <= open[k] + Idle + Idle \div 2

CallsKeepUp == \A c \in DOMAIN calls :
                 calls[c].phase = "open" => clock < calls[c].at + CallTime

\* A shutdown, at most 30 seconds and the flush, is shorter than a tick, and a
\* container that is down holds nothing that ages.
Tick ==
  /\ clock < MaxTime
  /\ server = "serving"
  /\ WorkerKeepsUp /\ CallsKeepUp
  /\ clock' = clock + 1
  /\ UNCHANGED <<calls, tables, queue, corpus, counts, worker, server, life, faults>>

Init ==
  /\ calls = <<>>
  /\ steps = [k \in Named |-> 0]
  /\ seen = [k \in Named |-> Never]
  /\ emitted = [t \in Tools |-> [k \in Named |-> 0]]
  /\ objects = [t \in Tools |-> [k \in Named |-> {}]]
  /\ minted = [t \in Tools |-> [k \in Named |-> Never]]
  /\ queue = <<>>
  /\ open = [k \in Named |-> Never]
  /\ exists = {}
  /\ spans = [k \in Named |-> {}]
  /\ dropped = {} /\ errored = {}
  /\ worker = "running" /\ server = "serving"
  /\ life = 0 /\ clock = 0 /\ faults = 0

Next ==
  \/ \E s \in Conversations, t \in Tools :
       \/ \E w \in Writes \cup {NoWrite} : Forward(s, t, w)
       \/ \E w \in Writes : ReadBack(s, t, w) \/ Suppress(s, t, w)
       \/ Refuse(s, t)
  \/ \E c \in DOMAIN calls : Emit(c) \/ Respond(c) \/ Abort(c)
  \/ Write \/ WriteFails \/ Sweep \/ StartDrain \/ Stop
  \/ Terminate \/ CloseSink \/ Exit \/ RestartContainer \/ Tick

\* The runtime schedules the worker and the main goroutine.  Nothing is assumed
\* of handlers, upstreams, signals and time, nor of the select that chooses
\* between the queue and the closing channel beyond its taking a ready branch.
Fairness ==
  /\ WF_vars(Write \/ StartDrain) /\ WF_vars(Stop)
  /\ WF_vars(CloseSink) /\ WF_vars(Exit)

Spec     == Init /\ [][Next]_vars
FairSpec == Spec /\ Fairness

------------------------------------------------------------------------------
(* Properties.                                                              *)

Recordable(c) == calls[c].kind # "answered"
Here(c)       == calls[c].life = life

\* No two calls of a cassette of proxied calls carry the same step, although
\* the session table forgets idle sessions and everything at a restart:
\* evictLocked, closeIdle and the exclusive creation of files work together for
\* this.  A suppressor keeps a cassette open without refreshing that table.
ForwardedStepsAreDistinct ==
  \A k \in Named : (\A c \in spans[k] : calls[c].kind = "forwarded") =>
    \A c, d \in spans[k] : c # d => calls[c].step # calls[d].step

\* Session's comment says so of every call: the counter is per session and
\* monotonic.
StepsAreDistinct ==
  \A k \in Named : \A c, d \in spans[k] : c # d => calls[c].step # calls[d].step

\* A hole in a cassette is counted: the record of a call that was answered is
\* in its cassette, in the queue, or in one of the sink's two counters.
HolesAreCounted ==
  \A c \in DOMAIN calls :
    Here(c) /\ calls[c].phase = "over" /\ Recordable(c) =>
      c \in spans[calls[c].key] \cup dropped \cup errored \/ InQueue(c)

\* What a write invented is still in the registry when its session asks for it,
\* so that no call naming it is forwarded while the TTL lasts and the container
\* lives, whatever other sessions mint meanwhile.
OwnWritesAreRemembered ==
  \A c \in DOMAIN calls :
    /\ calls[c].kind = "suppressed" /\ Here(c)
    /\ clock <= calls[c].at + TTL
    => Remembered(calls[c].via, calls[c].key, calls[c].invents)

Settled(c) == c \in DOMAIN calls /\
              (c \in spans[calls[c].key] \cup errored \/ calls[c].life # life)

\* A record the sink accepted before its worker ended is written or counted as
\* an error, through a shutdown too, unless the container is killed.
AcceptedIsSettled ==
  \A c \in 1..MaxCalls : (worker # "stopped" /\ InQueue(c)) ~> Settled(c)

\* A shutdown ends, also while an upstream never answers: neither Shutdown nor
\* Close waits for what need not come.
ShutdownEnds == server = "stopping" ~> server \in {"exited", "serving"}
==============================================================================
