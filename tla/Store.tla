------------------------------- MODULE Store -------------------------------
(***************************************************************************)
(* The store under a corpus: recorders that put large payloads into a      *)
(* content-addressed store, in a directory or in S3, and append the spans  *)
(* that refer to them to the cassette of their session.  Any step may      *)
(* fail, a recorder may be killed between any two, and a node may lose     *)
(* what was not synced.                                                    *)
(*                                                                         *)
(* File systems and S3 are external: a rename and an object upload are     *)
(* atomic.  A node that loses power keeps for certain only the synced part *)
(* of what its files hold; and as nothing here syncs a directory, it may   *)
(* lose a file whole, the name a rename has given it included.             *)
(***************************************************************************)
EXTENDS Naturals, Sequences

CONSTANTS
  Backends,   \* of {"fs", "s3"}
  Contents,   \* payloads
  Large,      \* those above the inline threshold
  Writers,    \* recorders
  Sessions,
  Size,       \* chunks a payload is written in
  MaxSpans,   \* bound: spans of a cassette
  MaxCrashes, \* bound: kills and power losses
  None

Files     == [data : 0..Size, synced : 0..Size]
Cassettes == [by : Writers, header : {"none", "cut", "whole"}, lines : Seq(Contents \cup {"cut"})]

ASSUME StoreAssumption ==
  /\ Backends \subseteq {"fs", "s3"} /\ Large \subseteq Contents
  /\ Size \in Nat \ {0} /\ MaxSpans \in Nat /\ MaxCrashes \in Nat
  /\ None \notin Contents /\ None \notin Writers /\ None \notin Sessions
  /\ None \notin Files /\ None \notin Cassettes /\ "cut" \notin Contents

VARIABLES
  backend,
  blob,      \* content -> what is under its digest: [data, synced] chunks, or None
  tmp,       \* writer -> the file or buffer it copies a payload into, or None
  told,      \* contents whose digest a put returned
  cassette,  \* session -> [by, header, lines], or None
  pc,        \* writer -> what it is about to do
  session,   \* writer -> the session it records
  payload,   \* writer -> the payload of the span it is writing
  crashes

blobs == <<blob, told>>
vars  == <<backend, blob, tmp, told, cassette, pc, session, payload, crashes>>

Whole == [data |-> Size, synced |-> Size]
Fresh == [data |-> 0, synced |-> 0]

-----------------------------------------------------------------------------
(* What a reader sees.                                                     *)

\* Get finds whatever is under the digest; a payload is what was put.
Has(c)      == blob[c] # None
Resolves(c) == Has(c) /\ blob[c].data = Size

\* List skips a cassette whose header cannot be read.
Listed(s)   == cassette[s] # None /\ cassette[s].header = "whole"

-----------------------------------------------------------------------------
(* corpus.FS.Create: a session is created once, with its header.           *)

Goto(w, l) == pc' = [pc EXCEPT ![w] = l]

\* Mutant: a session that is already recorded is recorded anew.
CreateOver(w, s) ==
  /\ pc[w] = "start"
  /\ cassette' = [cassette EXCEPT ![s] = [by |-> w, header |-> "none", lines |-> <<>>]]
  /\ session' = [session EXCEPT ![w] = s]
  /\ Goto(w, "header")
  /\ UNCHANGED <<backend, blobs, tmp, payload, crashes>>

Create(w, s) ==
  /\ pc[w] = "start"
  /\ cassette[s] = None
  /\ cassette' = [cassette EXCEPT ![s] = [by |-> w, header |-> "none", lines |-> <<>>]]
  /\ session' = [session EXCEPT ![w] = s]
  /\ Goto(w, "header")
  /\ UNCHANGED <<backend, blobs, tmp, payload, crashes>>

WriteHeader(w) ==
  /\ pc[w] = "header"
  /\ cassette' = [cassette EXCEPT ![session[w]].header = "whole"]
  /\ Goto(w, "ready")
  /\ UNCHANGED <<backend, blobs, tmp, session, payload, crashes>>

\* A header that cannot be written takes the file with it.
WriteHeaderFails(w) ==
  /\ pc[w] = "header"
  /\ cassette' = [cassette EXCEPT ![session[w]] = None]
  /\ session' = [session EXCEPT ![w] = None]
  /\ Goto(w, "start")
  /\ UNCHANGED <<backend, blobs, tmp, payload, crashes>>

-----------------------------------------------------------------------------
(* Writer.WriteSpan: the payload is offloaded before the span is encoded.  *)

WriteSpan(w, c) ==
  /\ pc[w] = "ready"
  /\ Len(cassette[session[w]].lines) < MaxSpans
  /\ payload' = [payload EXCEPT ![w] = c]
  /\ tmp' = [tmp EXCEPT ![w] = IF c \in Large THEN Fresh ELSE None]
  /\ Goto(w, IF c \in Large THEN "copy" ELSE "encode")
  /\ UNCHANGED <<backend, blobs, cassette, session, crashes>>

AddLine(w, line) == cassette' = [cassette EXCEPT ![session[w]].lines = Append(@, line)]

Broken(k) == \E i \in DOMAIN k.lines : k.lines[i] = "cut"

\* Mutant: spans go on after a line that was cut.
EncodeOn(w) ==
  /\ pc[w] = "encode"
  /\ AddLine(w, payload[w]) \/ AddLine(w, "cut")
  /\ payload' = [payload EXCEPT ![w] = None]
  /\ Goto(w, "ready")
  /\ UNCHANGED <<backend, blobs, tmp, session, crashes>>

\* The encoder stays at its first error, so nothing follows a cut line.
Encode(w) ==
  /\ pc[w] = "encode"
  /\ IF Broken(cassette[session[w]]) THEN UNCHANGED cassette
                                    ELSE AddLine(w, payload[w]) \/ AddLine(w, "cut")
  /\ payload' = [payload EXCEPT ![w] = None]
  /\ Goto(w, "ready")
  /\ UNCHANGED <<backend, blobs, tmp, session, crashes>>

-----------------------------------------------------------------------------
(* Put, of a directory or of S3.  A temporary file and the buffer of an    *)
(* upload are gone when Put returns.                                       *)

Copy(w) ==
  /\ pc[w] = "copy" /\ tmp[w].data < Size
  /\ tmp' = [tmp EXCEPT ![w].data = @ + 1]
  /\ UNCHANGED <<backend, blobs, cassette, pc, session, payload, crashes>>

\* Mutant: the temporary file is not synced.
Unsynced(w) ==
  /\ pc[w] = "copy" /\ tmp[w].data = Size
  /\ Goto(w, "stat")
  /\ UNCHANGED <<backend, blobs, tmp, cassette, session, payload, crashes>>

Sync(w) ==
  /\ pc[w] = "copy" /\ tmp[w].data = Size
  /\ tmp' = [tmp EXCEPT ![w].synced = IF backend = "fs" THEN Size ELSE @]
  /\ Goto(w, "stat")
  /\ UNCHANGED <<backend, blobs, cassette, session, payload, crashes>>

\* Put returns the digest.
Return(w) ==
  /\ told' = told \cup {payload[w]}
  /\ tmp' = [tmp EXCEPT ![w] = None]
  /\ Goto(w, "encode")
  /\ UNCHANGED <<payload, session>>

\* What is present is not stored again; a question that fails is a no.
Stat(w) ==
  /\ pc[w] = "stat"
  /\ \/ Has(payload[w]) /\ Return(w)
     \/ Goto(w, "commit") /\ UNCHANGED <<told, tmp, payload, session>>
  /\ UNCHANGED <<backend, blob, cassette, crashes>>

\* The rename puts the temporary file in place; the upload a complete object.
Commit(w) ==
  /\ pc[w] = "commit"
  /\ blob' = [blob EXCEPT ![payload[w]] = IF backend = "fs" THEN tmp[w] ELSE Whole]
  /\ Return(w)
  /\ UNCHANGED <<backend, cassette, crashes>>

\* Mutant: a rename that fails is taken for one that lost a race.
CommitedAnyway(w) ==
  /\ pc[w] = "commit" /\ backend = "fs"
  /\ Return(w)
  /\ UNCHANGED <<backend, blob, cassette, crashes>>

\* A rename that fails is as good if the blob is there.
Commited(w) ==
  /\ pc[w] = "commit" /\ backend = "fs" /\ Has(payload[w])
  /\ Return(w)
  /\ UNCHANGED <<backend, blob, cassette, crashes>>

\* Mutants: the temporary file stays; the span is written all the same.
PutFailsAndStays(w) ==
  /\ pc[w] \in {"copy", "stat", "commit"}
  /\ payload' = [payload EXCEPT ![w] = None]
  /\ Goto(w, "ready")
  /\ UNCHANGED <<backend, blobs, tmp, cassette, session, crashes>>

PutFailsUnnoticed(w) ==
  /\ pc[w] \in {"copy", "stat", "commit"}
  /\ tmp' = [tmp EXCEPT ![w] = None]
  /\ Goto(w, "encode")
  /\ UNCHANGED <<backend, blobs, cassette, session, payload, crashes>>

\* Put fails, and WriteSpan with it: the span is not written.  An upload whose
\* answer is lost has stored its object.
PutFails(w) ==
  /\ pc[w] \in {"copy", "stat", "commit"}
  /\ \/ UNCHANGED blob
     \/ pc[w] = "commit" /\ backend = "s3" /\ blob' = [blob EXCEPT ![payload[w]] = Whole]
  /\ tmp' = [tmp EXCEPT ![w] = None]
  /\ payload' = [payload EXCEPT ![w] = None]
  /\ Goto(w, "ready")
  /\ UNCHANGED <<backend, told, cassette, session, crashes>>

-----------------------------------------------------------------------------
(* Faults.  A recorder comes back with nothing but the files; what it had  *)
(* copied stays behind under a name nobody reads.                          *)

Down(ws) ==
  /\ crashes < MaxCrashes /\ crashes' = crashes + 1
  /\ pc' = [w \in Writers |-> IF w \in ws THEN "start" ELSE pc[w]]
  /\ tmp' = [w \in Writers |-> IF w \in ws THEN None ELSE tmp[w]]
  /\ session' = [w \in Writers |-> IF w \in ws THEN None ELSE session[w]]
  /\ payload' = [w \in Writers |-> IF w \in ws THEN None ELSE payload[w]]
  /\ UNCHANGED <<backend, told>>

\* A kill may cut the line being written, and come after an upload.
Kill(w) ==
  /\ session[w] # None
  /\ Down({w})
  /\ \/ UNCHANGED <<blob, cassette>>
     \/ pc[w] = "header" /\ cassette' = [cassette EXCEPT ![session[w]].header = "cut"] /\ UNCHANGED blob
     \/ pc[w] = "encode" /\ ~Broken(cassette[session[w]]) /\ AddLine(w, "cut") /\ UNCHANGED blob
     \/ pc[w] = "commit" /\ backend = "s3" /\ blob' = [blob EXCEPT ![payload[w]] = Whole] /\ UNCHANGED cassette

\* What may be left of a cassette, which nobody syncs, and of a blob: neither its
\* name, for no directory is synced, nor what of its data was not.
LeftOf(k) ==
  IF k = None THEN {None}
  ELSE {None, k} \cup {[k EXCEPT !.header = h, !.lines = <<>>] : h \in {"cut", "none"}}
       \cup {[k EXCEPT !.lines = SubSeq(@, 1, n) \o cut] : n \in 0..Len(k.lines) - 1, cut \in {<<>>, <<"cut">>}}
BlobLeftOf(b) ==
  {None} \cup IF b = None THEN {} ELSE {[data |-> n, synced |-> n] : n \in b.synced..b.data}

\* The node of the directory and of its recorders loses power.
PowerLoss ==
  /\ backend = "fs"
  /\ Down(Writers)
  /\ blob' \in {b \in [Contents -> UNION {BlobLeftOf(blob[c]) : c \in Contents}] :
                  \A c \in Contents : b[c] \in BlobLeftOf(blob[c])}
  /\ cassette' \in {k \in [Sessions -> UNION {LeftOf(cassette[s]) : s \in Sessions}] :
                      \A s \in Sessions : k[s] \in LeftOf(cassette[s])}

-----------------------------------------------------------------------------
Init ==
  /\ backend \in Backends
  /\ blob = [c \in Contents |-> None]
  /\ tmp = [w \in Writers |-> None]
  /\ told = {}
  /\ cassette = [s \in Sessions |-> None]
  /\ pc = [w \in Writers |-> "start"]
  /\ session = [w \in Writers |-> None]
  /\ payload = [w \in Writers |-> None]
  /\ crashes = 0

Next ==
  \/ \E w \in Writers :
       \/ \E s \in Sessions : Create(w, s)
       \/ \E c \in Contents : WriteSpan(w, c)
       \/ WriteHeader(w) \/ WriteHeaderFails(w) \/ Encode(w)
       \/ Copy(w) \/ Sync(w) \/ Stat(w) \/ Commit(w) \/ Commited(w) \/ PutFails(w)
       \/ Kill(w)
  \/ PowerLoss

Spec == Init /\ [][Next]_vars

-----------------------------------------------------------------------------
(* Properties.                                                             *)

\* What the store, the cassettes and the recorders may be.
TypeOK ==
  /\ backend \in Backends /\ crashes \in 0..MaxCrashes /\ told \subseteq Large
  /\ \A c \in Contents : Has(c) => c \in Large /\ blob[c].synced <= blob[c].data /\ blob[c].data <= Size
  /\ \A s \in Sessions : cassette[s] # None =>
       /\ cassette[s].by \in Writers /\ cassette[s].header \in {"none", "cut", "whole"}
       /\ cassette[s].header # "whole" => cassette[s].lines = <<>>
       /\ \A i \in DOMAIN cassette[s].lines : cassette[s].lines[i] \in Contents \cup {"cut"}
  /\ \A w \in Writers :
       /\ pc[w] \in {"start", "header", "ready", "copy", "stat", "commit", "encode"}
       /\ session[w] = None <=> pc[w] = "start"
       /\ payload[w] # None <=> pc[w] \in {"copy", "stat", "commit", "encode"}
       /\ tmp[w] # None <=> pc[w] \in {"copy", "stat", "commit"}

\* A digest names complete content whatever went down in the middle of a put.
\* (fs.go: a crash mid-write cannot leave a truncated blob under a digest that
\* claims to describe complete content.)
DigestNamesContent == \A c \in Contents : Has(c) => blob[c].data = Size

\* The lines <<session, number>> that refer to a payload nobody can read.
IsDangling(s, i) ==
  /\ Listed(s) /\ i \in DOMAIN cassette[s].lines
  /\ cassette[s].lines[i] \in Large /\ ~Resolves(cassette[s].lines[i])
Dangling == {l \in Sessions \X (1..MaxSpans) : IsDangling(l[1], l[2])}

\* A span never comes to refer to a payload that cannot be read, for the payload is
\* stored before the span is written, but for a power loss, which may take the
\* payload's name from a directory nobody synced.
RefsResolve == [][Dangling' \subseteq Dangling \/ PowerLoss]_vars

\* A failed or interrupted append spoils the end of a cassette and never its
\* middle, so what was recorded before it is a readable prefix.
OnlyTheEndIsCut ==
  \A s \in Sessions : cassette[s] # None =>
    \A i \in DOMAIN cassette[s].lines : cassette[s].lines[i] = "cut" => i = Len(cassette[s].lines)

\* A recorded session is evidence: it is never replaced, by a recorder that starts
\* again or by another one, nor shortened, by a failed write or a kill; only a power
\* loss takes what was not synced.
EvidenceIsKept ==
  [][\/ \A s \in Sessions : Listed(s) =>
          /\ cassette'[s] # None /\ cassette'[s].by = cassette[s].by
          /\ Len(cassette[s].lines) <= Len(cassette'[s].lines)
          /\ cassette[s].lines = SubSeq(cassette'[s].lines, 1, Len(cassette[s].lines))
     \/ PowerLoss]_vars

\* The store is what it promises to be: a put is one step, whose answer is true
\* from then on, in S3 through whatever happens and in a directory until its node
\* loses power.
Promise == INSTANCE BlobStore WITH
  stored <- {c \in Contents : Resolves(c)},
  asked  <- [w \in Writers |-> IF pc[w] \in {"copy", "stat", "commit"} THEN {payload[w]} ELSE {}],
  durable <- backend = "s3"

KeepsItsPromise == Promise!Spec
=============================================================================
