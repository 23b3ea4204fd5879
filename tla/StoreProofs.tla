----------------------------- MODULE StoreProofs -----------------------------
(***************************************************************************)
(* What is stored is stored whole, no span is written before its payload   *)
(* is stored, what was recorded is kept until the power goes, and the      *)
(* store implements BlobStore, for any recorders, payloads, backends and   *)
(* faults.                                                                 *)
(***************************************************************************)
EXTENDS Store, SequenceTheorems, TLAPS

Places     == {"start", "header", "ready", "copy", "stat", "commit", "encode"}
Putting(w) == pc[w] \in {"copy", "stat", "commit"}

Types ==
  /\ backend \in Backends
  /\ blob \in [Contents -> Files \cup {None}]
  /\ tmp \in [Writers -> Files \cup {None}]
  /\ told \subseteq Large
  /\ cassette \in [Sessions -> Cassettes \cup {None}]
  /\ pc \in [Writers -> Places]
  /\ session \in [Writers -> Sessions \cup {None}]
  /\ payload \in [Writers -> Contents \cup {None}]
  /\ crashes \in 0..MaxCrashes

\* What is under a digest is whole and, in a directory, synced.
Stored == \A c \in Contents : Has(c) => c \in Large /\ blob[c] = Whole

\* A put has a file, synced before anybody asks whether the blob is there; a
\* span about to be written has its payload stored.
PutOK(w) ==
  /\ session[w] = None <=> pc[w] = "start"
  /\ payload[w] # None <=> Putting(w) \/ pc[w] = "encode"
  /\ tmp[w] # None <=> Putting(w)
  /\ Putting(w) => payload[w] \in Large
  /\ pc[w] \in {"stat", "commit"} => tmp[w].data = Size /\ (backend = "fs" => tmp[w] = Whole)
  /\ pc[w] = "encode" /\ payload[w] \in Large => Has(payload[w])

\* A recorder writes to a cassette of its own.
Owns(w) ==
  session[w] # None =>
    /\ cassette[session[w]] # None /\ cassette[session[w]].by = w
    /\ cassette[session[w]].header = IF pc[w] = "header" THEN "none" ELSE "whole"

\* The lines of a cassette: none before its header, and only the last one cut.
LinesOK(k) ==
  /\ k.header # "whole" => k.lines = <<>>
  /\ \A i \in DOMAIN k.lines : k.lines[i] = "cut" => i = Len(k.lines)

\* The inductive invariant.
StoreInv ==
  /\ Types /\ Stored
  /\ \A w \in Writers : PutOK(w) /\ Owns(w)
  /\ \A s \in Sessions : cassette[s] # None => LinesOK(cassette[s])

\* What the assumption says, and of the two sizes of a file.
LEMMA Constants ==
  /\ None \notin Files /\ None \notin Cassettes /\ None \notin Contents
  /\ None \notin Writers /\ None \notin Sessions
  /\ Whole \in Files /\ Fresh \in Files /\ Whole # None /\ Fresh # None
  /\ Size \in Nat \ {0} /\ Large \subseteq Contents /\ MaxCrashes \in Nat
  /\ "cut" \notin Large
BY StoreAssumption DEF Whole, Fresh, Files

-----------------------------------------------------------------------------
(* Cassettes: what an appended line and a power loss make of one.          *)

\* A session as it is created is a cassette.
LEMMA NewCassette ==
  ASSUME NEW w \in Writers
  PROVE  [by |-> w, header |-> "none", lines |-> <<>>] \in Cassettes
<1>1. <<>> \in Seq(Contents \cup {"cut"})
  OBVIOUS
<1>2. QED
  BY <1>1 DEF Cassettes

\* A line may follow lines that are whole.
LEMMA Appended ==
  ASSUME NEW k \in Cassettes, NEW l \in Contents \cup {"cut"},
         LinesOK(k), ~Broken(k), k.header = "whole"
  PROVE  /\ [k EXCEPT !.lines = Append(@, l)] \in Cassettes
         /\ LinesOK([k EXCEPT !.lines = Append(@, l)])
<1> DEFINE n == [k EXCEPT !.lines = Append(@, l)]
<1>1. k.lines \in Seq(Contents \cup {"cut"})
  BY DEF Cassettes
<1>2. n \in Cassettes /\ n.lines = Append(k.lines, l) /\ n.header = "whole"
  BY <1>1, AppendProperties DEF Cassettes
<1>3. /\ Len(n.lines) = Len(k.lines) + 1 /\ n.lines[Len(n.lines)] = l
      /\ \A i \in 1..Len(k.lines) : n.lines[i] = k.lines[i]
  BY <1>1, <1>2, AppendProperties
<1>4. DOMAIN k.lines = 1..Len(k.lines) /\ DOMAIN n.lines = 1..Len(n.lines) /\ Len(k.lines) \in Nat
  BY <1>1, <1>2 DEF Cassettes
<1> HIDE DEF n
<1>5. LinesOK(n)
  BY <1>2, <1>3, <1>4 DEF LinesOK, Broken
<1>6. QED
  BY <1>2, <1>5 DEF n

\* Cutting a cassette short keeps what LinesOK says of it.
LEMMA Shortened ==
  ASSUME NEW k \in Cassettes, LinesOK(k), NEW m \in 0..Len(k.lines) - 1, NEW cut \in {<<>>, <<"cut">>}
  PROVE  LET n == [k EXCEPT !.lines = SubSeq(@, 1, m) \o cut]
         IN  n \in Cassettes /\ LinesOK(n)
<1> DEFINE L == Contents \cup {"cut"}
           p == SubSeq(k.lines, 1, m)
           n == [k EXCEPT !.lines = p \o cut]
<1>1. k.lines \in Seq(L) /\ DOMAIN k.lines = 1..Len(k.lines) /\ Len(k.lines) \in Nat /\ m \in Nat
  BY DEF Cassettes
<1>2. /\ p \in Seq(L) /\ Len(p) = m
      /\ \A i \in 1..m : p[i] = k.lines[i]
  <2>1. \A i \in 1..m : k.lines[i] \in L
    BY <1>1
  <2>2. /\ p \in Seq(L) /\ Len(p) = IF 1 <= m THEN m - 1 + 1 ELSE 0
        /\ \A i \in 1..m - 1 + 1 : p[i] = k.lines[1 + i - 1]
    BY <2>1, SubSeqProperties
  <2>3. QED
    BY <1>1, <2>2
<1>3. cut \in Seq(L) /\ Len(cut) \in {0, 1} /\ (Len(cut) = 1 => cut[1] = "cut")
  <2>1. CASE cut = <<>>
    BY <2>1
  <2>2. CASE cut = <<"cut">>
    <3>1. "cut" \in L
      OBVIOUS
    <3>2. QED
      BY <2>2, <3>1
  <2>3. QED
    BY <2>1, <2>2
<1>4. /\ p \o cut \in Seq(L) /\ Len(p \o cut) = m + Len(cut)
      /\ \A i \in 1..m + Len(cut) : (p \o cut)[i] = IF i <= m THEN p[i] ELSE cut[i - m]
  BY <1>2, <1>3, ConcatProperties
<1>5. n \in Cassettes /\ n.lines = p \o cut /\ n.header = k.header
  BY <1>4 DEF Cassettes
<1>6. n.header = "whole"
  BY <1>1, <1>5 DEF LinesOK
<1>7. DOMAIN n.lines = 1..m + Len(cut) /\ Len(n.lines) = m + Len(cut)
  BY <1>4, <1>5
<1>8. ASSUME NEW i \in 1..m + Len(cut)
      PROVE  \/ i \in 1..m /\ n.lines[i] = k.lines[i] /\ k.lines[i] # "cut"
             \/ i = Len(n.lines) /\ n.lines[i] = "cut"
  <2>1. CASE i <= m
    BY <1>1, <1>2, <1>4, <1>5, <2>1 DEF LinesOK
  <2>2. CASE i > m
    <3>1. Len(cut) = 1 /\ i = m + 1 /\ i - m = 1
      <4>1. CASE Len(cut) = 0
        BY <1>1, <2>2, <4>1
      <4>2. CASE Len(cut) = 1
        BY <1>1, <2>2, <4>2
      <4>3. QED
        BY <1>3, <4>1, <4>2
    <3>2. n.lines[i] = cut[1]
      BY <1>4, <1>5, <2>2, <3>1
    <3>3. QED
      BY <1>3, <1>7, <3>1, <3>2
  <2>3. QED
    BY <1>1, <2>1, <2>2
<1> HIDE DEF p, n
<1>9. LinesOK(n)
  <2>1. ASSUME NEW i \in DOMAIN n.lines
        PROVE  n.lines[i] = "cut" => i = Len(n.lines)
    <3>1. i \in 1..m + Len(cut) /\ (i \in 1..m => i \in DOMAIN k.lines)
      BY <1>1, <1>7, <2>1
    <3>2. QED
      BY <1>8, <3>1 DEF LinesOK
  <2>2. QED
    BY <1>6, <2>1 DEF LinesOK
<1>10. QED
  BY <1>5, <1>9 DEF n, p

\* So does a power loss, if it leaves any of it.
LEMMA LeftOver ==
  ASSUME NEW k \in Cassettes, LinesOK(k), NEW n \in LeftOf(k), n # None
  PROVE  n \in Cassettes /\ LinesOK(n) /\ n.by = k.by
<1>1. k # None
  BY Constants
<1>2. CASE n = k
  BY <1>2
<1>3. ASSUME NEW h \in {"cut", "none"}, n = [k EXCEPT !.header = h, !.lines = <<>>]
      PROVE  n \in Cassettes /\ LinesOK(n) /\ n.by = k.by
  <2>1. <<>> \in Seq(Contents \cup {"cut"})
    OBVIOUS
  <2>2. n.lines = <<>> /\ n \in Cassettes /\ n.by = k.by
    BY <1>3, <2>1 DEF Cassettes
  <2>3. QED
    BY <2>2 DEF LinesOK
<1>4. ASSUME NEW m \in 0..Len(k.lines) - 1, NEW cut \in {<<>>, <<"cut">>},
             n = [k EXCEPT !.lines = SubSeq(@, 1, m) \o cut]
      PROVE  n \in Cassettes /\ LinesOK(n) /\ n.by = k.by
  BY <1>4, Shortened DEF Cassettes
<1>5. \/ n = k
      \/ \E h \in {"cut", "none"} : n = [k EXCEPT !.header = h, !.lines = <<>>]
      \/ \E m \in 0..Len(k.lines) - 1, cut \in {<<>>, <<"cut">>} :
           n = [k EXCEPT !.lines = SubSeq(@, 1, m) \o cut]
  BY <1>1 DEF LeftOf
<1>6. QED
  BY <1>2, <1>3, <1>4, <1>5

-----------------------------------------------------------------------------
(* The invariant, action by action.                                        *)

\* Nothing is stored at first.
LEMMA InitInv == Init => StoreInv
BY Constants DEF Init, StoreInv, Types, Stored, PutOK, Owns, LinesOK, Putting, Has, Places

\* Only a session without a cassette is created, so it has one owner.
LEMMA CreateInv ==
  ASSUME StoreInv, NEW w \in Writers, NEW z \in Sessions, Create(w, z)
  PROVE  StoreInv'
<1>1. Types'
  BY DEF StoreInv, Types, Create, blobs, Goto, Places, Cassettes
<1>2. Stored'
  BY DEF StoreInv, Stored, Has, Create, blobs
<1>3. \A v \in Writers : PutOK(v)'
  BY Constants DEF StoreInv, Types, PutOK, Putting, Has, Create, blobs, Goto
<1>4. \A v \in Writers : Owns(v)'
  <2> DEFINE n == [by |-> w, header |-> "none", lines |-> <<>>]
  <2>1. /\ cassette[z] = None /\ cassette' = [cassette EXCEPT ![z] = n]
        /\ session' = [session EXCEPT ![w] = z] /\ pc' = [pc EXCEPT ![w] = "header"]
    BY DEF Create, Goto
  <2>2. n # None /\ n.by = w /\ n.header = "none"
    BY Constants, NewCassette
  <2> HIDE DEF n
  <2>3. QED
    BY <2>1, <2>2, Constants DEF StoreInv, Types, Owns
<1>5. \A s \in Sessions : cassette'[s] # None => LinesOK(cassette[s])'
  BY DEF StoreInv, LinesOK, Has, Create, blobs
<1>6. QED
  BY <1>1, <1>2, <1>3, <1>4, <1>5 DEF StoreInv

\* A header makes the cassette one that is listed.
LEMMA WriteHeaderInv ==
  ASSUME StoreInv, NEW w \in Writers, WriteHeader(w)
  PROVE  StoreInv'
<1>1. Types'
  BY DEF StoreInv, Types, PutOK, Owns, Putting, WriteHeader, blobs, Goto, Places, Cassettes
<1>2. Stored'
  BY DEF StoreInv, Stored, Has, WriteHeader, blobs
<1>3. \A v \in Writers : PutOK(v)'
  BY DEF StoreInv, PutOK, Putting, Has, WriteHeader, blobs, Goto
<1>4. \A v \in Writers : Owns(v)'
  BY Constants DEF StoreInv, Types, Owns, WriteHeader, Goto, Cassettes
<1>5. \A s \in Sessions : cassette'[s] # None => LinesOK(cassette[s])'
  BY DEF StoreInv, Owns, PutOK, LinesOK, Has, WriteHeader, blobs
<1>6. QED
  BY <1>1, <1>2, <1>3, <1>4, <1>5 DEF StoreInv

\* The cassette that goes is the recorder's own.
LEMMA WriteHeaderFailsInv ==
  ASSUME StoreInv, NEW w \in Writers, WriteHeaderFails(w)
  PROVE  StoreInv'
<1>1. Types'
  BY DEF StoreInv, Types, WriteHeaderFails, blobs, Goto, Places
<1>2. Stored'
  BY DEF StoreInv, Stored, Has, WriteHeaderFails, blobs
<1>3. \A v \in Writers : PutOK(v)'
  BY DEF StoreInv, Types, PutOK, Putting, Has, WriteHeaderFails, blobs, Goto
<1>4. \A v \in Writers : Owns(v)'
  BY DEF StoreInv, Types, Owns, WriteHeaderFails, Goto
<1>5. \A s \in Sessions : cassette'[s] # None => LinesOK(cassette[s])'
  BY DEF StoreInv, LinesOK, Has, WriteHeaderFails, blobs
<1>6. QED
  BY <1>1, <1>2, <1>3, <1>4, <1>5 DEF StoreInv

\* A large payload goes to a file first, a small one into the span.
LEMMA WriteSpanInv ==
  ASSUME StoreInv, NEW w \in Writers, NEW c \in Contents, WriteSpan(w, c)
  PROVE  StoreInv'
<1>1. Types'
  BY Constants DEF StoreInv, Types, WriteSpan, blobs, Goto, Places
<1>2. Stored'
  BY DEF StoreInv, Stored, Has, WriteSpan, blobs
<1>3. \A v \in Writers : PutOK(v)'
  BY Constants DEF StoreInv, Types, PutOK, Putting, Has, WriteSpan, blobs, Goto
<1>4. \A v \in Writers : Owns(v)'
  BY DEF StoreInv, Owns, WriteSpan, Goto
<1>5. \A s \in Sessions : cassette'[s] # None => LinesOK(cassette[s])'
  BY DEF StoreInv, LinesOK, Has, WriteSpan, blobs
<1>6. QED
  BY <1>1, <1>2, <1>3, <1>4, <1>5 DEF StoreInv

\* The line of a span, whole or cut, follows whole lines only.
LEMMA EncodeInv ==
  ASSUME StoreInv, NEW w \in Writers, Encode(w)
  PROVE  StoreInv'
<1> DEFINE k == cassette[session[w]]
<1>1. /\ session[w] \in Sessions /\ k \in Cassettes /\ LinesOK(k) /\ k.header = "whole" /\ k.by = w
      /\ payload[w] \in Contents /\ (payload[w] \in Large => Has(payload[w]))
  BY Constants DEF StoreInv, Types, PutOK, Owns, Encode
<1>2. \E n \in Cassettes : /\ LinesOK(n) /\ n.by = w /\ n.header = "whole"
                          /\ cassette' = [cassette EXCEPT ![session[w]] = n]
  <2>1. CASE Broken(k)
    BY <1>1, <2>1 DEF Encode, StoreInv, Types
  <2>2. ASSUME ~Broken(k), NEW l \in Contents \cup {"cut"},
               cassette' = [cassette EXCEPT ![session[w]].lines = Append(@, l)]
        PROVE  \E n \in Cassettes : /\ LinesOK(n) /\ n.by = w /\ n.header = "whole"
                                    /\ cassette' = [cassette EXCEPT ![session[w]] = n]
    <3>1. cassette' = [cassette EXCEPT ![session[w]] = [k EXCEPT !.lines = Append(@, l)]]
      BY <2>2
    <3>2. QED
      BY <1>1, <2>2, <3>1, Appended DEF Cassettes
  <2>3. QED
    BY <1>1, <2>1, <2>2, Constants DEF Encode, AddLine
<1>3. PICK n \in Cassettes : /\ LinesOK(n) /\ n.by = w /\ n.header = "whole"
                            /\ cassette' = [cassette EXCEPT ![session[w]] = n]
  BY <1>2
<1>4. /\ pc' = [pc EXCEPT ![w] = "ready"] /\ payload' = [payload EXCEPT ![w] = None]
      /\ pc[w] = "encode" /\ UNCHANGED <<backend, blob, told, tmp, session, crashes>>
  BY DEF Encode, blobs, Goto
<1> HIDE DEF k
<1>5. Types'
  BY <1>1, <1>3, <1>4 DEF StoreInv, Types, Places
<1>6. Stored'
  BY <1>4 DEF StoreInv, Stored, Has
<1>7. \A v \in Writers : PutOK(v)'
  BY <1>4, Constants DEF StoreInv, Types, PutOK, Putting, Has
<1>8. \A v \in Writers : Owns(v)'
  BY <1>1, <1>3, <1>4, Constants DEF StoreInv, Types, Owns
<1>9. \A s \in Sessions : cassette'[s] # None => LinesOK(cassette[s])'
  BY <1>1, <1>3, <1>4 DEF StoreInv, Types, LinesOK, Has
<1>10. QED
  BY <1>5, <1>6, <1>7, <1>8, <1>9 DEF StoreInv

\* A chunk more of a file that nobody reads.
LEMMA CopyInv ==
  ASSUME StoreInv, NEW w \in Writers, Copy(w)
  PROVE  StoreInv'
<1>1. Types'
  BY Constants DEF StoreInv, Types, PutOK, Owns, Putting, Copy, blobs, Files
<1>2. Stored'
  BY DEF StoreInv, Stored, Has, Copy, blobs
<1>3. \A v \in Writers : PutOK(v)'
  BY Constants DEF StoreInv, Types, PutOK, Putting, Has, Copy, blobs, Files
<1>4. \A v \in Writers : Owns(v)'
  BY DEF StoreInv, Owns, Copy
<1>5. \A s \in Sessions : cassette'[s] # None => LinesOK(cassette[s])'
  BY DEF StoreInv, LinesOK, Has, Copy, blobs
<1>6. QED
  BY <1>1, <1>2, <1>3, <1>4, <1>5 DEF StoreInv

\* A file is whole when it is synced, and synced before it is renamed.
LEMMA SyncInv ==
  ASSUME StoreInv, NEW w \in Writers, Sync(w)
  PROVE  StoreInv'
<1>1. Types'
  BY DEF StoreInv, Types, PutOK, Putting, Sync, blobs, Goto, Places, Files
<1>2. Stored'
  BY DEF StoreInv, Stored, Has, Sync, blobs
<1>3. \A v \in Writers : PutOK(v)'
  BY Constants DEF StoreInv, Types, PutOK, Putting, Has, Sync, blobs, Goto, Whole, Files
<1>4. \A v \in Writers : Owns(v)'
  BY DEF StoreInv, Owns, Sync, Goto
<1>5. \A s \in Sessions : cassette'[s] # None => LinesOK(cassette[s])'
  BY DEF StoreInv, LinesOK, Has, Sync, blobs
<1>6. QED
  BY <1>1, <1>2, <1>3, <1>4, <1>5 DEF StoreInv

\* A put that finds the blob there is done.
LEMMA StatInv ==
  ASSUME StoreInv, NEW w \in Writers, Stat(w)
  PROVE  StoreInv'
<1>1. Types'
  <2>1. /\ tmp' = tmp \/ tmp' = [tmp EXCEPT ![w] = None]
        /\ told' = told \/ told' = told \cup {payload[w]}
        /\ \E l \in Places : pc' = [pc EXCEPT ![w] = l]
        /\ UNCHANGED <<backend, blob, cassette, session, payload, crashes>>
    BY DEF Stat, Return, Goto, Places
  <2>2. payload[w] \in Large
    BY DEF StoreInv, PutOK, Putting, Stat
  <2>3. QED
    BY <2>1, <2>2 DEF StoreInv, Types
<1>2. Stored'
  BY DEF StoreInv, Stored, Has, Stat, Return
<1>3. \A v \in Writers : PutOK(v)'
  <2>1. pc[w] = "stat" /\ UNCHANGED <<backend, blob, session, payload>> /\ payload[w] \in Large
    BY DEF StoreInv, PutOK, Putting, Stat, Return
  <2>2. CASE Has(payload[w]) /\ Return(w)
    BY <2>1, <2>2, Constants DEF StoreInv, Types, PutOK, Putting, Has, Return, Goto
  <2>3. CASE Goto(w, "commit") /\ UNCHANGED tmp
    BY <2>1, <2>3, Constants DEF StoreInv, Types, PutOK, Putting, Has, Goto
  <2>4. QED
    BY <2>2, <2>3 DEF Stat
<1>4. \A v \in Writers : Owns(v)'
  BY DEF StoreInv, Types, Owns, Stat, Return, Goto
<1>5. \A s \in Sessions : cassette'[s] # None => LinesOK(cassette[s])'
  BY DEF StoreInv, LinesOK, Has, Stat, Return
<1>6. QED
  BY <1>1, <1>2, <1>3, <1>4, <1>5 DEF StoreInv

\* What is put in place is whole, of either backend.
LEMMA CommitInv ==
  ASSUME StoreInv, NEW w \in Writers, Commit(w)
  PROVE  StoreInv'
<1>1. Types'
  BY Constants DEF StoreInv, Types, PutOK, Putting, Commit, Return, Goto, Places
<1>2. Stored'
  BY DEF StoreInv, PutOK, Stored, Has, Commit, Return, Putting
<1>3. \A v \in Writers : PutOK(v)'
  BY Constants DEF StoreInv, Types, PutOK, Putting, Has, Commit, Return, Goto
<1>4. \A v \in Writers : Owns(v)'
  BY DEF StoreInv, Owns, Commit, Return, Goto
<1>5. \A s \in Sessions : cassette'[s] # None => LinesOK(cassette[s])'
  BY Constants DEF StoreInv, PutOK, LinesOK, Has, Commit, Return
<1>6. QED
  BY <1>1, <1>2, <1>3, <1>4, <1>5 DEF StoreInv

\* A rename that fails is made good by a blob that is there.
LEMMA CommitedInv ==
  ASSUME StoreInv, NEW w \in Writers, Commited(w)
  PROVE  StoreInv'
<1>1. Types'
  BY DEF StoreInv, Types, PutOK, Putting, Commited, Return, Goto, Places
<1>2. Stored'
  BY DEF StoreInv, Stored, Has, Commited, Return
<1>3. \A v \in Writers : PutOK(v)'
  BY DEF StoreInv, Types, PutOK, Putting, Has, Commited, Return, Goto
<1>4. \A v \in Writers : Owns(v)'
  BY DEF StoreInv, Owns, Commited, Return, Goto
<1>5. \A s \in Sessions : cassette'[s] # None => LinesOK(cassette[s])'
  BY DEF StoreInv, LinesOK, Has, Commited, Return
<1>6. QED
  BY <1>1, <1>2, <1>3, <1>4, <1>5 DEF StoreInv

\* A put that fails takes its file with it.
LEMMA PutFailsInv ==
  ASSUME StoreInv, NEW w \in Writers, PutFails(w)
  PROVE  StoreInv'
<1>1. Types'
  BY Constants DEF StoreInv, Types, PutFails, Goto, Places
<1>2. Stored'
  BY DEF StoreInv, Types, PutOK, Stored, Has, PutFails, Putting
<1>3. \A v \in Writers : PutOK(v)'
  BY DEF StoreInv, Types, PutOK, Putting, Has, Stored, PutFails, Goto
<1>4. \A v \in Writers : Owns(v)'
  BY DEF StoreInv, Owns, PutFails, Goto
<1>5. \A s \in Sessions : cassette'[s] # None => LinesOK(cassette[s])'
  BY Constants DEF StoreInv, Types, LinesOK, Has, PutFails
<1>6. QED
  BY <1>1, <1>2, <1>3, <1>4, <1>5 DEF StoreInv

\* A kill cuts at most the end of the recorder's own cassette.
LEMMA KillInv ==
  ASSUME StoreInv, NEW w \in Writers, Kill(w)
  PROVE  StoreInv'
<1> DEFINE k == cassette[session[w]]
<1>1. /\ session[w] \in Sessions /\ k \in Cassettes /\ LinesOK(k) /\ k.by = w
      /\ k.header = IF pc[w] = "header" THEN "none" ELSE "whole"
  BY Constants DEF StoreInv, Types, Owns, Kill
<1>2. \/ cassette' = cassette
      \/ \E n \in Cassettes : LinesOK(n) /\ n.by = w /\ cassette' = [cassette EXCEPT ![session[w]] = n]
  <2>1. CASE cassette' = [cassette EXCEPT ![session[w]].header = "cut"] /\ pc[w] = "header"
    <3>1. cassette' = [cassette EXCEPT ![session[w]] = [k EXCEPT !.header = "cut"]]
      BY <2>1
    <3>2. [k EXCEPT !.header = "cut"] \in Cassettes /\ LinesOK([k EXCEPT !.header = "cut"])
      BY <1>1, <2>1 DEF Cassettes, LinesOK
    <3>3. QED
      BY <1>1, <3>1, <3>2 DEF Cassettes
  <2>2. CASE pc[w] = "encode" /\ ~Broken(k) /\ AddLine(w, "cut")
    <3>1. cassette' = [cassette EXCEPT ![session[w]] = [k EXCEPT !.lines = Append(@, "cut")]]
      BY <2>2 DEF AddLine
    <3>2. QED
      BY <1>1, <2>2, <3>1, Constants, Appended DEF Cassettes
  <2>3. QED
    BY <2>1, <2>2 DEF Kill
<1>3. \/ blob' = blob
      \/ pc[w] = "commit" /\ blob' = [blob EXCEPT ![payload[w]] = Whole]
  BY DEF Kill
<1>4. /\ pc' = [v \in Writers |-> IF v = w THEN "start" ELSE pc[v]]
      /\ tmp' = [v \in Writers |-> IF v = w THEN None ELSE tmp[v]]
      /\ session' = [v \in Writers |-> IF v = w THEN None ELSE session[v]]
      /\ payload' = [v \in Writers |-> IF v = w THEN None ELSE payload[v]]
      /\ UNCHANGED <<backend, told>>
      /\ crashes < MaxCrashes /\ crashes' = crashes + 1
  BY DEF Kill, Down
<1> HIDE DEF k
<1>5. Types'
  BY <1>1, <1>2, <1>3, <1>4, Constants DEF StoreInv, Types, PutOK, Putting, Places
<1>6. Stored' /\ \A c \in Contents : Has(c) => Has(c)'
  BY <1>3, Constants DEF StoreInv, Types, Stored, PutOK, Putting, Has
<1>7. \A v \in Writers : PutOK(v)'
  BY <1>4, <1>6, Constants DEF StoreInv, Types, PutOK, Putting
<1>8. \A v \in Writers : Owns(v)'
  BY <1>1, <1>2, <1>4 DEF StoreInv, Types, Owns
<1>9. \A s \in Sessions : cassette'[s] # None => LinesOK(cassette[s])'
  <2>1. \A s \in Sessions : cassette'[s] # None => cassette'[s] \in Cassettes /\ LinesOK(cassette'[s])
    BY <1>1, <1>2 DEF StoreInv, Types
  <2>2. QED
    BY <1>6, <2>1, Constants DEF LinesOK
<1>10. QED
  BY <1>5, <1>6, <1>7, <1>8, <1>9 DEF StoreInv

\* A power loss takes a blob whole or not at all: blobs are synced before their
\* rename, and their directory is not synced after it.
LEMMA BlobsLeft ==
  ASSUME StoreInv, PowerLoss
  PROVE  /\ blob' \in [Contents -> Files \cup {None}]
         /\ \A c \in Contents : blob'[c] \in {None, blob[c]}
<1>1. \A c \in Contents : BlobLeftOf(blob[c]) \subseteq {None, blob[c]}
  BY Constants DEF StoreInv, Stored, Has, BlobLeftOf, Whole
<1>2. /\ DOMAIN blob' = Contents /\ blob' = [c \in Contents |-> blob'[c]]
      /\ \A c \in Contents : blob'[c] \in BlobLeftOf(blob[c])
  BY DEF PowerLoss
<1>3. \A c \in Contents : blob'[c] \in {None, blob[c]}
  BY <1>1, <1>2
<1>4. QED
  BY <1>2, <1>3 DEF StoreInv, Types

\* A power loss takes blobs, cassettes and the ends of cassettes.
LEMMA PowerLossInv ==
  ASSUME StoreInv, PowerLoss
  PROVE  StoreInv'
<1>1. /\ blob' \in [Contents -> Files \cup {None}]
      /\ \A c \in Contents : blob'[c] \in {None, blob[c]}
  BY BlobsLeft
<1>2. /\ DOMAIN cassette' = Sessions /\ cassette' = [s \in Sessions |-> cassette'[s]]
      /\ \A s \in Sessions : cassette'[s] \in LeftOf(cassette[s])
  BY DEF PowerLoss
<1>3. ASSUME NEW s \in Sessions
      PROVE  cassette'[s] = None \/ (cassette'[s] \in Cassettes /\ LinesOK(cassette'[s]))
  <2>1. CASE cassette[s] = None
    <3>1. LeftOf(cassette[s]) = {None}
      BY <2>1 DEF LeftOf
    <3>2. QED
      BY <1>2, <3>1
  <2>2. CASE cassette[s] # None
    <3>1. cassette[s] \in Cassettes /\ LinesOK(cassette[s])
      BY <2>2 DEF StoreInv, Types
    <3>2. QED
      BY <1>2, <3>1, LeftOver
  <2>3. QED
    BY <2>1, <2>2
<1>4. /\ pc' = [v \in Writers |-> "start"] /\ tmp' = [v \in Writers |-> None]
      /\ session' = [v \in Writers |-> None] /\ payload' = [v \in Writers |-> None]
      /\ crashes' \in 0..MaxCrashes /\ UNCHANGED <<backend, told>>
  BY Constants DEF StoreInv, Types, PowerLoss, Down
<1>5. Types'
  BY <1>1, <1>2, <1>3, <1>4 DEF StoreInv, Types, Places
<1>6. Stored'
  BY <1>1, <1>4, Constants DEF StoreInv, Stored, Has
<1>7. \A v \in Writers : PutOK(v)' /\ Owns(v)'
  BY <1>4 DEF PutOK, Owns, Putting
<1>8. \A s \in Sessions : cassette'[s] # None => LinesOK(cassette[s])'
  BY <1>1, <1>3 DEF LinesOK, Has
<1>9. QED
  BY <1>5, <1>6, <1>7, <1>8 DEF StoreInv

\* A step of something else.
LEMMA StutterInv ==
  ASSUME StoreInv, UNCHANGED vars
  PROVE  StoreInv'
BY DEF StoreInv, Types, Stored, PutOK, Owns, LinesOK, Putting, Has, vars, blobs

\* StoreInv holds throughout: of the blobs under their digests, the puts in
\* progress and the cassettes of a corpus.
THEOREM Invariance == Spec => []StoreInv
<1>1. StoreInv /\ [Next]_vars => StoreInv'
  BY CreateInv, WriteHeaderInv, WriteHeaderFailsInv, WriteSpanInv, EncodeInv, CopyInv, SyncInv, StatInv, 
     CommitInv, CommitedInv, PutFailsInv, KillInv, PowerLossInv, StutterInv
     DEF Next
<1>2. QED
  BY InitInv, <1>1, PTL DEF Spec

-----------------------------------------------------------------------------
(* What follows.                                                           *)

\* Every variable keeps its type: blobs, cassettes and recorders stay as the
\* code can leave them.
THEOREM StoreTypeCorrect == Spec => []TypeOK
<1>1. StoreInv => TypeOK
  <2> SUFFICES ASSUME StoreInv PROVE TypeOK
    OBVIOUS
  <2>1. /\ backend \in Backends /\ crashes \in 0..MaxCrashes /\ told \subseteq Large
        /\ \A c \in Contents : Has(c) => c \in Large /\ blob[c].synced <= blob[c].data /\ blob[c].data <= Size
    BY Constants DEF StoreInv, Types, Stored, Whole
  <2>2. ASSUME NEW s \in Sessions, cassette[s] # None
        PROVE  /\ cassette[s].by \in Writers /\ cassette[s].header \in {"none", "cut", "whole"}
               /\ cassette[s].header # "whole" => cassette[s].lines = <<>>
               /\ \A i \in DOMAIN cassette[s].lines : cassette[s].lines[i] \in Contents \cup {"cut"}
    <3>1. cassette[s] \in Cassettes /\ LinesOK(cassette[s])
      BY <2>2 DEF StoreInv, Types
    <3>2. QED
      BY <3>1 DEF Cassettes, LinesOK
  <2>3. \A w \in Writers :
          /\ pc[w] \in {"start", "header", "ready", "copy", "stat", "commit", "encode"}
          /\ session[w] = None <=> pc[w] = "start"
          /\ payload[w] # None <=> pc[w] \in {"copy", "stat", "commit", "encode"}
          /\ tmp[w] # None <=> pc[w] \in {"copy", "stat", "commit"}
    BY DEF StoreInv, Types, PutOK, Putting, Places
  <2>4. QED
    BY <2>1, <2>2, <2>3 DEF TypeOK
<1>2. QED
  BY <1>1, Invariance, PTL

\* No digest ever names content that is cut short, whatever goes down in the
\* middle of a put: what is renamed was synced, and what is uploaded is whole.
THEOREM DigestsNameContent == Spec => []DigestNamesContent
<1>1. StoreInv => DigestNamesContent
  BY DEF StoreInv, Stored, DigestNamesContent, Whole
<1>2. QED
  BY <1>1, Invariance, PTL

\* A readable line with a payload was readable before, or its payload is stored.
LEMMA LinesGrow ==
  ASSUME StoreInv, [Next]_vars, ~PowerLoss, NEW s \in Sessions, Listed(s)',
         NEW i \in DOMAIN cassette'[s].lines, cassette'[s].lines[i] \in Large
  PROVE  \/ Has(cassette'[s].lines[i])
         \/ /\ Listed(s) /\ i \in DOMAIN cassette[s].lines
            /\ cassette[s].lines[i] = cassette'[s].lines[i]
<1> DEFINE n == cassette'[s]
           k == cassette[s]
           Old == /\ Listed(s) /\ i \in DOMAIN k.lines /\ k.lines[i] = n.lines[i]
<1>1. n # None /\ n.header = "whole" /\ n.lines[i] \in Large
  BY DEF Listed
<1>2. ASSUME n = k PROVE Old
  BY <1>1, <1>2 DEF Listed
<1>3. ASSUME NEW w \in Writers, NEW z \in Sessions, Create(w, z) PROVE Old
  <2>1. z # s
    BY <1>1, <1>3 DEF Create, StoreInv, Types
  <2>2. n = k
    BY <1>3, <2>1 DEF Create, StoreInv, Types
  <2>3. QED
    BY <1>2, <2>2
<1>4. ASSUME NEW w \in Writers, WriteHeader(w) \/ WriteHeaderFails(w) PROVE Old
  <2>1. CASE session[w] = s
    <3>1. k \in Cassettes /\ k.lines = <<>>
      BY <1>4, <2>1, Constants DEF StoreInv, Types, PutOK, Owns, LinesOK, WriteHeader, WriteHeaderFails
    <3>2. WriteHeader(w) => n = [k EXCEPT !.header = "whole"]
      BY <2>1 DEF WriteHeader, StoreInv, Types
    <3>3. WriteHeaderFails(w) => n = None
      BY <2>1 DEF WriteHeaderFails, StoreInv, Types
    <3>4. n.lines = <<>>
      BY <1>1, <1>4, <3>1, <3>2, <3>3 DEF Cassettes
    <3>5. QED
      BY <3>4
  <2>2. CASE session[w] # s
    <3>1. n = k
      BY <1>4, <2>2 DEF WriteHeader, WriteHeaderFails, StoreInv, Types
    <3>2. QED
      BY <1>2, <3>1
  <2>3. QED
    BY <2>1, <2>2
<1>5. ASSUME NEW l \in Contents \cup {"cut"}, l \in Large => Has(l), Listed(s),
             n = [k EXCEPT !.lines = Append(@, l)]
      PROVE  Has(n.lines[i]) \/ Old
  <2>1. k \in Cassettes /\ k.lines \in Seq(Contents \cup {"cut"})
    BY <1>5 DEF StoreInv, Types, Listed, Cassettes
  <2>2. n.lines = Append(k.lines, l)
    BY <1>5, <2>1 DEF Cassettes
  <2>3. /\ DOMAIN n.lines = 1..(Len(k.lines) + 1) /\ n.lines[Len(k.lines) + 1] = l
        /\ DOMAIN k.lines = 1..Len(k.lines) /\ Len(k.lines) \in Nat
        /\ \A j \in 1..Len(k.lines) : n.lines[j] = k.lines[j]
    BY <2>1, <2>2, AppendProperties, LenProperties
  <2>4. i = Len(k.lines) + 1 \/ i \in DOMAIN k.lines
    BY <2>3
  <2>5. QED
    BY <1>1, <1>5, <2>3, <2>4
<1>6. ASSUME NEW w \in Writers, NEW l \in Contents \cup {"cut"}, AddLine(w, l),
             l \in Large => Has(l), pc[w] = "encode"
      PROVE  Has(n.lines[i]) \/ Old
  <2>1. CASE session[w] = s
    <3>1. Listed(s)
      BY <1>6, <2>1, Constants DEF StoreInv, Types, Owns, Listed
    <3>2. n = [k EXCEPT !.lines = Append(@, l)]
      BY <1>6, <2>1 DEF AddLine, StoreInv, Types
    <3>3. QED
      BY <1>5, <1>6, <3>1, <3>2
  <2>2. CASE session[w] # s
    <3>1. n = k
      BY <1>6, <2>2 DEF AddLine, StoreInv, Types
    <3>2. QED
      BY <1>2, <3>1
  <2>3. QED
    BY <2>1, <2>2
<1>7. ASSUME NEW w \in Writers, Encode(w) PROVE Has(n.lines[i]) \/ Old
  <2>1. /\ payload[w] \in Contents /\ (payload[w] \in Large => Has(payload[w])) /\ pc[w] = "encode"
    BY <1>7, Constants DEF StoreInv, Types, PutOK, Encode
  <2>2. UNCHANGED cassette \/ AddLine(w, payload[w]) \/ AddLine(w, "cut")
    BY <1>7 DEF Encode
  <2>3. QED
    BY <1>2, <1>6, <2>1, <2>2, Constants
<1>8. ASSUME NEW w \in Writers, Kill(w) PROVE Has(n.lines[i]) \/ Old
  <2>1. CASE cassette' = cassette
    BY <1>2, <2>1
  <2>2. CASE cassette' = [cassette EXCEPT ![session[w]].header = "cut"]
    <3>1. session[w] # s
      <4>1. SUFFICES ASSUME session[w] = s PROVE FALSE
        OBVIOUS
      <4>2. k \in Cassettes
        BY <1>8, <4>1, Constants DEF Kill, StoreInv, Types, Owns
      <4>3. n = [k EXCEPT !.header = "cut"]
        BY <2>2, <4>1 DEF StoreInv, Types
      <4>4. QED
        BY <1>1, <4>2, <4>3 DEF Cassettes
    <3>2. n = k
      BY <2>2, <3>1 DEF StoreInv, Types
    <3>3. QED
      BY <1>2, <3>2
  <2>3. CASE pc[w] = "encode" /\ AddLine(w, "cut")
    BY <1>6, <2>3, Constants
  <2>4. QED
    BY <1>8, <2>1, <2>2, <2>3 DEF Kill
<1>9. ASSUME NEW w \in Writers,
             \/ \E c \in Contents : WriteSpan(w, c)
             \/ Copy(w) \/ Sync(w) \/ Stat(w) \/ Commit(w) \/ Commited(w) \/ PutFails(w)
      PROVE  Old
  <2>1. n = k
    BY <1>9 DEF WriteSpan, Copy, Sync, Stat, Commit, Commited, PutFails
  <2>2. QED
    BY <1>2, <2>1
<1>10. ASSUME UNCHANGED vars PROVE Old
  BY <1>2, <1>10 DEF vars
<1> HIDE DEF n, k, Old
<1>11. QED
  <2>1. Has(n.lines[i]) \/ Old
    BY <1>3, <1>4, <1>7, <1>8, <1>9, <1>10 DEF Next
  <2>2. QED
    BY <2>1 DEF n, k, Old

\* Only a power loss takes a blob away.
LEMMA BlobsStay ==
  ASSUME StoreInv, [Next]_vars, ~PowerLoss, NEW c \in Contents, Has(c)
  PROVE  Has(c)'
<1>1. ASSUME NEW w \in Writers, Commit(w) \/ PutFails(w) \/ Kill(w) PROVE Has(c)'
  <2>1. Commit(w) => tmp[w] # None
    BY DEF Commit, StoreInv, PutOK, Putting
  <2>2. \/ blob' = blob
        \/ \E f \in {tmp[w], Whole} : f # None /\ blob' = [blob EXCEPT ![payload[w]] = f]
    BY <1>1, <2>1, Constants DEF Commit, PutFails, Kill, blobs
  <2>3. QED
    BY <2>2 DEF Has, StoreInv, Types
<1>2. ASSUME NEW w \in Writers,
             \/ \E z \in Sessions : Create(w, z)
             \/ \E p \in Contents : WriteSpan(w, p)
             \/ WriteHeader(w) \/ WriteHeaderFails(w) \/ Encode(w)
             \/ Copy(w) \/ Sync(w) \/ Stat(w) \/ Commited(w)
      PROVE  Has(c)'
  BY <1>2 DEF Create, WriteSpan, WriteHeader, WriteHeaderFails, Encode, Copy, Sync, Stat, Commited, blobs, Has
<1>3. CASE UNCHANGED vars
  BY <1>3 DEF vars, blobs, Has
<1>4. QED
  BY <1>1, <1>2, <1>3 DEF Next

\* No step but a power loss leaves a readable span with a payload nobody can read:
\* WriteSpan stores the payload first, and nothing else removes one.
THEOREM RefsAlwaysResolve == Spec => RefsResolve
<1>1. ASSUME StoreInv, StoreInv', [Next]_vars PROVE Dangling' \subseteq Dangling \/ PowerLoss
  <2> SUFFICES ASSUME ~PowerLoss, NEW l \in Dangling' PROVE l \in Dangling
    OBVIOUS
  <2>1. l \in Sessions \X (1..MaxSpans) /\ IsDangling(l[1], l[2])'
    BY DEF Dangling
  <2> DEFINE s == l[1]
             i == l[2]
  <2>2. s \in Sessions
    BY <2>1
  <2> HIDE DEF s, i
  <2>3. /\ Listed(s)' /\ i \in DOMAIN cassette'[s].lines
        /\ cassette'[s].lines[i] \in Large /\ ~Resolves(cassette[s].lines[i])'
    BY <2>1 DEF IsDangling, s, i
  <2>4. ~Has(cassette'[s].lines[i])
    <3>1. PICK c \in Contents : c = cassette'[s].lines[i]
      BY <2>3, Constants
    <3>2. blob'[c] = None \/ blob'[c].data # Size
      BY <2>3, <3>1 DEF Resolves, Has
    <3>3. blob'[c] = None
      BY <1>1, <3>2 DEF StoreInv, Stored, Has, Whole
    <3>4. ~Has(c)
      BY <1>1, <3>3, BlobsStay DEF Has
    <3>5. QED
      BY <3>1, <3>4
  <2>5. /\ Listed(s) /\ i \in DOMAIN cassette[s].lines
        /\ cassette[s].lines[i] = cassette'[s].lines[i]
    BY <1>1, <2>2, <2>3, <2>4, LinesGrow
  <2>6. IsDangling(s, i)
    BY <2>3, <2>4, <2>5 DEF IsDangling, Resolves
  <2>7. QED
    BY <2>1, <2>6 DEF Dangling, s, i
<1>2. StoreInv /\ StoreInv' /\ [Next]_vars => [Dangling' \subseteq Dangling \/ PowerLoss]_vars
  BY <1>1
<1>3. QED
  BY <1>2, Invariance, PTL DEF Spec, RefsResolve

\* Only the last line of a cassette is ever cut: an encoder that failed once
\* writes no more, and a recorder that comes back creates a session anew or not
\* at all.
THEOREM CutsAreLast == Spec => []OnlyTheEndIsCut
<1>1. StoreInv => OnlyTheEndIsCut
  BY DEF StoreInv, LinesOK, OnlyTheEndIsCut
<1>2. QED
  BY <1>1, Invariance, PTL

\* What was in a sequence is a prefix of what it becomes.
LEMMA AppendKeeps ==
  ASSUME NEW S, NEW q \in Seq(S), NEW l \in S
  PROVE  Len(q) <= Len(Append(q, l)) /\ q = SubSeq(Append(q, l), 1, Len(q))
<1> DEFINE r == Append(q, l)
<1>1. r \in Seq(S) /\ Len(r) = Len(q) + 1 /\ \A i \in 1..Len(q) : r[i] = q[i]
  BY AppendProperties
<1>2. Len(q) \in Nat /\ \A i \in 1..Len(q) : r[i] \in S
  BY <1>1, LenProperties
<1> HIDE DEF r
<1>3. /\ SubSeq(r, 1, Len(q)) \in Seq(S)
      /\ Len(SubSeq(r, 1, Len(q))) = IF 1 <= Len(q) THEN Len(q) - 1 + 1 ELSE 0
      /\ \A i \in 1..Len(q) - 1 + 1 : SubSeq(r, 1, Len(q))[i] = r[1 + i - 1]
  BY <1>2, SubSeqProperties
<1>4. Len(SubSeq(r, 1, Len(q))) = Len(q) /\ \A i \in 1..Len(q) : SubSeq(r, 1, Len(q))[i] = q[i]
  BY <1>1, <1>2, <1>3
<1>5. q = SubSeq(r, 1, Len(q))
  BY <1>3, <1>4, SeqEqual
<1>6. QED
  BY <1>1, <1>2, <1>5 DEF r

\* What EvidenceIsKept says of one session.
KeptIn(s) ==
  /\ cassette'[s] # None /\ cassette'[s].by = cassette[s].by
  /\ Len(cassette[s].lines) <= Len(cassette'[s].lines)
  /\ cassette[s].lines = SubSeq(cassette'[s].lines, 1, Len(cassette[s].lines))

\* A recorded session is never replaced nor shortened, but by a power loss:
\* cassettes are created exclusively, only the recorder that created one appends to
\* it or takes it away, and it takes away only one without a header.
THEOREM EvidenceKept == Spec => EvidenceIsKept
<1>1. ASSUME StoreInv, [Next]_vars, ~PowerLoss, NEW s \in Sessions, Listed(s)
      PROVE  KeptIn(s)
  <2>1. /\ cassette[s] \in Cassettes /\ cassette[s].header = "whole" /\ crashes \in Nat
        /\ cassette[s].lines \in Seq(Contents \cup {"cut"})
    BY <1>1, Constants DEF StoreInv, Types, Listed, Cassettes
  <2>2. CASE cassette'[s] = cassette[s]
    <3>1. /\ Len(cassette[s].lines) <= Len(cassette[s].lines)
          /\ cassette[s].lines = SubSeq(cassette[s].lines, 1, Len(cassette[s].lines))
      BY <2>1, SubSeqFull, LenProperties
    <3>2. QED
      BY <2>1, <2>2, <3>1, Constants DEF KeptIn
  <2>3. ASSUME NEW l \in Contents \cup {"cut"}, cassette' = [cassette EXCEPT ![s].lines = Append(@, l)]
        PROVE  KeptIn(s)
    <3>1. cassette'[s] = [cassette[s] EXCEPT !.lines = Append(@, l)]
      BY <1>1, <2>3 DEF StoreInv, Types
    <3>2. /\ cassette'[s] # None /\ cassette'[s].by = cassette[s].by
          /\ cassette'[s].lines = Append(cassette[s].lines, l)
      <4>1. Append(cassette[s].lines, l) \in Seq(Contents \cup {"cut"})
        BY <2>1
      <4>2. cassette'[s] \in Cassettes
        BY <2>1, <3>1, <4>1 DEF Cassettes
      <4>3. cassette'[s].by = cassette[s].by /\ cassette'[s].lines = Append(cassette[s].lines, l)
        BY <2>1, <3>1 DEF Cassettes
      <4>4. QED
        BY <4>2, <4>3, Constants
    <3>3. QED
      BY <2>1, <3>2, AppendKeeps DEF KeptIn
  <2>4. ASSUME NEW w \in Writers, NEW z \in Sessions, Create(w, z)
        PROVE  cassette'[s] = cassette[s]
    BY <1>1, <2>4 DEF StoreInv, Types, Create, Listed
  <2>5. ASSUME NEW w \in Writers, WriteHeader(w) \/ WriteHeaderFails(w)
        PROVE  cassette'[s] = cassette[s]
    <3>1. session[w] # s
      BY <1>1, <2>1, <2>5, Constants DEF StoreInv, Owns, WriteHeader, WriteHeaderFails
    <3>2. QED
      BY <1>1, <2>5, <3>1 DEF StoreInv, Types, WriteHeader, WriteHeaderFails
  <2>6. ASSUME NEW w \in Writers, Encode(w)
        PROVE  \/ cassette'[s] = cassette[s]
               \/ \E l \in Contents \cup {"cut"} : cassette' = [cassette EXCEPT ![s].lines = Append(@, l)]
    <3>1. payload[w] \in Contents
      BY <1>1, <2>6, Constants DEF StoreInv, Types, PutOK, Encode
    <3>2. CASE session[w] = s
      BY <2>6, <3>1, <3>2 DEF Encode, AddLine
    <3>3. CASE session[w] # s
      BY <1>1, <2>6, <3>3 DEF StoreInv, Types, Encode, AddLine
    <3>4. QED
      BY <3>2, <3>3
  <2>7. ASSUME NEW w \in Writers, Kill(w)
        PROVE  \/ cassette'[s] = cassette[s]
               \/ \E l \in Contents \cup {"cut"} : cassette' = [cassette EXCEPT ![s].lines = Append(@, l)]
    <3>1. CASE pc[w] = "header" /\ cassette' = [cassette EXCEPT ![session[w]].header = "cut"]
      <4>1. session[w] # s
        BY <1>1, <2>1, <2>7, <3>1, Constants DEF StoreInv, Owns, Kill
      <4>2. QED
        BY <1>1, <3>1, <4>1 DEF StoreInv, Types
    <3>2. CASE AddLine(w, "cut")
      <4>1. CASE session[w] = s
        BY <3>2, <4>1 DEF AddLine
      <4>2. CASE session[w] # s
        BY <1>1, <3>2, <4>2 DEF StoreInv, Types, AddLine
      <4>3. QED
        BY <4>1, <4>2
    <3>3. QED
      BY <2>7, <3>1, <3>2 DEF Kill
  <2>9. ASSUME NEW w \in Writers,
               \/ \E c \in Contents : WriteSpan(w, c)
               \/ Copy(w) \/ Sync(w) \/ Stat(w) \/ Commit(w) \/ Commited(w) \/ PutFails(w)
        PROVE  cassette'[s] = cassette[s]
    BY <2>9 DEF WriteSpan, Copy, Sync, Stat, Commit, Commited, PutFails
  <2>10. QED
    BY <1>1, <2>2, <2>3, <2>4, <2>5, <2>6, <2>7, <2>9 DEF Next, vars
<1>2. StoreInv /\ [Next]_vars => [(\A s \in Sessions : Listed(s) => KeptIn(s)) \/ PowerLoss]_vars
  BY <1>1
<1>3. QED
  BY <1>2, Invariance, PTL DEF Spec, EvidenceIsKept, KeptIn

-----------------------------------------------------------------------------
(* The refinement of BlobStore.                                            *)

\* What the refinement maps the store to.
Kept  == {c \in Contents : Resolves(c)}
Asked == [w \in Writers |-> IF pc[w] \in {"copy", "stat", "commit"} THEN {payload[w]} ELSE {}]

\* Steps that move a recorder about, to the same side of a put.
LEMMA Stutters ==
  ASSUME StoreInv, NEW w \in Writers, NEW l \in Places, UNCHANGED <<backend, blobs>>,
         pc' = [pc EXCEPT ![w] = l], Putting(w) <=> l \in {"copy", "stat", "commit"},
         Putting(w) => payload'[w] = payload[w],
         \A v \in Writers \ {w} : payload'[v] = payload[v]
  PROVE  UNCHANGED Promise!vars
<1>1. Kept' = Kept /\ told' = told /\ backend' = backend
  BY DEF Kept, Resolves, Has, blobs
<1>2. \A v \in Writers : Asked'[v] = Asked[v]
  BY DEF Asked, Putting, StoreInv, Types
<1>3. Asked' = Asked
  BY <1>2 DEF Asked
<1>4. QED
  BY <1>1, <1>3 DEF Promise!vars, Kept, Asked

\* A put that ends leaves the other ones alone.
LEMMA PutEnds ==
  ASSUME StoreInv, NEW w \in Writers, Putting(w), NEW l \in {"encode", "ready"},
         pc' = [pc EXCEPT ![w] = l], \A v \in Writers \ {w} : payload'[v] = payload[v]
  PROVE  /\ Asked[w] = {payload[w]} /\ Asked' = [Asked EXCEPT ![w] = {}]
         /\ Asked' = [v \in Writers |-> IF v \in {w} THEN {} ELSE Asked[v]]
         /\ UNION {Asked[v] : v \in {w}} = {payload[w]}
<1>1. Asked[w] = {payload[w]}
  BY DEF Asked, Putting
<1>2. \A v \in Writers : Asked'[v] = IF v = w THEN {} ELSE Asked[v]
  BY DEF Asked, StoreInv, Types
<1>3. Asked' = [Asked EXCEPT ![w] = {}] /\ Asked' = [v \in Writers |-> IF v \in {w} THEN {} ELSE Asked[v]]
  BY <1>2 DEF Asked
<1>4. UNION {Asked[v] : v \in {w}} = {payload[w]}
  BY <1>1
<1>5. QED
  BY <1>1, <1>3, <1>4

\* What is under its digest can be read back.
LEMMA KeptIsStored == StoreInv => Kept = {c \in Contents : Has(c)}
BY DEF StoreInv, Stored, Kept, Resolves, Whole

\* The store is what its interface promises: a put takes effect in one step, at
\* a rename, at an upload or when it finds the blob there, and its answer is
\* true; one that fails, or whose recorder goes down, has stored all or nothing;
\* and what is stored goes only from a directory whose node loses power.
THEOREM PromiseIsKept == Spec => KeepsItsPromise
<1>1. Init => Promise!Init
  <2> SUFFICES ASSUME Init PROVE Promise!Init
    OBVIOUS
  <2>1. Kept = {}
    BY DEF Init, Kept, Resolves, Has
  <2>2. Asked = [w \in Writers |-> {}]
    BY DEF Init, Asked
  <2>3. QED
    BY <2>1, <2>2 DEF Init, Promise!Init, Kept, Asked
<1>2. ASSUME StoreInv, StoreInv', [Next]_vars
      PROVE  [Promise!Next]_(Promise!vars)
  <2>1. ASSUME NEW w \in Writers, NEW s \in Sessions, Create(w, s)
        PROVE  UNCHANGED Promise!vars
    BY <1>2, <2>1, Stutters DEF Create, Goto, Putting, Places
  <2>2. ASSUME NEW w \in Writers, WriteHeader(w) \/ WriteHeaderFails(w) \/ Encode(w)
        PROVE  UNCHANGED Promise!vars
    <3>1. /\ UNCHANGED <<backend, blobs>> /\ ~Putting(w) /\ (\A v \in Writers \ {w} : payload'[v] = payload[v])
          /\ \E l \in {"start", "ready"} : pc' = [pc EXCEPT ![w] = l]
      BY <1>2, <2>2 DEF WriteHeader, WriteHeaderFails, Encode, Goto, Putting, StoreInv, Types
    <3>2. QED
      BY <1>2, <3>1, Stutters DEF Places
  <2>3. ASSUME NEW w \in Writers, NEW c \in Contents, WriteSpan(w, c)
        PROVE  [Promise!Next]_(Promise!vars)
    <3>1. /\ UNCHANGED <<backend, blobs>> /\ ~Putting(w) /\ payload' = [payload EXCEPT ![w] = c]
          /\ pc' = [pc EXCEPT ![w] = IF c \in Large THEN "copy" ELSE "encode"]
      BY <2>3 DEF WriteSpan, Goto, Putting
    <3>2. CASE c \in Large
      <4>1. Kept' = Kept /\ told' = told /\ backend' = backend
        BY <3>1 DEF Kept, Resolves, Has, blobs
      <4>2. \A v \in Writers : Asked'[v] = IF v = w THEN {c} ELSE Asked[v]
        BY <1>2, <3>1, <3>2 DEF Asked, StoreInv, Types
      <4>3. Asked[w] = {} /\ Asked' = [Asked EXCEPT ![w] = {c}]
        BY <3>1, <4>2 DEF Asked, Putting
      <4>4. Promise!Put(w, c)
        BY <4>1, <4>3 DEF Promise!Put, Kept, Asked
      <4>5. QED
        BY <4>4 DEF Promise!Next
    <3>3. CASE c \notin Large
      BY <1>2, <3>1, <3>3, Stutters DEF Places, StoreInv, Types
    <3>4. QED
      BY <3>2, <3>3
  <2>4. ASSUME NEW w \in Writers, Copy(w) \/ Sync(w)
        PROVE  UNCHANGED Promise!vars
    <3>1. /\ UNCHANGED <<backend, blobs, payload>> /\ Putting(w)
          /\ \E l \in {"copy", "stat"} : pc' = [pc EXCEPT ![w] = l]
      BY <1>2, <2>4 DEF Copy, Sync, Goto, Putting, StoreInv, Types
    <3>2. QED
      BY <1>2, <3>1, Stutters DEF Places
  <2>5. ASSUME NEW w \in Writers, Putting(w), Return(w), blob'[payload[w]] # None, UNCHANGED <<backend, session>>,
               \A c \in Contents : c # payload[w] => blob'[c] = blob[c]
        PROVE  Promise!Answer(w)
    <3>1. Kept' = Kept \cup {payload[w]}
      <4>1. Kept = {c \in Contents : Has(c)} /\ Kept' = {c \in Contents : Has(c)'}
        BY <1>2, KeptIsStored DEF Kept, Resolves, Has, StoreInv, Stored, Whole
      <4>2. payload[w] \in Contents
        BY <1>2, <2>5, Constants DEF StoreInv, PutOK
      <4>3. QED
        BY <2>5, <4>1, <4>2 DEF Has
    <3>2. Asked[w] = {payload[w]} /\ Asked' = [Asked EXCEPT ![w] = {}]
      BY <1>2, <2>5, PutEnds DEF Return, Goto
    <3>3. told' = told \cup {payload[w]}
      BY <2>5 DEF Return
    <3>4. QED
      BY <2>5, <3>1, <3>2, <3>3 DEF Promise!Answer, Kept, Asked
  <2>6. ASSUME NEW w \in Writers, Stat(w) \/ Commit(w) \/ Commited(w)
        PROVE  [Promise!Next]_(Promise!vars)
    <3>1. Putting(w) /\ payload[w] \in Contents /\ tmp[w] # None
      BY <1>2, <2>6, Constants DEF StoreInv, PutOK, Putting, Stat, Commit, Commited
    <3>6. backend' = backend
      BY <2>6 DEF Stat, Commit, Commited
    <3>2. CASE Goto(w, "commit") /\ UNCHANGED <<blob, told, payload>>
      BY <1>2, <3>1, <3>2, <3>6, Stutters DEF Goto, Places, blobs
    <3>3. CASE Return(w) /\ blob' = blob /\ Has(payload[w])
      BY <2>5, <3>1, <3>3, <3>6 DEF Return, Has, Promise!Next
    <3>4. CASE Commit(w)
      <4>1. blob'[payload[w]] # None /\ \A c \in Contents : c # payload[w] => blob'[c] = blob[c]
        BY <1>2, <3>1, <3>4, Constants DEF Commit, StoreInv, Types
      <4>2. Return(w)
        BY <3>4 DEF Commit
      <4>3. QED
        BY <2>5, <3>1, <3>6, <4>1, <4>2 DEF Return, Promise!Next
    <3>5. QED
      BY <2>6, <3>2, <3>3, <3>4 DEF Stat, Commited
  <2>7. ASSUME NEW w \in Writers, PutFails(w)
        PROVE  Promise!Fail({w})
    <3>1. Putting(w) /\ payload[w] \in Contents
      BY <1>2, <2>7, Constants DEF StoreInv, PutOK, Putting, PutFails
    <3>2. /\ Asked' = [v \in Writers |-> IF v \in {w} THEN {} ELSE Asked[v]]
          /\ UNION {Asked[v] : v \in {w}} = {payload[w]}
      <4>1. pc' = [pc EXCEPT ![w] = "ready"] /\ \A v \in Writers \ {w} : payload'[v] = payload[v]
        BY <1>2, <2>7 DEF PutFails, Goto, StoreInv, Types
      <4>2. QED
        BY <1>2, <3>1, <4>1, PutEnds
    <3>3. Kept' \in {Kept, Kept \cup {payload[w]}}
      <4>1. CASE blob' = blob
        BY <4>1 DEF Kept, Resolves, Has
      <4>2. CASE blob' = [blob EXCEPT ![payload[w]] = Whole]
        BY <1>2, <3>1, <4>2, Constants DEF Kept, Resolves, Has, StoreInv, Types, Whole
      <4>3. QED
        BY <2>7, <4>1, <4>2 DEF PutFails, blobs
    <3>4. QED
      BY <2>7, <3>2, <3>3 DEF PutFails, Promise!Fail, Kept, Asked
  <2>8. ASSUME NEW w \in Writers, Kill(w)
        PROVE  Promise!Fail({w})
    <3>1. Asked' = [v \in Writers |-> IF v \in {w} THEN {} ELSE Asked[v]] /\ told' = told
      <4>1. \A v \in Writers : Asked'[v] = IF v \in {w} THEN {} ELSE Asked[v]
        BY <2>8 DEF Kill, Down, Asked
      <4>2. QED
        BY <2>8, <4>1 DEF Asked, Kill, Down
    <3>2. Kept' \in {Kept, Kept \cup UNION {Asked[v] : v \in {w}}}
      <4>1. CASE blob' = blob
        BY <4>1 DEF Kept, Resolves, Has
      <4>2. CASE pc[w] = "commit" /\ blob' = [blob EXCEPT ![payload[w]] = Whole]
        <5>1. UNION {Asked[v] : v \in {w}} = {payload[w]} /\ payload[w] \in Contents
          BY <1>2, <4>2, Constants DEF Asked, StoreInv, PutOK, Putting
        <5>2. Kept' = Kept \cup {payload[w]}
          BY <1>2, <4>2, <5>1, Constants DEF Kept, Resolves, Has, StoreInv, Types, Whole
        <5>3. QED
          BY <5>1, <5>2
      <4>3. QED
        BY <2>8, <4>1, <4>2 DEF Kill
    <3>3. QED
      BY <2>8, <3>1, <3>2 DEF Kill, Down, Promise!Fail, Kept, Asked
  <2>9. ASSUME PowerLoss
        PROVE  Promise!Outage
    <3>1. Asked' = [v \in Writers |-> {}] /\ told' = told /\ backend = "fs" /\ backend' = backend
      BY <2>9 DEF PowerLoss, Down, Asked
    <3>2. Kept' \in SUBSET Kept
      <4>1. Kept = {c \in Contents : Has(c)} /\ Kept' = {c \in Contents : Has(c)'}
        BY <1>2, KeptIsStored DEF Kept, Resolves, Has, StoreInv, Stored, Whole
      <4>2. QED
        BY <1>2, <2>9, <4>1, BlobsLeft DEF Has
    <3>3. QED
      BY <3>1, <3>2 DEF Promise!Outage, Kept, Asked
  <2>10. CASE UNCHANGED vars
    BY <2>10 DEF vars, blobs, Promise!vars, Kept, Asked, Resolves, Has
  <2>11. QED
    BY <1>2, <2>1, <2>2, <2>3, <2>4, <2>6, <2>7, <2>8, <2>9, <2>10 DEF Next, Promise!Next
<1>3. QED
  BY <1>1, <1>2, Invariance, PTL DEF Spec, KeepsItsPromise, Promise!Spec

==============================================================================
