-------------------------------- MODULE Swarm --------------------------------
(* The swarm that keeps a checkpoint: what the tracker believes               *)
(* (TrackerClaims), whom its slots serve (TrackerPeers), who should hold what *)
(* (TrackerAssign), and what mirrors, maintainers and resident weights do     *)
(* with the bytes. The parts share no state. What they promise, and why they  *)
(* keep it for every value of the constants: each part has an inductive       *)
(* invariant of its own.                                                      *)
EXTENDS Integers, Sequences, FiniteSets, FiniteSetTheorems, SequenceTheorems, TLAPS
CONSTANTS None,
          Process, Login, Key, Subject, IsModel, Path, PathOf, Content, Signer, Ring, CacheSize,
          Conn, Slot, Storage, Compute, Advert, ModelOf, Model, SourceOf, MaxPerSource, Span,
          MaxBoot,
          Executor, Cell, Layer, LayerOf, Order, Capacity, Keep, Donor, Slice, Machine, Client,
          MaxRows,
          Proc, Thread, ProcOf, Block, Root, MaxFaults,
          Version, IsDonor, HaveKey, Trust, MaxEdits,
          Loader, Piece, Slots, Good
VARIABLES file, index, record, alias, up, bound, known, admitted, served,
          slot, conn, bind, reply, told, gen, boot, view, issued,
          held, promise, asked, plan, lapsed, seg, offer, back, rows, quiet, open, listed,
          require, disk, durable, bits, stable, ident, side, truth, adopted, shared, reset,
          stage, want,
          map, verified, inflight, hash, dirty, commit, snap, at, block, data, faults,
          content, stamp, sha, sig, saved, swarm, step, seen, got, kept, root, fd, read, sent,
          sealed, cache, ranges, locked, phase, need, result
claims == <<file, index, record, alias, up, bound, known, admitted, served>>
peers == <<slot, conn, bind, reply, told, gen, boot, view, issued>>
experts == <<held, promise, asked, plan, lapsed>>
donors == <<seg, offer, back>>
inventory == <<rows, quiet, open, listed>>
mirror == <<require, disk, durable, bits, stable, ident, side, truth, adopted, shared, reset, stage,
            want, map, verified, inflight, hash, dirty, commit, snap, at, block, data, faults>>
origin == <<content, stamp, sha, sig, saved, swarm, step, seen, got, kept, root, fd, read, sent>>
resident == <<sealed, cache, ranges, locked, phase, need, result>>
C == INSTANCE TrackerClaims WITH Name <- Login
P == INSTANCE TrackerPeers
A == INSTANCE TrackerAssign WITH Conn <- Client
M == INSTANCE WeightMirror
O == INSTANCE Maintainer WITH Donor <- IsDonor, file <- kept, data <- read, reply <- sent
W == INSTANCE ResidentWeights WITH Thread <- Loader, Block <- Piece, at <- phase, want <- need
------------------------------------------------------------------------------
(* Nobody is told of two owners of a name or two contents of a subject,       *)
(* whatever restarts, torn writes and evictions do: see TrackerClaims.        *)
ClaimsNeverSplit == C!ClaimsNeverSplit
(* Slots and the threads that point at them, and the one route that a fencing *)
(* epoch names: see TrackerPeers.                                             *)
PeersSound == P!PeersSound
(* Recorded evidence, generations and leases only grow: see TrackerClaims and *)
(* TrackerPeers.                                                              *)
OnlyGrows == C!EvidenceOnlyGrows /\ P!GenerationGrows
(* Overlapping assignments never release the last copy: see TrackerAssign.    *)
ReleaseKeepsCoverage == A!ReleaseKeepsCoverage
(* Overlapping donors spread over the slices and no computer is counted       *)
(* twice: see TrackerAssign.                                                  *)
DonorsSound == A!DonorsBalanced /\ A!CountedOnce
(* No process serves bytes that are not its truth: see WeightMirror.          *)
MirrorSound == M!MirrorSound
(* What is announced and signed is what is sent, and nothing becomes resident *)
(* behind the reported total: see Maintainer and ResidentWeights.             *)
ServedSound == O!AnnouncedIsServed /\ W!SealIsFinal
------------------------------------------------------------------------------
(* Claims: keys, contents and who signed them.                              *)
ClaimsType ==
    /\ file \in [Login -> Key \cup {None}]
    /\ index \in [Login -> Key \cup {None}]
    /\ record \in [Subject -> C!Record \cup {None}]
    /\ alias \in [Path -> Subject \cup {None}]
    /\ bound \in [Process -> [Login -> Key \cup {None}]]
    /\ known \in [Process -> [Subject -> C!Record \cup {None}]]
    /\ admitted \subseteq Login \X Key
    /\ served \subseteq Subject \X Content

\* Every key that a file, a cache or an answer ever named is the index's.
OwnersAgree ==
    /\ \A n \in Login : file[n] # None => index[n] = file[n]
    /\ \A p \in Process, n \in Login : bound[p][n] # None => index[n] = bound[p][n]
    /\ \A n \in Login, k \in Key : <<n, k>> \in admitted => index[n] = k

\* Every content that a cache holds or that was ever served is the record's.
ContentsAgree ==
    /\ \A p \in Process, s \in Subject :
          known[p][s] # None => record[s] # None /\ record[s].content = known[p][s].content
    /\ \A s \in Subject, c \in Content :
          <<s, c>> \in served => record[s] # None /\ record[s].content = c

ClaimsInv == ClaimsType /\ OwnersAgree /\ ContentsAgree

\* Remembering a value overwrites its entry, and forgets at most one other.
LEMMA RememberedForms ==
    ASSUME NEW entries, NEW k, NEW v, NEW m \in C!Remembered(entries, k, v)
    PROVE  \/ m = [entries EXCEPT ![k] = v]
           \/ \E x \in DOMAIN entries : m = [entries EXCEPT ![x] = None, ![k] = v]
  BY DEF C!Remembered

\* At the start nobody has claimed anything.
LEMMA ClaimsInit == C!Init => ClaimsInv
  BY DEF C!Init, ClaimsInv, ClaimsType, OwnersAgree, ContentsAgree

\* A process that starts takes its cache from the file, and indexes the file.
LEMMA StartStep ==
    ASSUME C!ClaimsConstants, ClaimsInv, NEW p \in Process, NEW r \in Ring, C!Start(p, r)
    PROVE  ClaimsInv'
<1> USE DEF ClaimsInv
<1>1. PICK c \in C!LoadedCaches : bound' = [bound EXCEPT ![p] = c]
  BY DEF C!Start
<1>2. c \in [Login -> Key \cup {None}] /\ \A n \in Login : c[n] \in {None, file[n]}
  BY <1>1 DEF C!LoadedCaches
<1>3. index' = [n \in Login |-> IF file[n] # None THEN file[n] ELSE index[n]]
  BY DEF C!Start
<1>4. index' = index
  BY <1>3 DEF ClaimsType, OwnersAgree
<1>5. UNCHANGED <<file, index, record, alias, known, admitted, served>>
  BY <1>4 DEF C!Start
<1>6. ClaimsType'
  BY <1>1, <1>2, <1>5 DEF ClaimsType
<1>7. OwnersAgree'
  BY <1>1, <1>2, <1>5 DEF ClaimsType, OwnersAgree
<1>8. ContentsAgree'
  BY <1>5 DEF ContentsAgree
<1> QED BY <1>6, <1>7, <1>8

\* A crash empties the caches of a process.
LEMMA CrashStep ==
    ASSUME ClaimsInv, NEW p \in Process, C!Crash(p)
    PROVE  ClaimsInv'
<1> USE DEF ClaimsInv
<1>1. /\ bound' = [bound EXCEPT ![p] = [n \in Login |-> None]]
      /\ known' = [known EXCEPT ![p] = [s \in Subject |-> None]]
      /\ UNCHANGED <<file, index, record, alias, admitted, served>>
  BY DEF C!Crash
<1>2. ClaimsType'
  BY <1>1 DEF ClaimsType
<1>3. OwnersAgree'
  BY <1>1 DEF ClaimsType, OwnersAgree
<1>4. ContentsAgree'
  BY <1>1 DEF ClaimsType, ContentsAgree
<1> QED BY <1>2, <1>3, <1>4

\* A name is admitted under the key of the index, or under the first one.
LEMMA AdmitStep ==
    ASSUME C!ClaimsConstants, ClaimsInv, NEW p \in Process, NEW n \in Login, NEW k \in Key,
           C!AdmitCached(p, n, k) \/ C!Admit(p, n, k) \/ C!AdmitTorn(p, n, k)
    PROVE  ClaimsInv'
<1> USE DEF ClaimsInv, C!ClaimsConstants
<1>1. CASE C!AdmitCached(p, n, k)
  <2>1. /\ bound[p][n] = k /\ admitted' = admitted \cup {<<n, k>>}
        /\ UNCHANGED <<file, index, record, alias, bound, known, served>>
    BY <1>1 DEF C!AdmitCached
  <2>2. ClaimsType'
    BY <2>1 DEF ClaimsType
  <2>3. OwnersAgree'
    BY <2>1 DEF OwnersAgree
  <2>4. ContentsAgree'
    BY <2>1 DEF ContentsAgree
  <2> QED BY <2>2, <2>3, <2>4
<1>2. CASE C!Admit(p, n, k)
  <2>1. PICK c \in C!Remembered(bound[p], n, k) : bound' = [bound EXCEPT ![p] = c]
    BY <1>2 DEF C!Admit
  <2>2. /\ file[n] \in {None, k} /\ index[n] \in {None, k}
        /\ index' = [index EXCEPT ![n] = k] /\ file' = [file EXCEPT ![n] = k]
        /\ admitted' = admitted \cup {<<n, k>>}
        /\ UNCHANGED <<record, alias, known, served>>
    BY <1>2 DEF C!Admit, C!Admissible, C!HistoryAccepts
  <2>3. bound[p] \in [Login -> Key \cup {None}]
    BY DEF ClaimsType
  <2>4. /\ c \in [Login -> Key \cup {None}] /\ c[n] = k
        /\ \A x \in Login : x # n => c[x] \in {None, bound[p][x]}
    <3>1. \/ c = [bound[p] EXCEPT ![n] = k]
          \/ \E x \in Login : c = [bound[p] EXCEPT ![x] = None, ![n] = k]
      BY <2>1, <2>3, RememberedForms
    <3> QED BY ONLY <2>3, <3>1, n \in Login, k \in Key
  <2>5. ClaimsType'
    <3>1. /\ file' \in [Login -> Key \cup {None}] /\ index' \in [Login -> Key \cup {None}]
          /\ admitted' \subseteq Login \X Key
      BY <2>2 DEF ClaimsType
    <3>2. bound' \in [Process -> [Login -> Key \cup {None}]]
      BY <2>1, <2>4 DEF ClaimsType
    <3> QED BY <2>2, <3>1, <3>2 DEF ClaimsType
  <2>6. OwnersAgree'
    <3>1. \A x \in Login : index'[x] = IF x = n THEN k ELSE index[x]
      BY <2>2 DEF ClaimsType
    <3>2. \A x \in Login : file'[x] # None => index'[x] = file'[x]
      BY <2>2, <3>1 DEF ClaimsType, OwnersAgree
    <3>3. \A q \in Process, x \in Login : bound'[q][x] # None => index'[x] = bound'[q][x]
      BY <2>1, <2>2, <2>4, <3>1 DEF ClaimsType, OwnersAgree
    <3>4. \A x \in Login, y \in Key : <<x, y>> \in admitted' => index'[x] = y
      BY <2>2, <3>1 DEF OwnersAgree
    <3> QED BY <3>2, <3>3, <3>4 DEF OwnersAgree
  <2>7. ContentsAgree'
    BY <2>2 DEF ContentsAgree
  <2> QED BY <2>5, <2>6, <2>7
<1>3. CASE C!AdmitTorn(p, n, k)
  <2>1. /\ index[n] \in {None, k} /\ index' = [index EXCEPT ![n] = k]
        /\ UNCHANGED <<file, record, alias, bound, known, admitted, served>>
    BY <1>3 DEF C!AdmitTorn, C!Admissible, C!HistoryAccepts
  <2>2. ClaimsType'
    BY <2>1 DEF ClaimsType
  <2>3. OwnersAgree'
    BY <2>1 DEF ClaimsType, OwnersAgree
  <2>4. ContentsAgree'
    BY <2>1 DEF ContentsAgree
  <2> QED BY <2>2, <2>3, <2>4
<1> QED BY <1>1, <1>2, <1>3

\* A claim is accepted when it repeats the record, or is the first.
LEMMA ClaimStep ==
    ASSUME C!ClaimsConstants, ClaimsInv, NEW p \in Process, NEW s \in Subject, NEW c \in Content,
           NEW g \in Signer \cup {None}, C!Claim(p, s, c, g)
    PROVE  /\ ClaimsInv'
           /\ record[s] # None =>
                /\ record'[s] # None /\ record'[s].content = record[s].content
                /\ record[s].signer # None => record'[s].signer # None
           /\ \A x \in Subject : x # s => record'[x] = record[x]
<1> USE DEF ClaimsInv, C!ClaimsConstants
<1> DEFINE new == [content |-> c, signer |-> g]
           old == record[s]
           value == IF old = None \/ C!Upgrades(p, old, g) THEN new ELSE old
<1>1. PICK m \in C!Remembered(known[p], s, value) : known' = [known EXCEPT ![p] = m]
  BY DEF C!Claim, C!HistoryRead
<1>2. /\ old # None => old.content = c
      /\ record' = [record EXCEPT ![s] = value]
      /\ alias' = IF s \in IsModel \/ alias[PathOf[s]] # None THEN alias
                  ELSE [alias EXCEPT ![PathOf[s]] = s]
      /\ UNCHANGED <<file, index, bound, admitted, served>>
  BY DEF C!Claim, C!HistoryRead, C!HistoryWrite, C!Contradicts
<1>3. new \in C!Record /\ old \in C!Record \cup {None} /\ value \in C!Record
  BY DEF C!Record, ClaimsType
<1>4. /\ value # None /\ value.content = c
      /\ old # None => value.content = old.content /\ (old.signer # None => value.signer # None)
  BY <1>2, <1>3 DEF C!Upgrades
<1> HIDE DEF value
<1>5. known[p] \in [Subject -> C!Record \cup {None}]
  BY DEF ClaimsType
<1>6. /\ m \in [Subject -> C!Record \cup {None}] /\ m[s] = value
      /\ \A x \in Subject : x # s => m[x] \in {None, known[p][x]}
  <2>1. \/ m = [known[p] EXCEPT ![s] = value]
        \/ \E x \in Subject : m = [known[p] EXCEPT ![x] = None, ![s] = value]
    BY <1>1, <1>5, RememberedForms
  <2> QED BY ONLY <2>1, <1>3, <1>5, s \in Subject
<1>7. \A x \in Subject : record'[x] = IF x = s THEN value ELSE record[x]
  BY <1>2 DEF ClaimsType
<1>8. ClaimsType'
  <2>1. record' \in [Subject -> C!Record \cup {None}]
    BY <1>2, <1>3 DEF ClaimsType
  <2>2. known' \in [Process -> [Subject -> C!Record \cup {None}]]
    BY <1>1, <1>6 DEF ClaimsType
  <2>3. alias' \in [Path -> Subject \cup {None}]
    BY <1>2 DEF ClaimsType
  <2> QED BY <1>2, <2>1, <2>2, <2>3 DEF ClaimsType
<1>9. OwnersAgree'
  BY <1>2 DEF OwnersAgree
<1>10. ContentsAgree'
  <2>1. \A x \in Subject : record[x] # None =>
            record'[x] # None /\ record'[x].content = record[x].content
    BY <1>4, <1>7
  <2>2. ASSUME NEW q \in Process, NEW x \in Subject, known'[q][x] # None
        PROVE  record'[x] # None /\ record'[x].content = known'[q][x].content
    <3>1. CASE q = p /\ x = s
      BY <3>1, <1>1, <1>4, <1>6, <1>7 DEF ClaimsType
    <3>2. CASE ~(q = p /\ x = s)
      <4>1. known'[q][x] = known[q][x]
        BY <3>2, <2>2, <1>1, <1>6 DEF ClaimsType
      <4> QED BY <4>1, <2>1, <2>2 DEF ContentsAgree
    <3> QED BY <3>1, <3>2
  <2>3. \A x \in Subject, y \in Content :
            <<x, y>> \in served' => record'[x] # None /\ record'[x].content = y
    BY <2>1, <1>2 DEF ContentsAgree
  <2> QED BY <2>2, <2>3 DEF ContentsAgree
<1> QED BY <1>4, <1>7, <1>8, <1>9, <1>10

\* The record of a first claim survives what is torn after it.
LEMMA ClaimTornStep ==
    ASSUME C!ClaimsConstants, ClaimsInv, NEW p \in Process, NEW s \in Subject, NEW c \in Content,
           NEW g \in Signer \cup {None}, C!ClaimTorn(p, s, c, g)
    PROVE  /\ ClaimsInv'
           /\ record[s] = None
           /\ \A x \in Subject : x # s => record'[x] = record[x]
<1> USE DEF ClaimsInv, C!ClaimsConstants
<1> DEFINE new == [content |-> c, signer |-> g]
<1>1. /\ record[s] = None /\ record' = [record EXCEPT ![s] = new]
      /\ UNCHANGED <<file, index, alias, bound, known, admitted, served>>
  BY DEF C!ClaimTorn, C!HistoryRead, C!HistoryWrite
<1>2. new \in C!Record
  BY DEF C!Record
<1> HIDE DEF new
<1>3. ClaimsType'
  BY <1>1, <1>2 DEF ClaimsType
<1>4. OwnersAgree'
  BY <1>1 DEF OwnersAgree
<1>5. \A x \in Subject : x # s => record'[x] = record[x]
  BY <1>1 DEF ClaimsType
<1>6. ContentsAgree'
  BY <1>1, <1>5 DEF ContentsAgree
<1> QED BY <1>1, <1>3, <1>4, <1>5, <1>6

\* What a verifier is told is the record, from a cache or from the store.
LEMMA DeliverStep ==
    ASSUME C!ClaimsConstants, ClaimsInv, NEW p \in Process, NEW s \in Subject, C!Deliver(p, s)
    PROVE  ClaimsInv' /\ record' = record
<1> USE DEF ClaimsInv, C!ClaimsConstants
<1> DEFINE found == C!Found(p, s)
<1>1. PICK m \in C!Remembered(known[p], s, found) : known' = [known EXCEPT ![p] = m]
  BY DEF C!Deliver
<1>2. /\ found # None /\ served' \subseteq served \cup {<<s, found.content>>}
      /\ UNCHANGED <<file, index, record, alias, bound, admitted>>
  BY DEF C!Deliver
<1>3. found \in C!Record /\ record[s] # None /\ record[s].content = found.content
  BY <1>2 DEF C!Found, C!HistoryRead, ClaimsType, ContentsAgree
<1> HIDE DEF found
<1>4. known[p] \in [Subject -> C!Record \cup {None}]
  BY DEF ClaimsType
<1>5. /\ m \in [Subject -> C!Record \cup {None}] /\ m[s] = found
      /\ \A x \in Subject : x # s => m[x] \in {None, known[p][x]}
  <2>1. \/ m = [known[p] EXCEPT ![s] = found]
        \/ \E x \in Subject : m = [known[p] EXCEPT ![x] = None, ![s] = found]
    BY <1>1, <1>4, RememberedForms
  <2> QED BY ONLY <2>1, <1>3, <1>4, s \in Subject
<1>6. ClaimsType'
  <2>1. known' \in [Process -> [Subject -> C!Record \cup {None}]]
    BY <1>1, <1>5 DEF ClaimsType
  <2>2. found.content \in Content
    BY <1>3 DEF C!Record
  <2>3. served' \subseteq Subject \X Content
    BY <1>2, <2>2 DEF ClaimsType
  <2> QED BY <1>2, <2>1, <2>3 DEF ClaimsType
<1>7. OwnersAgree'
  BY <1>2 DEF OwnersAgree
<1>8. ContentsAgree'
  <2>1. ASSUME NEW q \in Process, NEW x \in Subject, known'[q][x] # None
        PROVE  record[x] # None /\ record[x].content = known'[q][x].content
    <3>1. CASE q = p /\ x = s
      BY <3>1, <1>1, <1>3, <1>5 DEF ClaimsType
    <3>2. CASE ~(q = p /\ x = s)
      <4>1. known'[q][x] = known[q][x]
        BY <3>2, <2>1, <1>1, <1>5 DEF ClaimsType
      <4> QED BY <4>1, <2>1 DEF ContentsAgree
    <3> QED BY <3>1, <3>2
  <2>2. ASSUME NEW x \in Subject, NEW y \in Content, <<x, y>> \in served'
        PROVE  record[x] # None /\ record[x].content = y
    BY <2>2, <1>2, <1>3 DEF ContentsAgree
  <2> QED BY <1>2, <2>1, <2>2 DEF ContentsAgree
<1> QED BY <1>2, <1>6, <1>7, <1>8

\* Recorded evidence only grows.
Grows ==
    \A s \in Subject : record[s] # None =>
        /\ record'[s] # None /\ record'[s].content = record[s].content
        /\ record[s].signer # None => record'[s].signer # None

\* Every step keeps the agreement and what was recorded.
LEMMA ClaimsNext ==
    ASSUME C!ClaimsConstants, ClaimsInv, [C!Next]_C!vars
    PROVE  ClaimsInv' /\ Grows
<1>1. CASE UNCHANGED C!vars
  BY <1>1 DEF C!vars, ClaimsInv, ClaimsType, OwnersAgree, ContentsAgree, Grows
<1>2. ASSUME NEW p \in Process, NEW r \in Ring, C!Start(p, r)
      PROVE  ClaimsInv' /\ Grows
  BY <1>2, StartStep DEF C!Start, Grows
<1>3. ASSUME NEW p \in Process, C!Crash(p)
      PROVE  ClaimsInv' /\ Grows
  BY <1>3, CrashStep DEF C!Crash, Grows
<1>4. ASSUME NEW p \in Process, NEW n \in Login, NEW k \in Key,
             C!AdmitCached(p, n, k) \/ C!Admit(p, n, k) \/ C!AdmitTorn(p, n, k)
      PROVE  ClaimsInv' /\ Grows
  <2>1. record' = record
    BY <1>4 DEF C!AdmitCached, C!Admit, C!AdmitTorn
  <2> QED BY <1>4, <2>1, AdmitStep DEF Grows
<1>5. ASSUME NEW p \in Process, NEW s \in Subject, NEW c \in Content, NEW g \in Signer \cup {None},
             C!ClaimCached(p, s, c, g)
      PROVE  ClaimsInv' /\ Grows
  BY <1>5, <1>1 DEF C!ClaimCached
<1>6. ASSUME NEW p \in Process, NEW s \in Subject, NEW c \in Content, NEW g \in Signer \cup {None},
             C!Claim(p, s, c, g)
      PROVE  ClaimsInv' /\ Grows
  BY <1>6, ClaimStep DEF Grows
<1>7. ASSUME NEW p \in Process, NEW s \in Subject, NEW c \in Content, NEW g \in Signer \cup {None},
             C!ClaimTorn(p, s, c, g)
      PROVE  ClaimsInv' /\ Grows
  BY <1>7, ClaimTornStep DEF Grows
<1>8. ASSUME NEW p \in Process, NEW s \in Subject, C!Deliver(p, s)
      PROVE  ClaimsInv' /\ Grows
  BY <1>8, DeliverStep DEF Grows
<1>9. ASSUME NEW p \in Process, NEW s \in Subject, C!Serve(p, s)
      PROVE  ClaimsInv' /\ Grows
  BY <1>9, <1>8 DEF C!Serve
<1>10. ASSUME NEW p \in Process, NEW x \in Path, C!ServeByPath(p, x)
       PROVE  ClaimsInv' /\ Grows
  <2>1. PICK s \in Subject : C!Deliver(p, s)
    BY <1>10 DEF C!ServeByPath, ClaimsInv, ClaimsType
  <2> QED BY <2>1, <1>8
<1> QED BY <1>1, <1>2, <1>3, <1>4, <1>5, <1>6, <1>7, <1>9, <1>10 DEF C!Next

\* The agreement holds in every state.
LEMMA ClaimsAlways == ASSUME C!ClaimsConstants PROVE C!Spec => []ClaimsInv
<1>1. ClaimsInv /\ [C!Next]_C!vars => ClaimsInv'
  BY ClaimsNext
<1> QED BY <1>1, ClaimsInit, PTL DEF C!Spec

\* bind_check, model_identity_check and truth_check: for any processes, restarts
\* and torn caches no name has two keys and no subject two contents.
THEOREM ClaimsCorrect == ASSUME C!ClaimsConstants PROVE C!Spec => []ClaimsNeverSplit
<1>1. ClaimsInv => ClaimsNeverSplit
  <2> SUFFICES ASSUME ClaimsInv PROVE C!OneOwner /\ C!OneContent
    BY DEF ClaimsNeverSplit, C!ClaimsNeverSplit
  <2> USE DEF ClaimsInv
  <2>1. C!OneOwner
    <3>1. \A a \in admitted : a = <<a[1], a[2]>> /\ a[1] \in Login /\ a[2] \in Key
      BY DEF ClaimsType
    <3> QED BY <3>1 DEF OwnersAgree, C!OneOwner
  <2>2. C!OneContent
    <3>1. \A a \in served : a = <<a[1], a[2]>> /\ a[1] \in Subject /\ a[2] \in Content
      BY DEF ClaimsType
    <3> QED BY <3>1 DEF ContentsAgree, C!OneContent
  <2> QED BY <2>1, <2>2
<1> QED BY <1>1, ClaimsAlways, PTL

\* tracker_history_write: no step drops a record, its content or its signature.
THEOREM EvidenceCorrect == ASSUME C!ClaimsConstants PROVE C!Spec => C!EvidenceOnlyGrows
<1>1. ClaimsInv /\ [C!Next]_C!vars => [Grows]_C!vars
  BY ClaimsNext
<1> QED BY <1>1, ClaimsAlways, PTL DEF C!Spec, C!EvidenceOnlyGrows, Grows
------------------------------------------------------------------------------
(* Peers: slots, references, leases and views.                              *)
Route == [name : P!Name, epoch : Nat, advert : Advert]
PeersType ==
    /\ slot \in [Slot -> P!PeerRec \cup {None}]
    /\ conn \in [Conn -> {"closed", "open", "closing"}]
    /\ bind \in [Conn -> Slot \cup {None}]
    /\ reply \in [Conn -> Slot \cup {None}]
    /\ told \in [Conn -> Nat]
    /\ gen \in Nat /\ boot \in Nat /\ issued \in Nat
    /\ view \in [gen : Nat, routes : SUBSET Route]

\* The generation is in the window of its boot, above every lease and view.
Fenced ==
    /\ boot * Span < gen /\ gen < boot * Span + Span
    /\ issued <= gen /\ view.gen <= gen
    /\ \A s \in Slot : slot[s] # None /\ slot[s].seg # None => slot[s].seg.epoch <= issued
    /\ \A r \in view.routes : r.epoch <= issued

PeersInv == PeersType /\ P!PeersSound /\ Fenced

\* What a step owes: the invariant, views that move forward, and leases that
\* are kept or fenced above the earlier ones.
Renewed(s) ==
    slot'[s] # None /\ slot'[s].seg # None =>
        \/ slot'[s].seg.epoch > issued
        \/ slot[s] # None /\ slot[s].seg # None /\ slot'[s].seg.epoch = slot[s].seg.epoch
PeersStep == PeersInv' /\ view'.gen >= view.gen /\ \A s \in Slot : Renewed(s)

\* The library's sets are those of TrackerPeers.
LEMMA SameSets == \A S : P!Cardinality(S) = Cardinality(S) /\ (P!IsFiniteSet(S) <=> IsFiniteSet(S))
  BY DEF P!Cardinality, Cardinality, P!IsFiniteSet, IsFiniteSet

Users(s) == {c \in Conn : bind[c] = s}

\* The connections bound to a slot are finitely many.
LEMMA UsersFinite ==
    ASSUME P!PeersConstants, NEW s
    PROVE  IsFiniteSet(Users(s)) /\ Cardinality(Users(s)) \in Nat
<1>1. IsFiniteSet(Conn) /\ Users(s) \subseteq Conn
  BY SameSets DEF P!PeersConstants, Users
<1> QED BY <1>1, FS_Subset, FS_CardinalityType

\* The references of a slot, in terms of the library's cardinality.
Referenced(s) == IF slot[s] # None THEN slot[s].refs = Cardinality(Users(s)) ELSE Users(s) = {}
\* References are exact slot by slot, before a step and after it.
LEMMA RefsForm == P!RefsExact <=> \A s \in Slot : Referenced(s)
  BY SameSets DEF P!RefsExact, P!Used, Referenced, Users
LEMMA RefsFormNext == P!RefsExact' <=> \A s \in Slot : Referenced(s)'
  BY SameSets DEF P!RefsExact, P!Used, Referenced, Users

\* A record that registers a name keeps the references of its slot.
LEMMA HomeFacts ==
    ASSUME P!PeersConstants, PeersType, P!RefsExact, NEW n \in P!Name, NEW s \in P!Home(n)
    PROVE  /\ s \in Slot /\ P!Before(s, n) \in P!PeerRec /\ P!Before(s, n).name = n
           /\ P!Before(s, n).refs = Cardinality(Users(s))
           /\ P!Before(s, n).seg # None => slot[s] # None /\ P!Before(s, n) = slot[s]
<1>1. s \in Slot
  BY DEF P!Home, P!Held, P!peer_slot_new
<1>2. slot[s] \in P!PeerRec \cup {None} /\ Referenced(s)
  BY <1>1, RefsForm DEF PeersType
<1>3. CASE s \in P!Held(n)
  BY <1>1, <1>2, <1>3 DEF P!Held, P!Before, P!Used, Referenced
<1>4. CASE s \notin P!Held(n)
  <2>1. P!Before(s, n) = P!Blank(n)
    BY <1>4 DEF P!Before
  <2>2. slot[s] = None \/ slot[s].refs = 0
    BY <1>4 DEF P!Home, P!peer_slot_new, P!Used, P!Reclaimable
  <2>3. Users(s) = {}
    <3>1. CASE slot[s] = None
      BY <3>1, <1>2 DEF Referenced
    <3>2. CASE slot[s] # None
      <4>1. Cardinality(Users(s)) = 0 /\ IsFiniteSet(Users(s))
        BY <3>2, <2>2, <1>2, UsersFinite DEF Referenced
      <4> QED BY <4>1, FS_EmptySet
    <3> QED BY <3>1, <3>2
  <2>4. P!Blank(n) \in P!PeerRec
    BY DEF P!Blank, P!PeerRec, P!Timers
  <2> QED BY <1>1, <2>1, <2>3, <2>4, FS_EmptySet DEF P!Blank
<1> QED BY <1>3, <1>4

\* Writing a record that keeps the references of its slot.
LEMMA WriteRefs ==
    ASSUME P!PeersConstants, PeersType, P!RefsExact, NEW s \in Slot, NEW rec \in P!PeerRec,
           rec.refs = Cardinality(Users(s)), slot' = [slot EXCEPT ![s] = rec], bind' = bind
    PROVE  P!RefsExact'
<1>1. \A x \in Slot : slot'[x] = IF x = s THEN rec ELSE slot[x]
  BY DEF PeersType
<1>2. rec # None /\ Users(s)' = Users(s) /\ \A x : Users(x)' = Users(x)
  BY DEF P!PeersConstants, Users
<1>3. \A x \in Slot : Referenced(x)
  BY RefsForm
<1>4. \A x \in Slot : Referenced(x)'
  BY <1>1, <1>2, <1>3 DEF Referenced
<1> QED BY <1>4, RefsFormNext

\* A thread adopts the slot it registered, or ends when it has another one.
LEMMA AdoptRefs ==
    ASSUME P!PeersConstants, PeersType, P!RefsExact, NEW s \in Slot, NEW rec \in P!PeerRec,
           NEW c \in Conn, rec.refs = Cardinality(Users(s)), P!Adopt(c, s, rec)
    PROVE  /\ P!RefsExact'
           /\ slot' \in [Slot -> P!PeerRec \cup {None}]
           /\ conn' \in [Conn -> {"closed", "open", "closing"}]
           /\ bind' \in [Conn -> Slot \cup {None}]
           /\ \A x \in Slot \ {s} : slot'[x] = slot[x]
           /\ slot'[s] \in P!PeerRec /\ slot'[s].name = rec.name /\ slot'[s].seg = rec.seg
<1> DEFINE more == [rec EXCEPT !.refs = @ + 1]
           less == IF rec.ctrl = c THEN [rec EXCEPT !.ctrl = None] ELSE rec
<1>1. /\ more \in P!PeerRec /\ more.refs = rec.refs + 1 /\ more.name = rec.name /\ more.seg = rec.seg
      /\ less \in P!PeerRec /\ less.refs = rec.refs /\ less.name = rec.name /\ less.seg = rec.seg
  BY DEF P!PeerRec
<1>2. CASE bind[c] = None
  <2>1. slot' = [slot EXCEPT ![s] = more] /\ bind' = [bind EXCEPT ![c] = s] /\ conn' = conn
    BY <1>2 DEF P!Adopt, P!PeersConstants
  <2> HIDE DEF more
  <2>2. \A x \in Slot : slot'[x] = IF x = s THEN more ELSE slot[x]
    BY <2>1 DEF PeersType
  <2>3. \A d \in Conn : bind'[d] = IF d = c THEN s ELSE bind[d]
    BY <2>1 DEF PeersType
  <2>4. Users(s)' = Users(s) \cup {c} /\ c \notin Users(s)
    BY <2>3, <1>2 DEF Users, P!PeersConstants
  <2>5. \A x \in Slot \ {s} : Users(x)' = Users(x)
    BY <2>3, <1>2 DEF Users, P!PeersConstants
  <2>6. Cardinality(Users(s)') = Cardinality(Users(s)) + 1
    BY <2>4, UsersFinite, FS_AddElement
  <2>7. \A x \in Slot : Referenced(x)
    BY RefsForm
  <2>8. \A x \in Slot : Referenced(x)'
    BY <1>1, <2>2, <2>5, <2>6, <2>7 DEF Referenced, P!PeersConstants
  <2>9. P!RefsExact'
    BY <2>8, RefsFormNext
  <2> QED BY <1>1, <2>1, <2>2, <2>9 DEF PeersType
<1>3. CASE bind[c] # None
  <2>1. PICK new \in {rec, less} :
          /\ slot' = [slot EXCEPT ![s] = new] /\ bind' = bind
          /\ conn' \in {conn, [conn EXCEPT ![c] = "closing"]}
    <3>1. CASE bind[c] = s
      <4>1. slot' = [slot EXCEPT ![s] = rec] /\ bind' = bind /\ conn' = conn
        BY <1>3, <3>1 DEF P!Adopt
      <4> QED BY <4>1
    <3>2. CASE bind[c] # s
      <4>1. /\ slot' = [slot EXCEPT ![s] = less] /\ bind' = bind
            /\ conn' = [conn EXCEPT ![c] = "closing"]
        BY <1>3, <3>2 DEF P!Adopt
      <4> QED BY <4>1
    <3> QED BY <3>1, <3>2
  <2>2. new \in P!PeerRec /\ new.refs = rec.refs /\ new.name = rec.name /\ new.seg = rec.seg
    BY <1>1
  <2> HIDE DEF less
  <2>3. P!RefsExact'
    BY <2>1, <2>2, WriteRefs
  <2>4. \A x \in Slot : slot'[x] = IF x = s THEN new ELSE slot[x]
    BY <2>1 DEF PeersType
  <2> QED BY <2>1, <2>2, <2>3, <2>4 DEF PeersType
<1> QED BY <1>2, <1>3

\* A lease that a step leaves in place, its telemetry kept, renewed or dropped.
Leased(s) == slot[s] # None /\ slot[s].seg # None
Kept(s) ==
    Leased(s)' => /\ Leased(s) /\ slot'[s].name = slot[s].name
                  /\ slot'[s].seg.epoch = slot[s].seg.epoch
                  /\ slot'[s].seg.advert = slot[s].seg.advert
                  /\ slot'[s].seg.tel \in {0, slot[s].seg.epoch}

\* A step that keeps every lease and issues none.
LEMMA KeptStep ==
    ASSUME PeersInv, PeersType', P!RefsExact', \A s \in Slot : Kept(s),
           gen' = gen, boot' = boot, view' = view, issued' = issued
    PROVE  PeersStep
<1>1. P!EpochNamesRoute'
  BY DEF PeersInv, P!PeersSound, P!LeaseNamesRoute, P!EpochNamesRoute, P!Used, Kept, Leased
<1>2. P!TelemetryIsOwn'
  BY DEF PeersInv, P!PeersSound, P!LeaseNamesRoute, P!TelemetryIsOwn, P!Used, Kept, Leased
<1>3. Fenced'
  BY DEF PeersInv, Fenced, Kept, Leased
<1>4. \A s \in Slot : Renewed(s)
  BY DEF Renewed, Kept, Leased
<1>5. view'.gen >= view.gen
  BY DEF PeersInv, PeersType
<1> QED BY <1>1, <1>2, <1>3, <1>4, <1>5 DEF PeersStep, PeersInv, P!PeersSound, P!LeaseNamesRoute

\* A record that may replace the one of a slot without touching its lease.
Replaces(rec, s) ==
    /\ rec \in P!PeerRec /\ rec.refs = Cardinality(Users(s))
    /\ rec.seg # None => /\ Leased(s) /\ rec.name = slot[s].name
                         /\ rec.seg.epoch = slot[s].seg.epoch
                         /\ rec.seg.advert = slot[s].seg.advert
                         /\ rec.seg.tel \in {0, slot[s].seg.epoch}

\* A record that keeps its reference count and its lease keeps the slot sound.
LEMMA SameKept ==
    ASSUME PeersInv, NEW s \in Slot, slot'[s] = slot[s]
    PROVE  Kept(s)
  BY DEF PeersInv, P!PeersSound, P!LeaseNamesRoute, P!TelemetryIsOwn, P!Used, Kept, Leased

\* A record written over one slot, adopted by the thread that wrote it or not.
LEMMA WriteStep ==
    ASSUME P!PeersConstants, PeersInv, NEW s \in Slot, NEW rec, Replaces(rec, s),
           slot' = [slot EXCEPT ![s] = rec], bind' = bind,
           conn' \in [Conn -> {"closed", "open", "closing"}],
           reply' \in [Conn -> Slot \cup {None}], told' \in [Conn -> Nat],
           gen' = gen, boot' = boot, view' = view, issued' = issued
    PROVE  PeersStep
<1>1. P!RefsExact'
  BY WriteRefs DEF PeersInv, P!PeersSound, Replaces
<1>2. \A x \in Slot : slot'[x] = IF x = s THEN rec ELSE slot[x]
  BY DEF PeersInv, PeersType
<1>3. PeersType'
  BY DEF PeersInv, PeersType, Replaces
<1>4. Kept(s)
  BY <1>2 DEF Kept, Replaces, Leased
<1>5. \A x \in Slot : Kept(x)
  BY <1>2, <1>4, SameKept
<1> QED BY <1>1, <1>3, <1>5, KeptStep

LEMMA AdoptStep ==
    ASSUME P!PeersConstants, PeersInv, NEW s \in Slot, NEW rec, Replaces(rec, s),
           NEW c \in Conn, P!Adopt(c, s, rec),
           reply' \in [Conn -> Slot \cup {None}], told' \in [Conn -> Nat],
           gen' = gen, boot' = boot, view' = view, issued' = issued
    PROVE  PeersStep
<1>1. /\ P!RefsExact'
      /\ slot' \in [Slot -> P!PeerRec \cup {None}]
      /\ conn' \in [Conn -> {"closed", "open", "closing"}]
      /\ bind' \in [Conn -> Slot \cup {None}]
      /\ \A x \in Slot \ {s} : slot'[x] = slot[x]
      /\ slot'[s] \in P!PeerRec /\ slot'[s].name = rec.name /\ slot'[s].seg = rec.seg
  BY AdoptRefs DEF PeersInv, P!PeersSound, Replaces
<1>2. PeersType'
  BY <1>1 DEF PeersInv, PeersType
<1>3. Kept(s)
  BY <1>1 DEF Kept, Replaces, Leased
<1>4. \A x \in Slot : Kept(x)
  BY <1>1, <1>3, SameKept
<1> QED BY <1>1, <1>2, <1>4, KeptStep

\* The peers are left alone.
LEMMA IdleStep ==
    ASSUME PeersInv, slot' = slot, bind' = bind,
           conn' \in [Conn -> {"closed", "open", "closing"}],
           reply' \in [Conn -> Slot \cup {None}], told' \in [Conn -> Nat],
           gen' = gen, boot' = boot, view' = view, issued' = issued
    PROVE  PeersStep
<1>1. P!RefsExact'
  <2>1. \A x \in Slot : Referenced(x)
    BY RefsForm DEF PeersInv, P!PeersSound
  <2>2. \A x \in Slot : Referenced(x)'
    BY <2>1 DEF Referenced, Users
  <2> QED BY <2>2, RefsFormNext
<1>2. PeersType'
  BY DEF PeersInv, PeersType
<1>3. \A x \in Slot : Kept(x)
  BY SameKept
<1> QED BY <1>1, <1>2, <1>3, KeptStep

\* Each handler of the tracker keeps the invariant and the order of leases.
LEMMA AcceptStep ==
    ASSUME PeersInv, NEW c \in Conn, P!Accept(c) \/ P!Refuse(c) \/ P!SegReplyLost(c)
    PROVE  PeersStep
<1>1. /\ slot' = slot /\ bind' = bind /\ told' = told
      /\ gen' = gen /\ boot' = boot /\ view' = view /\ issued' = issued
      /\ \/ conn' = [conn EXCEPT ![c] = "open"] \/ conn' = [conn EXCEPT ![c] = "closing"]
      /\ \/ reply' = reply \/ reply' = [reply EXCEPT ![c] = None]
  BY DEF P!Accept, P!Refuse, P!SegReplyLost
<1>2. /\ conn' \in [Conn -> {"closed", "open", "closing"}]
      /\ reply' \in [Conn -> Slot \cup {None}] /\ told' \in [Conn -> Nat]
  BY <1>1 DEF PeersInv, PeersType
<1> QED BY <1>1, <1>2, IdleStep

\* What a name is about to write over: its own record or a blank one.
LEMMA RegisterStep ==
    ASSUME P!PeersConstants, PeersInv, NEW c \in Conn, NEW n \in Storage, P!Register(c, n)
    PROVE  PeersStep
<1>1. CASE P!Refuse(c)
  BY <1>1, AcceptStep
<1>2. CASE \E s \in P!Home(n) :
             /\ P!Adopt(c, s, [P!Before(s, n) EXCEPT !.ctrl = c, !.old = @ \ {"peer"}])
             /\ UNCHANGED <<reply, told, gen, boot, view, issued>>
  <2>1. PICK s \in P!Home(n) :
             /\ P!Adopt(c, s, [P!Before(s, n) EXCEPT !.ctrl = c, !.old = @ \ {"peer"}])
             /\ UNCHANGED <<reply, told, gen, boot, view, issued>>
    BY <1>2
  <2> DEFINE rec == [P!Before(s, n) EXCEPT !.ctrl = c, !.old = @ \ {"peer"}]
  <2>2. /\ s \in Slot /\ P!Before(s, n) \in P!PeerRec /\ P!Before(s, n).name = n
        /\ P!Before(s, n).refs = Cardinality(Users(s))
        /\ P!Before(s, n).seg # None => slot[s] # None /\ P!Before(s, n) = slot[s]
    BY HomeFacts DEF P!Name, PeersInv, P!PeersSound
  <2>3. /\ rec \in P!PeerRec /\ rec.refs = P!Before(s, n).refs
        /\ rec.name = P!Before(s, n).name /\ rec.seg = P!Before(s, n).seg
    BY <2>2 DEF P!PeerRec
  <2> HIDE DEF rec
  <2>4. Replaces(rec, s)
    BY <2>2, <2>3 DEF Replaces, Leased, PeersInv, P!PeersSound, P!LeaseNamesRoute,
                      P!TelemetryIsOwn, P!Used
  <2>5. P!Adopt(c, s, rec)
    BY <2>1 DEF rec
  <2>6. reply' \in [Conn -> Slot \cup {None}] /\ told' \in [Conn -> Nat]
    BY <2>1 DEF PeersInv, PeersType
  <2> QED BY <2>1, <2>2, <2>4, <2>5, <2>6, AdoptStep
<1> QED BY <1>1, <1>2 DEF P!Register

\* A generation inside its boot's window is told by its remainder.
LEMMA Product ==
    ASSUME NEW S \in Nat, S > 1, NEW d \in Int, NEW e \in Int, e = S * d, 0 - S < e, e < S
    PROVE  d = 0
<1>1. CASE d >= 1
  <2>1. S * d >= S
    BY <1>1, SMT
  <2> QED BY <2>1
<1>2. CASE d <= 0 - 1
  <2>1. S * d <= 0 - S
    BY <1>2, SMT
  <2> QED BY <2>1
<1> QED BY <1>1, <1>2

\* The place of a generation in the window of its boot.
LEMMA Window ==
    ASSUME NEW S \in Nat, S > 1, NEW b \in Nat, NEW g \in Nat, b * S < g, g < b * S + S
    PROVE  g % S = g - b * S
<1>1. g % S \in Int /\ 0 <= g % S /\ g % S < S /\ g \div S \in Int /\ g = S * (g \div S) + (g % S)
  OBVIOUS
<1> DEFINE q == g \div S
           r == g % S
<1> HIDE DEF q, r
<1>2. q \in Int /\ r \in Int /\ 0 <= r /\ r < S /\ g = S * q + r
  BY <1>1 DEF q, r
<1>3. S * (q - b) = S * q - b * S
  BY <1>2
<1>4. S * (q - b) \in Int /\ 0 - S < S * (q - b) /\ S * (q - b) < S
  BY <1>2, <1>3
<1>5. q - b = 0
  BY <1>2, <1>4, Product
<1>6. S * q = b * S
  BY <1>2, <1>5
<1>7. b * S \in Int
  OBVIOUS
<1>8. r = g - b * S
  BY <1>2, <1>6, <1>7
<1> QED BY <1>8 DEF r

\* A bump stays within the boot that issued the generation.
LEMMA BumpFits ==
    ASSUME P!PeersConstants, PeersInv, NEW k \in Nat, P!MayBump(k)
    PROVE  gen + k < boot * Span + Span
<1>1. gen % Span = gen - boot * Span
  BY Window DEF P!PeersConstants, PeersInv, PeersType, Fenced
<1>2. boot * Span \in Int /\ gen \in Nat /\ Span \in Nat
  BY DEF P!PeersConstants, PeersInv, PeersType
<1> QED BY <1>1, <1>2 DEF P!MayBump

LEMMA EregStep ==
    ASSUME P!PeersConstants, PeersInv, NEW c \in Conn, NEW n \in Compute, NEW m \in Model,
           NEW acked \in BOOLEAN, P!Ereg(c, n, m, acked)
    PROVE  PeersStep
<1>1. CASE P!Refuse(c)
  BY <1>1, AcceptStep
<1>2. CASE ~P!Refuse(c)
  <2>1. PICK s \in P!Home(n) :
          LET rec == [P!Before(s, n) EXCEPT !.ctrl = c, !.model = m, !.expert = TRUE,
                                            !.old = @ \ {"peer"}]
          IN  /\ IF acked THEN P!Adopt(c, s, rec)
                 ELSE /\ slot' = [slot EXCEPT ![s] = [rec EXCEPT !.ctrl = None]]
                      /\ conn' = [conn EXCEPT ![c] = "closing"] /\ bind' = bind
              /\ UNCHANGED <<reply, told, gen, boot, view, issued>>
    BY <1>2 DEF P!Ereg
  <2> DEFINE rec == [P!Before(s, n) EXCEPT !.ctrl = c, !.model = m, !.expert = TRUE,
                                           !.old = @ \ {"peer"}]
             bare == [rec EXCEPT !.ctrl = None]
  <2>2. /\ s \in Slot /\ P!Before(s, n) \in P!PeerRec /\ P!Before(s, n).name = n
        /\ P!Before(s, n).refs = Cardinality(Users(s))
        /\ P!Before(s, n).seg # None => slot[s] # None /\ P!Before(s, n) = slot[s]
    BY HomeFacts DEF P!Name, PeersInv, P!PeersSound
  <2>3. /\ rec \in P!PeerRec /\ rec.refs = P!Before(s, n).refs
        /\ rec.name = P!Before(s, n).name /\ rec.seg = P!Before(s, n).seg
        /\ bare \in P!PeerRec /\ bare.refs = rec.refs /\ bare.name = rec.name
        /\ bare.seg = rec.seg
    BY <2>2 DEF P!PeerRec
  <2>4. /\ acked => P!Adopt(c, s, rec)
        /\ ~acked => /\ slot' = [slot EXCEPT ![s] = bare]
                     /\ conn' = [conn EXCEPT ![c] = "closing"] /\ bind' = bind
        /\ UNCHANGED <<reply, told, gen, boot, view, issued>>
    BY <2>1
  <2> HIDE DEF rec, bare
  <2>5. Replaces(rec, s) /\ Replaces(bare, s)
    BY <2>2, <2>3 DEF Replaces, Leased, PeersInv, P!PeersSound, P!LeaseNamesRoute,
                      P!TelemetryIsOwn, P!Used
  <2>6. reply' \in [Conn -> Slot \cup {None}] /\ told' \in [Conn -> Nat]
    BY <2>4 DEF PeersInv, PeersType
  <2>7. CASE acked
    BY <2>2, <2>4, <2>5, <2>6, <2>7, AdoptStep
  <2>8. CASE ~acked
    <3>1. conn' \in [Conn -> {"closed", "open", "closing"}]
      BY <2>4, <2>8 DEF PeersInv, PeersType
    <3> QED BY <2>2, <2>4, <2>5, <2>6, <2>8, <3>1, WriteStep
  <2> QED BY <2>7, <2>8
<1> QED BY <1>1, <1>2

\* A new lease is fenced by the bumped generation and has no telemetry yet.
LEMMA FreshStep ==
    ASSUME P!PeersConstants, PeersInv, NEW s \in Slot, NEW rec \in P!PeerRec,
           rec.refs = Cardinality(Users(s)), rec.seg # None, rec.seg.epoch = gen + 1,
           rec.seg.tel = 0, slot' = [slot EXCEPT ![s] = rec], P!MayBump(1),
           bind' = bind, conn' = conn, reply' \in [Conn -> Slot \cup {None}], told' = told,
           boot' = boot, view' = view, gen' = gen + 1, issued' = gen + 1
    PROVE  PeersStep
<1>1. P!RefsExact'
  BY WriteRefs DEF PeersInv, P!PeersSound
<1>2. \A x \in Slot : slot'[x] = IF x = s THEN rec ELSE slot[x]
  BY DEF PeersInv, PeersType
<1>3. PeersType'
  BY DEF PeersInv, PeersType
<1>4. gen + 1 < boot * Span + Span
  BY BumpFits
<1>5. gen \in Nat /\ issued \in Nat /\ view.gen \in Nat /\ boot * Span \in Int /\ Span \in Nat
      /\ boot * Span < gen /\ issued <= gen /\ view.gen <= gen
  BY DEF P!PeersConstants, PeersInv, PeersType, Fenced
<1>6. /\ \A x \in Slot : Leased(x) => slot[x].seg.epoch \in Nat /\ slot[x].seg.epoch <= issued
      /\ \A r \in view.routes : r.epoch \in Nat /\ r.epoch <= issued
  <2>1. \A x \in Slot : Leased(x) => slot[x].seg.epoch \in Nat
    BY DEF PeersInv, PeersType, Leased, P!PeerRec, P!Segment
  <2>2. \A r \in view.routes : r.epoch \in Nat
    BY DEF PeersInv, PeersType, Route
  <2> QED BY <2>1, <2>2 DEF PeersInv, Fenced, Leased
<1>7. P!EpochNamesRoute'
  <2>1. \A r \in view'.routes, x \in Slot :
          Leased(x)' /\ slot'[x].seg.epoch = r.epoch
          => slot'[x].name = r.name /\ slot'[x].seg.advert = r.advert
    BY <1>2, <1>5, <1>6 DEF PeersInv, P!PeersSound, P!LeaseNamesRoute, P!EpochNamesRoute,
                            P!Used, Leased
  <2>2. \A x, y \in Slot :
          x # y /\ Leased(x)' /\ Leased(y)' => slot'[x].seg.epoch # slot'[y].seg.epoch
    BY <1>2, <1>5, <1>6 DEF PeersInv, P!PeersSound, P!LeaseNamesRoute, P!EpochNamesRoute,
                            P!Used, Leased
  <2> QED BY <2>1, <2>2 DEF P!EpochNamesRoute, P!Used, Leased
<1>8. P!TelemetryIsOwn'
  BY <1>2 DEF PeersInv, P!PeersSound, P!LeaseNamesRoute, P!TelemetryIsOwn, P!Used
<1>9. Fenced'
  <2>1. \A x \in Slot : Leased(x)' => slot'[x].seg.epoch <= issued'
    BY <1>2, <1>5, <1>6 DEF Leased
  <2>2. \A r \in view'.routes : r.epoch <= issued'
    BY <1>5, <1>6
  <2>3. boot' * Span < gen' /\ gen' < boot' * Span + Span /\ issued' <= gen' /\ view'.gen <= gen'
    BY <1>4, <1>5
  <2> QED BY <2>1, <2>2, <2>3 DEF Fenced, Leased
<1>10. \A x \in Slot : Renewed(x)
  BY <1>2, <1>5 DEF Renewed
<1>11. view'.gen >= view.gen
  BY <1>5
<1> QED BY <1>1, <1>3, <1>7, <1>8, <1>9, <1>10, <1>11
        DEF PeersStep, PeersInv, P!PeersSound, P!LeaseNamesRoute

LEMMA SegRegisterStep ==
    ASSUME P!PeersConstants, PeersInv, NEW c \in Conn, NEW n \in Compute, NEW a \in Advert,
           P!SegRegister(c, n, a)
    PROVE  PeersStep
<1>1. CASE P!Refuse(c)
  BY <1>1, AcceptStep
<1>2. CASE ~P!Refuse(c)
  <2>1. PICK s \in P!Home(n) :
          LET was == P!Before(s, n)
              keeps == P!KeepsLease(was, a)
              g == IF keeps THEN gen ELSE gen + 1
              lease == [advert |-> a, live |-> TRUE,
                      epoch |-> IF keeps THEN was.seg.epoch ELSE g,
                      tel |-> IF keeps /\ was.ctrl = c THEN was.seg.tel ELSE 0]
          IN  /\ ~keeps => P!MayBump(1)
              /\ slot' = [slot EXCEPT ![s] =
                    [was EXCEPT !.seg = lease, !.ctrl = c, !.old = @ \ {"peer", "segment"},
                                !.model = IF was.expert THEN @ ELSE ModelOf[a]]]
              /\ gen' = g
              /\ issued' = IF keeps THEN issued ELSE g
              /\ reply' = [reply EXCEPT ![c] = s]
              /\ UNCHANGED <<conn, bind, told, boot, view>>
    BY <1>2 DEF P!SegRegister
  <2> DEFINE was == P!Before(s, n)
             keeps == P!KeepsLease(was, a)
             g == IF keeps THEN gen ELSE gen + 1
             lease == [advert |-> a, live |-> TRUE,
                     epoch |-> IF keeps THEN was.seg.epoch ELSE g,
                     tel |-> IF keeps /\ was.ctrl = c THEN was.seg.tel ELSE 0]
             rec == [was EXCEPT !.seg = lease, !.ctrl = c, !.old = @ \ {"peer", "segment"},
                                !.model = IF was.expert THEN @ ELSE ModelOf[a]]
  <2>2. /\ s \in Slot /\ was \in P!PeerRec /\ was.name = n
        /\ was.refs = Cardinality(Users(s))
        /\ was.seg # None => slot[s] # None /\ was = slot[s]
    BY HomeFacts DEF P!Name, PeersInv, P!PeersSound
  <2>3. /\ ~keeps => P!MayBump(1)
        /\ slot' = [slot EXCEPT ![s] = rec]
        /\ gen' = g
        /\ issued' = IF keeps THEN issued ELSE g
        /\ reply' = [reply EXCEPT ![c] = s]
        /\ UNCHANGED <<conn, bind, told, boot, view>>
    BY <2>1
  <2>4. keeps => was.seg # None /\ was.seg.advert = a
    BY DEF P!KeepsLease
  <2> HIDE DEF was, keeps
  <2>5. was.seg # None => was.seg \in P!Segment
    BY <2>2 DEF P!PeerRec
  <2>6. gen \in Nat /\ ModelOf[a] \in Model
    BY DEF P!PeersConstants, PeersInv, PeersType
  <2>7. lease \in P!Segment /\ lease # None
    <3>1. lease.epoch \in Nat /\ lease.tel \in Nat
      BY <2>4, <2>5, <2>6 DEF P!Segment
    <3>2. lease \in P!Segment
      BY <3>1 DEF P!Segment
    <3> QED BY <3>2 DEF P!PeersConstants
  <2>8. /\ lease.advert = a
        /\ keeps => lease.epoch = was.seg.epoch /\ lease.tel \in {0, was.seg.tel}
        /\ ~keeps => lease.epoch = gen + 1 /\ lease.tel = 0
    OBVIOUS
  <2> HIDE DEF lease
  <2>9. rec \in P!PeerRec /\ rec.seg = lease /\ rec.name = was.name /\ rec.refs = was.refs
    BY <2>2, <2>6, <2>7 DEF P!PeerRec
  <2> HIDE DEF rec
  <2>10. reply' \in [Conn -> Slot \cup {None}] /\ told' \in [Conn -> Nat]
         /\ conn' \in [Conn -> {"closed", "open", "closing"}]
    BY <2>2, <2>3 DEF PeersInv, PeersType
  <2>11. CASE keeps
    <3>1. Replaces(rec, s)
      BY <2>2, <2>4, <2>8, <2>9, <2>11
         DEF Replaces, Leased, PeersInv, P!PeersSound, P!LeaseNamesRoute, P!TelemetryIsOwn, P!Used
    <3> QED BY <2>2, <2>3, <2>10, <2>11, <3>1, WriteStep
  <2>12. CASE ~keeps
    <3>1. /\ rec \in P!PeerRec /\ rec.refs = Cardinality(Users(s)) /\ rec.seg # None
          /\ rec.seg.epoch = gen + 1 /\ rec.seg.tel = 0
      BY <2>2, <2>7, <2>8, <2>9, <2>12
    <3>2. /\ slot' = [slot EXCEPT ![s] = rec] /\ P!MayBump(1) /\ bind' = bind /\ conn' = conn
          /\ told' = told /\ boot' = boot /\ view' = view
          /\ gen' = gen + 1 /\ issued' = gen + 1
      BY <2>3, <2>12
    <3> QED BY <2>2, <2>10, <3>1, <3>2, FreshStep
  <2> QED BY <2>11, <2>12
<1> QED BY <1>1, <1>2

LEMMA SegReplyStep ==
    ASSUME P!PeersConstants, PeersInv, NEW c \in Conn, P!SegReply(c)
    PROVE  PeersStep
<1> DEFINE s == reply[c]
<1>1. /\ s \in Slot /\ slot[s] # None /\ slot[s].seg # None
      /\ told' = [told EXCEPT ![c] = slot[s].seg.epoch]
      /\ P!Adopt(c, s, slot[s]) /\ reply' = [reply EXCEPT ![c] = None]
      /\ UNCHANGED <<gen, boot, view, issued>>
  BY DEF P!SegReply, P!Used, PeersInv, PeersType
<1> HIDE DEF s
<1>2. slot[s] \in P!PeerRec /\ slot[s].seg \in P!Segment /\ slot[s].seg.epoch \in Nat
  BY <1>1 DEF PeersInv, PeersType, P!PeerRec, P!Segment
<1>3. Referenced(s)
  BY <1>1, RefsForm DEF PeersInv, P!PeersSound
<1>4. Replaces(slot[s], s)
  BY <1>1, <1>2, <1>3 DEF Replaces, Leased, Referenced, PeersInv, P!PeersSound,
                          P!LeaseNamesRoute, P!TelemetryIsOwn, P!Used
<1>5. reply' \in [Conn -> Slot \cup {None}] /\ told' \in [Conn -> Nat]
  BY <1>1, <1>2 DEF PeersInv, PeersType
<1> QED BY <1>1, <1>4, <1>5, AdoptStep

LEMMA ComputePutStep ==
    ASSUME P!PeersConstants, PeersInv, NEW c \in Conn, P!ComputePut(c)
    PROVE  PeersStep
<1>1. CASE P!Refuse(c)
  BY <1>1, AcceptStep
<1>2. CASE ~P!Refuse(c)
  <2> DEFINE s == bind[c]
             rec == [slot[s] EXCEPT !.seg.tel = told[c]]
  <2>1. /\ s # None /\ slot[s].seg # None /\ slot[s].seg.epoch = told[c]
        /\ slot' = [slot EXCEPT ![s].seg.tel = told[c]]
        /\ UNCHANGED <<conn, bind, reply, told, gen, boot, view, issued>>
    BY <1>2 DEF P!ComputePut
  <2>2. s \in Slot
    BY <2>1 DEF PeersInv, PeersType
  <2> HIDE DEF s
  <2>3. Referenced(s) /\ c \in Conn /\ told[c] \in Nat
    BY <2>2, RefsForm DEF PeersInv, P!PeersSound, PeersType
  <2>4. slot[s] # None
    <3>1. c \in Users(s)
      BY DEF Users, s
    <3> QED BY <2>3, <3>1 DEF Referenced
  <2>5. slot[s] \in P!PeerRec /\ slot[s].seg \in P!Segment
    BY <2>1, <2>2, <2>4 DEF PeersInv, PeersType, P!PeerRec
  <2>6. rec = [slot[s] EXCEPT !.seg = [slot[s].seg EXCEPT !.tel = told[c]]]
    OBVIOUS
  <2> DEFINE lease == [slot[s].seg EXCEPT !.tel = told[c]]
  <2>7. /\ lease \in P!Segment /\ lease.epoch = slot[s].seg.epoch
        /\ lease.advert = slot[s].seg.advert /\ lease.tel = told[c]
    BY <2>3, <2>5 DEF P!Segment
  <2> HIDE DEF lease
  <2>8. /\ rec \in P!PeerRec /\ rec.refs = slot[s].refs /\ rec.name = slot[s].name
        /\ rec.seg = lease
    BY <2>5, <2>6, <2>7 DEF P!PeerRec, lease
  <2>9. slot' = [slot EXCEPT ![s] = rec]
    BY <2>1
  <2> HIDE DEF rec
  <2>10. Replaces(rec, s)
    BY <2>1, <2>3, <2>4, <2>7, <2>8 DEF Replaces, Leased, Referenced
  <2>11. /\ reply' \in [Conn -> Slot \cup {None}] /\ told' \in [Conn -> Nat]
         /\ conn' \in [Conn -> {"closed", "open", "closing"}]
    BY <2>1 DEF PeersInv, PeersType
  <2> QED BY <2>1, <2>2, <2>9, <2>10, <2>11, WriteStep
<1> QED BY <1>1, <1>2

\* A timer that runs out changes neither the references nor the lease of a slot.
LEMMA AgeStep ==
    ASSUME P!PeersConstants, PeersInv, NEW s \in Slot, NEW t \in P!Timers, P!Age(s, t)
    PROVE  PeersStep
<1> DEFINE rec == [slot[s] EXCEPT !.old = @ \cup {t}]
<1>1. /\ slot[s] # None /\ slot' = [slot EXCEPT ![s] = rec]
      /\ UNCHANGED <<conn, bind, reply, told, gen, boot, view, issued>>
  BY DEF P!Age, P!Used
<1>2. slot[s] \in P!PeerRec /\ Referenced(s)
  BY <1>1, RefsForm DEF PeersInv, PeersType, P!PeersSound
<1>3. /\ rec \in P!PeerRec /\ rec.refs = slot[s].refs /\ rec.name = slot[s].name
      /\ rec.seg = slot[s].seg
  BY <1>2 DEF P!PeerRec
<1> HIDE DEF rec
<1>4. Replaces(rec, s)
  BY <1>1, <1>2, <1>3 DEF Replaces, Leased, Referenced, PeersInv, P!PeersSound,
                          P!LeaseNamesRoute, P!TelemetryIsOwn, P!Used
<1>5. /\ reply' \in [Conn -> Slot \cup {None}] /\ told' \in [Conn -> Nat]
      /\ conn' \in [Conn -> {"closed", "open", "closing"}]
  BY <1>1 DEF PeersInv, PeersType
<1> QED BY <1>1, <1>4, <1>5, WriteStep

\* The thread of a connection ends: its slot loses one reference.
LEMMA CloseStep ==
    ASSUME P!PeersConstants, PeersInv, NEW c \in Conn, P!Close(c)
    PROVE  PeersStep
<1>1. /\ conn' = [conn EXCEPT ![c] = "closed"] /\ bind' = [bind EXCEPT ![c] = None]
      /\ told' = [told EXCEPT ![c] = 0]
      /\ UNCHANGED <<reply, gen, boot, view, issued>>
  BY DEF P!Close
<1>2. /\ conn' \in [Conn -> {"closed", "open", "closing"}]
      /\ bind' \in [Conn -> Slot \cup {None}] /\ told' \in [Conn -> Nat]
      /\ reply' \in [Conn -> Slot \cup {None}]
  BY <1>1 DEF PeersInv, PeersType
<1>3. \A d \in Conn : bind'[d] = IF d = c THEN None ELSE bind[d]
  BY <1>1 DEF PeersInv, PeersType
<1>4. \A x \in Slot : Referenced(x)
  BY RefsForm DEF PeersInv, P!PeersSound
<1>5. CASE bind[c] = None
  <2>1. slot' = slot
    BY <1>5 DEF P!Close
  <2>2. bind' = bind
    BY <1>3, <1>2, <1>5 DEF PeersInv, PeersType
  <2> QED BY <1>1, <1>2, <2>1, <2>2, IdleStep
<1>6. CASE bind[c] # None
  <2>2. PICK s \in Slot : s = bind[c] /\ s # None
    BY <1>6 DEF PeersInv, PeersType
  <2> DEFINE ctl == IF slot[s].ctrl = c THEN None ELSE slot[s].ctrl
             rec == [slot[s] EXCEPT !.ctrl = ctl, !.refs = @ - 1]
  <2>1. slot' = [slot EXCEPT ![s].ctrl = IF @ = c THEN None ELSE @, ![s].refs = @ - 1]
    BY <1>6, <2>2 DEF P!Close
  <2>3. c \in Users(s) /\ s # None
    BY <2>2 DEF Users
  <2>4. /\ slot[s] \in P!PeerRec /\ slot[s].refs = Cardinality(Users(s))
        /\ slot[s] # None /\ slot[s].refs \in Nat
    BY <1>4, <2>2, <2>3 DEF PeersInv, PeersType, Referenced, P!PeerRec
  <2>5. Users(s)' = Users(s) \ {c}
    BY <1>3, <2>3 DEF Users
  <2>6. Cardinality(Users(s)') = Cardinality(Users(s)) - 1
    BY <2>3, <2>5, UsersFinite, FS_RemoveElement
  <2>7. Cardinality(Users(s)') \in Nat
    BY <2>5, UsersFinite, FS_RemoveElement, FS_CardinalityType
  <2>8. ctl \in Conn \cup {None}
    BY <2>4 DEF P!PeerRec
  <2> HIDE DEF ctl
  <2>9. /\ rec \in P!PeerRec /\ rec.refs = Cardinality(Users(s)') /\ rec.name = slot[s].name
        /\ rec.seg = slot[s].seg
    BY <2>4, <2>6, <2>7, <2>8 DEF P!PeerRec
  <2>10. \A x \in Slot : slot'[x] = IF x = s THEN rec ELSE slot[x]
    BY <2>1, <2>2, <2>4 DEF PeersInv, PeersType, ctl
  <2>11. slot' \in [Slot -> P!PeerRec \cup {None}]
    <3>1. slot' = [x \in Slot |-> slot'[x]]
      BY <2>1 DEF PeersInv, PeersType
    <3>2. \A x \in Slot : slot'[x] \in P!PeerRec \cup {None}
      BY <2>9, <2>10 DEF PeersInv, PeersType
    <3> QED BY <3>1, <3>2
  <2> HIDE DEF rec
  <2>12. \A x \in Slot \ {s} : Users(x)' = Users(x)
    BY <1>3, <2>2, <2>3 DEF Users, P!PeersConstants
  <2>13. \A x \in Slot : Referenced(x)'
    <3>1. rec # None
      BY <2>9 DEF P!PeersConstants
    <3>2. Referenced(s)'
      BY <2>9, <2>10, <3>1 DEF Referenced
    <3>3. \A x \in Slot \ {s} : Referenced(x)'
      BY <1>4, <2>10, <2>12 DEF Referenced
    <3> QED BY <3>2, <3>3
  <2>14. P!RefsExact'
    BY <2>13, RefsFormNext
  <2>15. PeersType'
    BY <1>1, <1>2, <2>11 DEF PeersInv, PeersType
  <2>16. Kept(s)
    BY <2>2, <2>4, <2>9, <2>10 DEF Kept, Leased, PeersInv, P!PeersSound, P!LeaseNamesRoute,
                                   P!TelemetryIsOwn, P!Used
  <2>17. \A x \in Slot : Kept(x)
    BY <2>10, <2>16, SameKept
  <2> QED BY <1>1, <2>14, <2>15, <2>17, KeptStep
<1> QED BY <1>5, <1>6

\* Expired ranges are retired before the snapshot is taken.
LEMMA SegRoutesStep ==
    ASSUME P!PeersConstants, PeersInv, P!SegRoutes
    PROVE  PeersStep
<1> DEFINE k == P!Cardinality(P!Expired)
<1>1. k \in Nat
  <2>1. P!Expired \subseteq Slot /\ IsFiniteSet(Slot)
    BY SameSets DEF P!Expired, P!PeersConstants
  <2>2. Cardinality(P!Expired) \in Nat
    BY <2>1, FS_Subset, FS_CardinalityType
  <2> QED BY <2>2, SameSets
<1>2. /\ P!MayBump(k)
      /\ slot' = [s \in Slot |-> IF s \in P!Expired
                                 THEN [slot[s] EXCEPT !.seg.live = FALSE] ELSE slot[s]]
      /\ gen' = gen + k
      /\ view' = [gen |-> gen + k, routes |-> P!Routes]
      /\ UNCHANGED <<conn, bind, reply, told, boot, issued>>
  BY DEF P!SegRoutes
<1>3. gen + k < boot * Span + Span
  BY <1>1, <1>2, BumpFits
<1> HIDE DEF k
<1>4. \A s \in P!Expired :
        LET rec == [slot[s] EXCEPT !.seg.live = FALSE] IN
        /\ slot[s] # None /\ slot[s].seg # None /\ rec \in P!PeerRec /\ rec.name = slot[s].name
        /\ rec.refs = slot[s].refs /\ rec.seg # None /\ rec.seg.epoch = slot[s].seg.epoch
        /\ rec.seg.advert = slot[s].seg.advert /\ rec.seg.tel = slot[s].seg.tel
  <2> SUFFICES ASSUME NEW s \in P!Expired
               PROVE  LET rec == [slot[s] EXCEPT !.seg.live = FALSE] IN
        /\ slot[s] # None /\ slot[s].seg # None /\ rec \in P!PeerRec /\ rec.name = slot[s].name
        /\ rec.refs = slot[s].refs /\ rec.seg # None /\ rec.seg.epoch = slot[s].seg.epoch
        /\ rec.seg.advert = slot[s].seg.advert /\ rec.seg.tel = slot[s].seg.tel
    OBVIOUS
  <2> DEFINE rec == [slot[s] EXCEPT !.seg.live = FALSE]
             lease == [slot[s].seg EXCEPT !.live = FALSE]
  <2>1. s \in Slot /\ slot[s] # None /\ slot[s].seg # None
    BY DEF P!Expired, P!Used
  <2>2. slot[s] \in P!PeerRec /\ slot[s].seg \in P!Segment
    BY <2>1 DEF PeersInv, PeersType, P!PeerRec
  <2>3. rec = [slot[s] EXCEPT !.seg = lease]
    OBVIOUS
  <2>4. /\ lease \in P!Segment /\ lease.epoch = slot[s].seg.epoch
        /\ lease.advert = slot[s].seg.advert /\ lease.tel = slot[s].seg.tel
    BY <2>2 DEF P!Segment
  <2>5. lease # None
    BY <2>4 DEF P!PeersConstants
  <2> HIDE DEF lease
  <2>6. /\ rec \in P!PeerRec /\ rec.refs = slot[s].refs /\ rec.name = slot[s].name
        /\ rec.seg = lease
    BY <2>2, <2>3, <2>4 DEF P!PeerRec
  <2> QED BY <2>1, <2>4, <2>5, <2>6
<1>5. \A s \in Slot : slot'[s] = IF s \in P!Expired
                                 THEN [slot[s] EXCEPT !.seg.live = FALSE] ELSE slot[s]
  BY <1>2
<1>6. \A s \in Slot : /\ slot'[s] \in P!PeerRec \cup {None} /\ (slot'[s] # None <=> slot[s] # None)
                      /\ slot[s] # None => slot'[s].refs = slot[s].refs
  <2> SUFFICES ASSUME NEW s \in Slot
               PROVE  /\ slot'[s] \in P!PeerRec \cup {None} /\ (slot'[s] # None <=> slot[s] # None)
                      /\ slot[s] # None => slot'[s].refs = slot[s].refs
    OBVIOUS
  <2>1. None \notin P!PeerRec
    BY DEF P!PeersConstants
  <2>2. CASE s \in P!Expired
    <3> DEFINE rec == [slot[s] EXCEPT !.seg.live = FALSE]
    <3>1. slot'[s] = rec
      BY <1>5, <2>2
    <3>2. slot[s] # None /\ rec \in P!PeerRec /\ rec.refs = slot[s].refs
      BY <1>4, <2>2
    <3> QED BY <2>1, <3>1, <3>2
  <2>3. CASE s \notin P!Expired
    <3>1. slot'[s] = slot[s]
      BY <1>5, <2>3
    <3> QED BY <3>1 DEF PeersInv, PeersType
  <2> QED BY <2>2, <2>3
<1>7. \A s \in Slot : Kept(s)
  <2>1. ASSUME NEW s \in Slot, s \in P!Expired PROVE Kept(s)
    BY <2>1, <1>4, <1>5 DEF Kept, Leased, PeersInv, P!PeersSound, P!LeaseNamesRoute,
                            P!TelemetryIsOwn, P!Used
  <2>2. ASSUME NEW s \in Slot, s \notin P!Expired PROVE Kept(s)
    BY <2>2, <1>5, SameKept
  <2> QED BY <2>1, <2>2
<1>8. P!RefsExact'
  <2>1. \A s \in Slot : Referenced(s) /\ Users(s)' = Users(s)
    BY <1>2, RefsForm DEF PeersInv, P!PeersSound, Users
  <2>2. \A s \in Slot : Referenced(s)'
    BY <1>6, <2>1 DEF Referenced
  <2> QED BY <2>2, RefsFormNext
<1>9. \A r \in P!Routes : \E x \in Slot :
        /\ Leased(x) /\ r.name = slot[x].name /\ r.epoch = slot[x].seg.epoch
        /\ r.advert = slot[x].seg.advert /\ r \in Route
  <2> SUFFICES ASSUME NEW x \in Slot, Leased(x)
               PROVE  [name |-> slot[x].name, epoch |-> slot[x].seg.epoch,
                       advert |-> slot[x].seg.advert] \in Route
    BY DEF P!Routes, P!Used, Leased
  <2>1. slot[x] \in P!PeerRec /\ slot[x].seg \in P!Segment
    BY DEF PeersInv, PeersType, P!PeerRec, Leased
  <2> QED BY <2>1 DEF P!PeerRec, P!Segment, Route
<1>10. slot' \in [Slot -> P!PeerRec \cup {None}]
  BY <1>2, <1>6
<1>11. PeersType'
  <2>1. gen + k \in Nat
    BY <1>1 DEF PeersInv, PeersType
  <2>2. P!Routes \subseteq Route
    BY <1>9
  <2>3. view' \in [gen : Nat, routes : SUBSET Route]
    BY <1>2, <2>1, <2>2
  <2> QED BY <1>2, <1>10, <2>1, <2>3 DEF PeersInv, PeersType
<1>12. view'.routes = P!Routes /\ view'.gen = gen + k
  BY <1>2
<1>13. P!EpochNamesRoute'
  <2>1. \A r \in view'.routes, s \in Slot :
          Leased(s)' /\ slot'[s].seg.epoch = r.epoch
          => slot'[s].name = r.name /\ slot'[s].seg.advert = r.advert
    <3> SUFFICES ASSUME NEW r \in P!Routes, NEW s \in Slot, Leased(s)',
                        slot'[s].seg.epoch = r.epoch
                 PROVE  slot'[s].name = r.name /\ slot'[s].seg.advert = r.advert
      BY <1>12
    <3>1. PICK x \in Slot : /\ Leased(x) /\ r.name = slot[x].name /\ r.epoch = slot[x].seg.epoch
                            /\ r.advert = slot[x].seg.advert
      BY <1>9
    <3>2. /\ Leased(s) /\ slot'[s].name = slot[s].name /\ slot'[s].seg.epoch = slot[s].seg.epoch
          /\ slot'[s].seg.advert = slot[s].seg.advert
      BY <1>7 DEF Kept
    <3>3. s = x
      BY <3>1, <3>2 DEF PeersInv, P!PeersSound, P!LeaseNamesRoute, P!EpochNamesRoute, P!Used,
         Leased
    <3> QED BY <3>1, <3>2, <3>3
  <2>2. \A s, t \in Slot :
          s # t /\ Leased(s)' /\ Leased(t)' => slot'[s].seg.epoch # slot'[t].seg.epoch
    BY <1>7 DEF Kept, Leased, PeersInv, P!PeersSound, P!LeaseNamesRoute, P!EpochNamesRoute, P!Used
  <2> QED BY <2>1, <2>2 DEF P!EpochNamesRoute, P!Used, Leased
<1>14. P!TelemetryIsOwn'
  BY <1>7 DEF Kept, Leased, P!TelemetryIsOwn, P!Used
<1>15. Fenced'
  <2>1. /\ gen \in Nat /\ boot * Span \in Int /\ Span \in Nat /\ view.gen \in Nat /\ issued \in Nat
        /\ boot * Span < gen /\ issued <= gen /\ view.gen <= gen
    BY DEF P!PeersConstants, PeersInv, PeersType, Fenced
  <2>2. boot' = boot /\ issued' = issued /\ gen' = gen + k
    BY <1>2
  <2>3. \A s \in Slot : Leased(s)' => slot'[s].seg.epoch <= issued'
    BY <1>7, <2>2 DEF Kept, Leased, PeersInv, Fenced
  <2>4. \A r \in view'.routes : r.epoch <= issued'
    BY <1>9, <1>12, <2>2 DEF Leased, PeersInv, Fenced
  <2>5. boot' * Span < gen' /\ gen' < boot' * Span + Span /\ issued' <= gen' /\ view'.gen <= gen'
    BY <1>1, <1>3, <1>12, <2>1, <2>2
  <2> QED BY <2>3, <2>4, <2>5 DEF Fenced, Leased
<1>16. \A s \in Slot : Renewed(s)
  BY <1>7 DEF Kept, Leased, Renewed
<1>17. view'.gen >= view.gen
  BY <1>1, <1>12 DEF PeersInv, PeersType, Fenced
<1> QED BY <1>8, <1>11, <1>13, <1>14, <1>15, <1>16, <1>17
        DEF PeersStep, PeersInv, P!PeersSound, P!LeaseNamesRoute

\* A restart forgets the table and moves to the next boot's window.
LEMMA RestartStep ==
    ASSUME P!PeersConstants, PeersInv, P!Restart
    PROVE  PeersStep
<1>1. /\ boot' = boot + 1 /\ gen' = boot' * Span + 1
      /\ slot' = [s \in Slot |-> None] /\ conn' = [c \in Conn |-> "closed"]
      /\ bind' = [c \in Conn |-> None] /\ reply' = [c \in Conn |-> None]
      /\ told' = [c \in Conn |-> 0] /\ view' = view /\ issued' = issued
  BY DEF P!Restart
<1>2. /\ gen \in Nat /\ boot \in Nat /\ Span \in Nat /\ Span > 1 /\ boot * Span \in Nat
      /\ (boot + 1) * Span = boot * Span + Span /\ gen < boot * Span + Span
      /\ issued \in Nat /\ view.gen \in Nat /\ issued <= gen /\ view.gen <= gen
  BY DEF P!PeersConstants, PeersInv, PeersType, Fenced
<1>3. gen' \in Nat /\ gen < gen' /\ boot' * Span < gen' /\ gen' < boot' * Span + Span
  BY <1>1, <1>2
<1>4. PeersType'
  BY <1>1, <1>2, <1>3 DEF PeersInv, PeersType
<1>5. \A s \in Slot : slot'[s] = None /\ Users(s)' = {}
  BY <1>1 DEF Users, P!PeersConstants
<1>6. P!RefsExact'
  <2>1. \A s \in Slot : Referenced(s)'
    BY <1>5 DEF Referenced
  <2> QED BY <2>1, RefsFormNext
<1>7. P!LeaseNamesRoute' /\ \A s \in Slot : Renewed(s)
  BY <1>5 DEF P!LeaseNamesRoute, P!EpochNamesRoute, P!TelemetryIsOwn, P!Used, Renewed
<1>8. Fenced'
  <2>1. issued' <= gen' /\ view'.gen <= gen' /\ \A r \in view'.routes : r.epoch <= issued'
    BY <1>1, <1>2, <1>3 DEF PeersInv, Fenced
  <2> QED BY <1>3, <1>5, <2>1 DEF Fenced
<1>9. view'.gen >= view.gen
  BY <1>1, <1>2
<1> QED BY <1>4, <1>6, <1>7, <1>8, <1>9 DEF PeersStep, PeersInv, P!PeersSound

\* The first boot, every step, and every behaviour.
LEMMA PeersInit ==
    ASSUME P!PeersConstants, P!Init
    PROVE  PeersInv
<1>1. PeersType
  BY DEF P!Init, PeersType, P!PeersConstants
<1>2. \A s \in Slot : slot[s] = None /\ Users(s) = {}
  BY DEF P!Init, Users, P!PeersConstants
<1>3. P!RefsExact
  <2>1. \A s \in Slot : Referenced(s)
    BY <1>2 DEF Referenced
  <2> QED BY <2>1, RefsForm
<1>4. P!LeaseNamesRoute
  BY <1>2 DEF P!Init, P!LeaseNamesRoute, P!EpochNamesRoute, P!TelemetryIsOwn, P!Used
<1>5. Fenced
  BY <1>2 DEF P!Init, Fenced, P!PeersConstants
<1> QED BY <1>1, <1>3, <1>4, <1>5 DEF PeersInv, P!PeersSound

LEMMA PeersNext ==
    ASSUME P!PeersConstants, PeersInv, P!Next
    PROVE  PeersStep
<1>1. ASSUME NEW c \in Conn, P!Accept(c) \/ P!SegReplyLost(c) PROVE PeersStep
  BY <1>1, AcceptStep
<1>2. ASSUME NEW c \in Conn, NEW n \in Storage, P!Register(c, n) PROVE PeersStep
  BY <1>2, RegisterStep
<1>3. ASSUME NEW c \in Conn, NEW n \in Compute, NEW m \in Model, NEW ok \in BOOLEAN,
             P!Ereg(c, n, m, ok)
      PROVE  PeersStep
  BY <1>3, EregStep
<1>4. ASSUME NEW c \in Conn, NEW n \in Compute, NEW a \in Advert, P!SegRegister(c, n, a)
      PROVE  PeersStep
  BY <1>4, SegRegisterStep
<1>5. ASSUME NEW c \in Conn, P!SegReply(c) \/ P!ComputePut(c) \/ P!Close(c) PROVE PeersStep
  BY <1>5, SegReplyStep, ComputePutStep, CloseStep
<1>6. ASSUME NEW s \in Slot, NEW t \in P!Timers, P!Age(s, t) PROVE PeersStep
  BY <1>6, AgeStep
<1>7. CASE P!SegRoutes \/ P!Restart
  BY <1>7, SegRoutesStep, RestartStep
<1> QED BY <1>1, <1>2, <1>3, <1>4, <1>5, <1>6, <1>7 DEF P!Next

LEMMA PeersIdle ==
    ASSUME PeersInv, UNCHANGED P!vars
    PROVE  PeersInv'
<1>1. PeersStep
  BY IdleStep DEF P!vars, PeersInv, PeersType
<1> QED BY <1>1 DEF PeersStep

LEMMA PeersAlways == P!PeersConstants => (P!Spec => []PeersInv)
<1> SUFFICES ASSUME P!PeersConstants PROVE P!Spec => []PeersInv
  OBVIOUS
<1>1. P!Init => PeersInv
  BY PeersInit
<1>2. PeersInv /\ [P!Next]_(P!vars) => PeersInv'
  BY PeersNext, PeersIdle DEF PeersStep
<1> QED BY <1>1, <1>2, PTL DEF P!Spec

\* conn_thread and the handlers: a slot is kept as long as a thread points at it,
\* for any connections and slots, and the epoch of a live lease names one route.
THEOREM PeersCorrect ==
    ASSUME P!PeersConstants
    PROVE  P!Spec => []PeersSound
<1>1. PeersInv => PeersSound
  BY DEF PeersInv, PeersSound
<1> QED BY <1>1, PeersAlways, PTL

\* segment_generation_bump and segment_generation_init: views, generations and the
\* leases of a name never go back, also across restarts.
THEOREM GenerationCorrect ==
    ASSUME P!PeersConstants
    PROVE  P!Spec => P!GenerationGrows
<1>1. PeersInv /\ P!Next => PeersStep
  BY PeersNext
<1>2. PeersStep =>
        /\ view'.gen >= view.gen
        /\ \A s \in Slot : (slot'[s] # None /\ slot'[s].seg # None) =>
              \/ slot'[s].seg.epoch > issued
              \/ slot[s] # None /\ slot[s].seg # None
                 /\ slot'[s].seg.epoch = slot[s].seg.epoch
  BY DEF PeersStep, Renewed
<1> QED BY <1>1, <1>2, PeersAlways, PTL DEF P!Spec, P!GenerationGrows
------------------------------------------------------------------------------
(* Assignments: experts, slices and computers.                              *)

\* The library's sets are those of TrackerAssign.
LEMMA AssignSets ==
    \A S : A!Cardinality(S) = Cardinality(S) /\ (A!IsFiniteSet(S) <=> IsFiniteSet(S))
  BY DEF A!Cardinality, Cardinality, A!IsFiniteSet, IsFiniteSet

(* Experts.                                                                   *)
\* What a node has decided to let go of and still counts for.
Releases(n, k) == \/ asked[n] # None /\ k \notin asked[n]
                  \/ plan[n] # None /\ k \notin plan[n]
AssignType ==
    /\ DOMAIN held = Executor /\ DOMAIN promise = Executor
    /\ DOMAIN asked = Executor /\ DOMAIN plan = Executor
    /\ \A n \in Executor : plan[n] # None => asked[n] = None /\ promise[n] = plan[n]
\* A copy that is being released has a holder that ranks before it.
Relieved(k, n) == \E m \in Executor : Order[k][m] < Order[k][n] /\ k \in A!Counted(m)
ReleasesBacked ==
    ~lapsed => \A k \in Cell, n \in Executor :
                   k \in A!Counted(n) /\ Releases(n, k) => Relieved(k, n)
AssignInv == AssignType /\ ReleasesBacked

\* At the start no node lets go of anything.
LEMMA AssignInit == A!Init => AssignInv
  BY DEF A!Init, AssignInv, AssignType, ReleasesBacked, Releases

\* A surplus copy has a holder that ranks before it.
LEMMA SurplusBacked ==
    ASSUME A!AssignConstants, NEW n \in Executor, NEW k \in A!Surplus(n)
    PROVE  Relieved(k, n)
<1> DEFINE Before == {m \in A!Holders(k, n) : Order[k][m] < Order[k][n]}
<1>1. Cardinality(Before) >= Keep
  BY AssignSets DEF A!Surplus
<1>2. Before # {}
  <2>1. Keep \in Nat /\ Keep > 0 /\ Cardinality({}) = 0
    BY FS_EmptySet DEF A!AssignConstants
  <2> HIDE DEF Before
  <2> QED BY <1>1, <2>1
<1> QED BY <1>2 DEF A!Holders, Relieved

\* A node that asks lets go only of surplus copies.
LEMMA AskStep ==
    ASSUME A!AssignConstants, AssignInv, NEW n \in Executor, A!Ask(n)
    PROVE  AssignInv' /\ A!Keeps
<1> DEFINE mine == A!Mine(n) \ A!Surplus(n)
<1>1. PICK fill : asked' = [asked EXCEPT ![n] = mine \cup fill]
  BY DEF A!Ask
<1>2. /\ plan' = [plan EXCEPT ![n] = None] /\ asked[n] = None
      /\ UNCHANGED <<held, promise, lapsed>>
  BY DEF A!Ask
<1>3. \A m : A!Counted(m)' = A!Counted(m)
  BY <1>2 DEF A!Counted
<1>4. AssignType'
  BY <1>1, <1>2 DEF AssignInv, AssignType
<1>5. ASSUME ~lapsed', NEW k \in Cell, NEW m \in Executor, k \in A!Counted(m)', Releases(m, k)'
      PROVE  Relieved(k, m)'
  <2>1. k \in A!Counted(m) /\ ~lapsed
    BY <1>2, <1>3, <1>5
  <2>2. CASE m = n
    <3>1. k \notin mine
      BY <1>1, <1>2, <1>5, <2>2 DEF Releases, AssignInv, AssignType
    <3>2. k \in A!Surplus(n)
      BY <3>1, <2>1, <2>2 DEF A!Mine
    <3> QED BY <3>2, <2>2, <1>3, SurplusBacked DEF Relieved
  <2>3. CASE m # n
    <3>1. Releases(m, k)
      BY <1>1, <1>2, <1>5, <2>3 DEF Releases, AssignInv, AssignType
    <3>2. Relieved(k, m)
      BY <3>1, <2>1 DEF AssignInv, ReleasesBacked
    <3> QED BY <3>2, <1>3 DEF Relieved
  <2> QED BY <2>2, <2>3
<1>6. ReleasesBacked'
  BY <1>5 DEF ReleasesBacked
<1>7. A!Keeps
  BY <1>3 DEF A!Keeps, A!Covers
<1> QED BY <1>4, <1>6, <1>7 DEF AssignInv

\* A node that promises or registers its new assignment lets go of nothing any
\* more, and what it loses has an earlier holder.
LEMMA SettleStep ==
    ASSUME A!AssignConstants, AssignInv, NEW n \in Executor, UNCHANGED lapsed, AssignType',
           \A m \in Executor \ {n} : /\ A!Counted(m)' = A!Counted(m)
                                     /\ asked'[m] = asked[m] /\ plan'[m] = plan[m],
           \A k \in Cell : k \in A!Counted(n)' => ~Releases(n, k)',
           \A k \in Cell : k \in A!Counted(n) /\ k \notin A!Counted(n)' => Releases(n, k)
    PROVE  AssignInv' /\ A!Keeps
<1>1. ASSUME ~lapsed, NEW k \in Cell, k \in A!Counted(n), k \notin A!Counted(n)'
      PROVE  \E m \in Executor \ {n} : Order[k][m] < Order[k][n] /\ k \in A!Counted(m)'
  <2>1. PICK m \in Executor : Order[k][m] < Order[k][n] /\ k \in A!Counted(m)
    BY <1>1 DEF AssignInv, ReleasesBacked, Relieved
  <2>2. Order[k][n] \in Int
    BY DEF A!AssignConstants
  <2>3. m # n
    BY <2>1, <2>2
  <2> QED BY <2>1, <2>3
<1>2. ASSUME ~lapsed', NEW k \in Cell, NEW m \in Executor, k \in A!Counted(m)', Releases(m, k)'
      PROVE  Relieved(k, m)'
  <2>1. m # n
    BY <1>2
  <2>2. k \in A!Counted(m) /\ Releases(m, k) /\ ~lapsed
    BY <1>2, <2>1 DEF Releases
  <2>3. PICK q \in Executor : Order[k][q] < Order[k][m] /\ k \in A!Counted(q)
    BY <2>2 DEF AssignInv, ReleasesBacked, Relieved
  <2>4. CASE q # n \/ k \in A!Counted(n)'
    <3>1. k \in A!Counted(q)'
      BY <2>3, <2>4
    <3> QED BY <3>1, <2>3 DEF Relieved
  <2>5. CASE q = n /\ k \notin A!Counted(n)'
    <3>1. PICK r \in Executor \ {n} : Order[k][r] < Order[k][n] /\ k \in A!Counted(r)'
      BY <1>1, <2>2, <2>3, <2>5
    <3>2. Order[k][r] \in Int /\ Order[k][n] \in Int /\ Order[k][m] \in Int
      BY DEF A!AssignConstants
    <3>3. Order[k][r] < Order[k][m]
      BY <3>1, <3>2, <2>3, <2>5
    <3> QED BY <3>1, <3>3 DEF Relieved
  <2> QED BY <2>4, <2>5
<1>3. ASSUME ~lapsed', NEW k \in Cell, A!Covers(k)
      PROVE  A!Covers(k)'
  <2>1. PICK m \in Executor : k \in A!Counted(m)
    BY <1>3 DEF A!Covers
  <2>2. CASE m = n /\ k \notin A!Counted(n)'
    BY <1>1, <1>3, <2>1, <2>2 DEF A!Covers
  <2>3. CASE m # n \/ k \in A!Counted(n)'
    BY <2>1, <2>3 DEF A!Covers
  <2> QED BY <2>2, <2>3
<1>4. ReleasesBacked'
  BY <1>2 DEF ReleasesBacked
<1>5. A!Keeps
  BY <1>3 DEF A!Keeps
<1> QED BY <1>4, <1>5 DEF AssignInv

\* The promise replaces what counted, unless the node is registered already.
LEMMA PromiseStep ==
    ASSUME A!AssignConstants, AssignInv, NEW n \in Executor, A!Promise(n)
    PROVE  AssignInv' /\ A!Keeps
<1>1. /\ asked[n] # None /\ promise' = [promise EXCEPT ![n] = asked[n]]
      /\ plan' = [plan EXCEPT ![n] = asked[n]] /\ asked' = [asked EXCEPT ![n] = None]
      /\ UNCHANGED <<held, lapsed>>
  BY DEF A!Promise
<1>2. AssignType'
  BY <1>1 DEF AssignInv, AssignType
<1>3. \A m \in Executor \ {n} : /\ A!Counted(m)' = A!Counted(m)
                                /\ asked'[m] = asked[m] /\ plan'[m] = plan[m]
  BY <1>1 DEF A!Counted, AssignInv, AssignType
<1>4. promise'[n] = asked[n] /\ plan'[n] = asked[n] /\ asked'[n] = None
  BY <1>1 DEF AssignInv, AssignType
<1>5. CASE held[n] = None
  <2>1. A!Counted(n)' = asked[n]
    BY <1>1, <1>4, <1>5 DEF A!Counted
  <2>2. \A k \in Cell : k \in A!Counted(n)' => ~Releases(n, k)'
    BY <1>4, <2>1 DEF Releases
  <2>3. \A k \in Cell : k \notin A!Counted(n)' => Releases(n, k)
    BY <1>1, <2>1 DEF Releases
  <2> QED BY <1>1, <1>2, <1>3, <2>2, <2>3, SettleStep
<1>6. CASE held[n] # None
  <2>1. A!Counted(n)' = A!Counted(n)
    BY <1>1, <1>6 DEF A!Counted
  <2>2. \A m \in Executor : A!Counted(m)' = A!Counted(m)
    BY <1>3, <2>1
  <2>3. \A m \in Executor, k \in Cell : Releases(m, k)' => Releases(m, k)
    BY <1>1, <1>3, <1>4 DEF Releases
  <2>4. ReleasesBacked'
    BY <1>1, <2>2, <2>3 DEF AssignInv, ReleasesBacked, Relieved
  <2>5. A!Keeps
    BY <2>2 DEF A!Keeps, A!Covers
  <2> QED BY <1>2, <2>4, <2>5 DEF AssignInv
<1> QED BY <1>5, <1>6

\* The registration counts what the node loaded.
LEMMA HoldingStep ==
    ASSUME A!AssignConstants, AssignInv, NEW n \in Executor, A!Ereg(n)
    PROVE  AssignInv' /\ A!Keeps
<1>1. /\ plan[n] # None /\ held' = [held EXCEPT ![n] = plan[n]]
      /\ promise' = [promise EXCEPT ![n] = None] /\ plan' = [plan EXCEPT ![n] = None]
      /\ UNCHANGED <<asked, lapsed>>
  BY DEF A!Ereg
<1>2. AssignType'
  BY <1>1 DEF AssignInv, AssignType
<1>3. \A m \in Executor \ {n} : /\ A!Counted(m)' = A!Counted(m)
                                /\ asked'[m] = asked[m] /\ plan'[m] = plan[m]
  BY <1>1 DEF A!Counted, AssignInv, AssignType
<1>4. held'[n] = plan[n] /\ plan'[n] = None /\ asked'[n] = None
  BY <1>1 DEF AssignInv, AssignType
<1>5. A!Counted(n)' = plan[n]
  BY <1>1, <1>4 DEF A!Counted
<1>6. \A k \in Cell : ~Releases(n, k)'
  BY <1>4 DEF Releases
<1>7. \A k \in Cell : k \notin A!Counted(n)' => Releases(n, k)
  BY <1>1, <1>5 DEF Releases
<1> QED BY <1>1, <1>2, <1>3, <1>6, <1>7, SettleStep

\* After a failure nothing is claimed any more.
LEMMA LapseStep ==
    ASSUME AssignInv, NEW n \in Executor, A!ExecutorLapses(n)
    PROVE  AssignInv' /\ A!Keeps
  BY DEF A!ExecutorLapses, AssignInv, AssignType, ReleasesBacked, A!Keeps

LEMMA AssignNext ==
    ASSUME A!AssignConstants, AssignInv, [A!Next]_A!vars
    PROVE  AssignInv' /\ A!Keeps
<1>1. CASE \E n \in Executor : A!Ask(n) \/ A!Promise(n) \/ A!Ereg(n) \/ A!ExecutorLapses(n)
  BY <1>1, AskStep, PromiseStep, HoldingStep, LapseStep
<1>2. CASE UNCHANGED A!experts
  BY <1>2 DEF A!experts, AssignInv, AssignType, ReleasesBacked, Releases, Relieved, A!Counted,
     A!Keeps, A!Covers
<1> QED BY <1>1, <1>2 DEF A!Next, A!ExpertsNext, A!DonorsNext, A!InventoryNext, A!vars

\* handle_eassign and promise_store: however the requests of any nodes overlap, an
\* expert that is held or promised somewhere stays so while no node fails.
THEOREM CoverageCorrect ==
    ASSUME A!AssignConstants
    PROVE  A!Spec => ReleaseKeepsCoverage
<1>1. A!Init => AssignInv
  BY AssignInit
<1>2. AssignInv /\ [A!Next]_A!vars => AssignInv' /\ [A!Keeps]_A!vars
  BY AssignNext
<1> QED BY <1>1, <1>2, PTL DEF A!Spec, ReleaseKeepsCoverage, A!ReleaseKeepsCoverage

(* Donors.                                                                    *)
On(s) == {n \in Donor : s \in {seg[n], offer[n]}}
DonorsInv ==
    /\ DOMAIN seg = Donor /\ DOMAIN offer = Donor
    /\ ~back => /\ \A n \in Donor : seg[n] = None \/ offer[n] = None
                /\ \A s, t \in Slice : Cardinality(On(s)) <= Cardinality(On(t)) + 1

\* The donors of a slice are finitely many.
LEMMA OnFinite ==
    ASSUME A!AssignConstants, NEW s
    PROVE  IsFiniteSet(On(s)) /\ Cardinality(On(s)) \in Nat
  BY AssignSets, FS_Subset, FS_CardinalityType DEF A!AssignConstants, On

LEMMA DonorsInit == ASSUME A!AssignConstants, A!Init PROVE DonorsInv
<1>1. \A s \in Slice : On(s) = {}
  BY DEF A!Init, On, A!AssignConstants
<1>2. \A s, t \in Slice : Cardinality(On(s)) <= Cardinality(On(t)) + 1
  BY <1>1, FS_EmptySet
<1> QED BY <1>2 DEF A!Init, DonorsInv

\* The replicas that others count are the donors on the slice.
LEMMA ReplicasAreDonors ==
    ASSUME A!AssignConstants, DonorsInv, ~back, NEW s \in Slice, NEW n \in Donor,
           seg[n] = None, offer[n] = None
    PROVE  A!Replicas(s, n) = Cardinality(On(s))
<1> DEFINE live == {m \in Donor \ {n} : seg[m] = s}
           due == {m \in Donor \ {n} : offer[m] = s}
<1>1. s # None
  BY DEF A!AssignConstants
<1>2. live \cap due = {} /\ live \cup due = On(s)
  BY <1>1 DEF On, DonorsInv
<1>3. IsFiniteSet(live) /\ IsFiniteSet(due)
  BY AssignSets, FS_Subset DEF A!AssignConstants
<1>4. Cardinality(live \cup due) = Cardinality(live) + Cardinality(due)
  <2> HIDE DEF live, due
  <2>1. Cardinality(live) \in Nat /\ Cardinality(due) \in Nat /\ Cardinality(live \cap due) = 0
    BY <1>2, <1>3, FS_CardinalityType, FS_EmptySet
  <2>2. Cardinality(live \cup due)
          = Cardinality(live) + Cardinality(due) - Cardinality(live \cap due)
    BY <1>3, FS_Union
  <2> QED BY <2>1, <2>2
<1> QED BY <1>2, <1>4, AssignSets DEF A!Replicas

\* A new donor goes to a slice with the fewest donors.
LEMMA SegAssignStep ==
    ASSUME A!AssignConstants, DonorsInv, NEW n \in Donor, A!SegAssign(n)
    PROVE  DonorsInv'
<1>1. PICK s \in IF seg[n] # None THEN {seg[n]} ELSE IF offer[n] # None THEN {offer[n]}
                 ELSE {x \in Slice : \A y \in Slice : A!Replicas(x, n) <= A!Replicas(y, n)} :
          offer' = [offer EXCEPT ![n] = s]
  BY DEF A!SegAssign
<1>2. back' = (back \/ seg[n] # None) /\ UNCHANGED seg
  BY DEF A!SegAssign
<1>3. DOMAIN seg' = Donor /\ DOMAIN offer' = Donor
  BY <1>1, <1>2 DEF DonorsInv
<1> SUFFICES ASSUME ~back' PROVE DonorsInv'
  BY <1>3 DEF DonorsInv
<1>4. ~back /\ seg[n] = None
  BY <1>2
<1>5. CASE offer[n] # None
  <2>1. offer' = [offer EXCEPT ![n] = offer[n]]
    BY <1>1, <1>4, <1>5
  <2>2. ASSUME NEW x \in Slice PROVE On(x)' = On(x)
    BY <2>1, <1>2 DEF DonorsInv, On
  <2>3. \A x, y \in Slice : Cardinality(On(x)') <= Cardinality(On(y)') + 1
    BY <2>2, <1>4 DEF DonorsInv
  <2>4. \A m \in Donor : seg'[m] = None \/ offer'[m] = None
    BY <2>1, <1>2, <1>4 DEF DonorsInv
  <2> QED BY <1>3, <2>3, <2>4 DEF DonorsInv, On
<1>6. CASE offer[n] = None
  <2>1. s \in Slice /\ \A y \in Slice : A!Replicas(s, n) <= A!Replicas(y, n)
    BY <1>1, <1>4, <1>6
  <2>2. \A y \in Slice : Cardinality(On(s)) <= Cardinality(On(y))
    BY <2>1, <1>4, <1>6, ReplicasAreDonors
  <2>3. s # None
    BY <2>1 DEF A!AssignConstants
  <2>4. On(s)' = On(s) \cup {n} /\ n \notin On(s)
    BY <1>1, <1>2, <1>4, <1>6, <2>3 DEF On, DonorsInv
  <2>5. Cardinality(On(s)') = Cardinality(On(s)) + 1
    BY <2>4, OnFinite, FS_AddElement
  <2>6. ASSUME NEW t \in Slice, t # s PROVE On(t)' = On(t)
    <3>1. t # None
      BY DEF A!AssignConstants
    <3> QED BY <3>1, <2>6, <1>1, <1>2, <1>4, <1>6 DEF On, DonorsInv
  <2>7. ASSUME NEW x \in Slice, NEW y \in Slice
        PROVE  Cardinality(On(x)') <= Cardinality(On(y)') + 1
    <3>1. Cardinality(On(s)) \in Nat /\ Cardinality(On(x)) \in Nat /\ Cardinality(On(y)) \in Nat
      BY OnFinite
    <3>2. Cardinality(On(x)) <= Cardinality(On(y)) + 1
      BY <1>4 DEF DonorsInv
    <3> QED BY <2>2, <2>5, <2>6, <3>1, <3>2
  <2>8. \A m \in Donor : seg'[m] = None \/ offer'[m] = None
    BY <1>1, <1>2, <1>4 DEF DonorsInv
  <2> QED BY <1>3, <2>7, <2>8 DEF DonorsInv, On
<1> QED BY <1>5, <1>6

\* A registration moves a donor from promised to live on the same slice.
LEMMA SliceStep ==
    ASSUME A!AssignConstants, DonorsInv, NEW n \in Donor, A!SegRegister(n)
    PROVE  DonorsInv'
<1>1. /\ offer[n] # None /\ seg' = [seg EXCEPT ![n] = offer[n]]
      /\ offer' = [offer EXCEPT ![n] = None] /\ UNCHANGED back
  BY DEF A!SegRegister
<1>2. ASSUME ~back, NEW t \in Slice PROVE On(t)' = On(t)
  <2>1. t # None /\ seg[n] = None
    BY <1>1, <1>2 DEF A!AssignConstants, DonorsInv
  <2> QED BY <2>1, <1>1 DEF On, DonorsInv
<1>3. \A s, t \in Slice : ~back => Cardinality(On(s)') <= Cardinality(On(t)') + 1
  BY <1>2 DEF DonorsInv
<1>4. ~back => \A m \in Donor : seg'[m] = None \/ offer'[m] = None
  BY <1>1 DEF DonorsInv
<1> QED BY <1>1, <1>3, <1>4 DEF DonorsInv, On

LEMMA DonorsNext == ASSUME A!AssignConstants, DonorsInv, [A!Next]_A!vars PROVE DonorsInv'
<1>1. CASE \E n \in Donor : A!SegAssign(n) \/ A!SegRegister(n)
  BY <1>1, SegAssignStep, SliceStep
<1>2. CASE \E n \in Donor : A!SegRelease(n) \/ A!Lapse(n)
  BY <1>2 DEF A!SegRelease, A!Lapse, DonorsInv
<1>3. CASE UNCHANGED A!donors
  BY <1>3 DEF A!donors, DonorsInv, On
<1> QED BY <1>1, <1>2, <1>3 DEF A!Next, A!ExpertsNext, A!DonorsNext, A!InventoryNext, A!vars

(* Machines.                                                                  *)
RowsInv ==
    /\ rows \subseteq [id : Machine, conn : Client] /\ quiet \subseteq rows
    /\ IsFiniteSet(rows) /\ Cardinality(rows) <= MaxRows
    /\ \A r, q \in rows : r.id = q.id <=> r.conn = q.conn
    /\ \A r \in rows : r.conn \in open

LEMMA RowsInit == ASSUME A!AssignConstants, A!Init PROVE RowsInv
  BY FS_EmptySet DEF A!Init, RowsInv, A!AssignConstants

\* Rows that go away leave the others as they are.
LEMMA FewerRows ==
    ASSUME A!AssignConstants, RowsInv, NEW less \in SUBSET rows
    PROVE  IsFiniteSet(less) /\ Cardinality(less) <= MaxRows
<1>1. IsFiniteSet(less) /\ Cardinality(less) <= Cardinality(rows)
  BY FS_Subset DEF RowsInv
<1>2. Cardinality(less) \in Nat /\ Cardinality(rows) \in Nat
  BY <1>1, FS_CardinalityType DEF RowsInv
<1> QED BY <1>1, <1>2 DEF RowsInv, A!AssignConstants

\* A report adds a machine that is on no other connection, while there is room.
LEMMA ReportStep ==
    ASSUME A!AssignConstants, RowsInv, NEW c \in Client, NEW m \in Machine,
           A!handle_machine_report(c, m)
    PROVE  RowsInv'
<1> DEFINE live == rows \ quiet
           new == [id |-> m, conn |-> c]
<1>1. c \in open /\ quiet' = {}
  BY DEF A!handle_machine_report
<1>2. CASE A!ReportBad(live, c, m)
  <2>1. rows' = {r \in live : r.conn # c} /\ open' = open \ {c}
    BY <1>2 DEF A!handle_machine_report
  <2> QED BY <1>1, <2>1, FewerRows DEF RowsInv
<1>3. CASE ~A!ReportBad(live, c, m)
  <2>1. rows' = live \cup {new} /\ open' = open
    BY <1>3 DEF A!handle_machine_report
  <2>2. \A r \in live : r.conn = c <=> r.id = m
    BY <1>3 DEF A!ReportBad
  <2>3. new \in live \/ Cardinality(live) # MaxRows
    BY <1>3, AssignSets DEF A!ReportBad
  <2>4. IsFiniteSet(live) /\ Cardinality(live) <= MaxRows /\ Cardinality(live) \in Nat
    BY FewerRows, FS_CardinalityType
  <2>5. IsFiniteSet(rows') /\ Cardinality(rows') <= MaxRows
    <3> HIDE DEF live, new
    <3>1. MaxRows \in Nat
      BY DEF A!AssignConstants
    <3>2. CASE new \in live
      <4>1. live \cup {new} = live
        BY <3>2
      <4> QED BY <4>1, <2>1, <2>4
    <3>3. CASE new \notin live
      <4>1. /\ IsFiniteSet(live \cup {new})
            /\ Cardinality(live \cup {new}) = Cardinality(live) + 1
        BY <3>3, <2>4, FS_AddElement
      <4> QED BY <4>1, <3>1, <3>3, <2>1, <2>3, <2>4
    <3> QED BY <3>2, <3>3
  <2>6. new.id = m /\ new.conn = c /\ new \in [id : Machine, conn : Client]
    OBVIOUS
  <2>7. \A r, q \in rows' : r.id = q.id <=> r.conn = q.conn
    BY <2>1, <2>2, <2>6 DEF RowsInv
  <2> QED BY <1>1, <2>1, <2>5, <2>6, <2>7 DEF RowsInv
<1> QED BY <1>2, <1>3

LEMMA RowsNext == ASSUME A!AssignConstants, RowsInv, [A!Next]_A!vars PROVE RowsInv'
<1>1. CASE \E c \in Client : A!Accept(c)
  BY <1>1 DEF A!Accept, RowsInv
<1>2. CASE \E c \in Client : A!inventory_disconnect(c)
  BY <1>2, FewerRows DEF A!inventory_disconnect, RowsInv
<1>3. CASE \E c \in Client, m \in Machine : A!handle_machine_report(c, m)
  BY <1>3, ReportStep
<1>4. CASE A!handle_machine_list
  BY <1>4, FewerRows DEF A!handle_machine_list, RowsInv
<1>5. CASE \E r \in rows : A!Silence(r)
  BY <1>5 DEF A!Silence, RowsInv
<1>6. CASE UNCHANGED A!inventory
  BY <1>6 DEF A!inventory, RowsInv
<1> QED BY <1>1, <1>2, <1>3, <1>4, <1>5, <1>6 DEF A!Next, A!ExpertsNext, A!DonorsNext,
   A!InventoryNext, A!vars

LEMMA AssignSound == ASSUME DonorsInv, RowsInv PROVE DonorsSound
<1>1. A!DonorsBalanced
  BY AssignSets DEF DonorsInv, On, A!DonorsBalanced
<1>2. A!CountedOnce
  BY AssignSets DEF RowsInv, A!CountedOnce
<1> QED BY <1>1, <1>2 DEF DonorsSound

\* handle_segment_assign spreads any donors evenly over the slices, and
\* handle_machine_report counts no computer twice.
THEOREM DonorsCorrect ==
    ASSUME A!AssignConstants
    PROVE  A!Spec => []DonorsSound
<1>1. A!Init => DonorsInv /\ RowsInv
  BY DonorsInit, RowsInit
<1>2. DonorsInv /\ RowsInv /\ [A!Next]_A!vars => DonorsInv' /\ RowsInv'
  BY DonorsNext, RowsNext
<1>3. DonorsInv /\ RowsInv => DonorsSound
  BY AssignSound
<1> QED BY <1>1, <1>2, <1>3, PTL DEF A!Spec
------------------------------------------------------------------------------
(* Mirrors: the bytes on a disk and the hashes they were checked against.   *)

Working == {"truth", "local", "fetch", "write", "written", "finish"}
MirrorType ==
    /\ require \in BOOLEAN
    /\ disk \in [Block -> Root \cup {"zero", "torn", "bad"}]
    /\ durable \in [Block -> Root \cup {"zero", "torn", "bad"}]
    /\ bits \subseteq Block /\ stable \subseteq Block
    /\ {ident, side, truth} \subseteq Root \cup {None} /\ adopted \subseteq Root
    /\ want \in [Proc -> Root \cup {None}]
    /\ shared \subseteq Proc
    /\ stage \in [Proc -> {"off", "differs", "same", "refused", "upgrade", "clearing", "cleared", "up"}]
    /\ map \in [Proc -> SUBSET Block] /\ verified \in [Proc -> SUBSET Block]
    /\ inflight \in [Proc -> SUBSET Block] /\ snap \in [Proc -> SUBSET Block]
    /\ hash \in [Proc -> Root \cup {None, "?"}]
    /\ commit \in [Proc -> {"idle", "sync", "merge", "flush"}]
    /\ at \in [Thread -> Working \cup {"idle"}]
    /\ block \in [Thread -> Block \cup {None}] /\ data \in [Thread -> Root \cup {None}]

\* Only a process that is up holds the lock for good and remembers anything.
ProcSound ==
    \A p \in Proc :
        /\ stage[p] = "up" => p \in shared
        /\ stage[p] # "up" => /\ map[p] = {} /\ verified[p] = {} /\ inflight[p] = {}
                              /\ snap[p] = {} /\ hash[p] = "?" /\ commit[p] = "idle"
        /\ verified[p] \subseteq map[p]
        /\ hash[p] = "?" => verified[p] = {}

\* Whoever runs holds the shared lock, under the saved identity; at most one
\* clears the maps, alone.
LockSound ==
    /\ \A p \in Proc : stage[p] \in {"same", "up"} => p \in shared
    /\ \A p \in Proc : stage[p] \in {"same", "up", "cleared"} /\ want[p] # None => want[p] = ident
    /\ \A p \in Proc : stage[p] \in {"clearing", "cleared"} => shared = {} /\ bits = {} /\ stable = {}
    /\ \A p, q \in Proc : {stage[p], stage[q]} \subseteq {"clearing", "cleared"} => p = q

\* A thread at work has its block to itself, within its process.
ThreadSound ==
    /\ \A t \in Thread : at[t] # "idle" =>
          /\ block[t] \in inflight[ProcOf[t]] /\ block[t] \notin verified[ProcOf[t]]
          /\ at[t] # "truth" => hash[ProcOf[t]] # "?"
          /\ at[t] \in {"write", "written", "finish"} => data[t] \in Root
    /\ \A t, u \in Thread :
          at[t] # "idle" /\ at[u] # "idle" /\ ProcOf[t] = ProcOf[u] /\ block[t] = block[u] => t = u

\* The truths of processes and of the sidecar were taken since the last reset.
TruthSound ==
    /\ \A p \in Proc : hash[p] \in Root => hash[p] \in adopted
    /\ side \in Root => side \in adopted

\* With integrity required, only true bytes are written or marked; as long as
\* one truth was taken, they stay.
OneTruth == \A x, y \in adopted : x = y
StrictSound == require =>
    /\ \A t \in Thread : at[t] \in {"write", "written", "finish"} =>
          hash[ProcOf[t]] \in Root /\ data[t] = hash[ProcOf[t]]
    /\ OneTruth => \A p \in Proc : hash[p] \in Root => (\A b \in verified[p] : disk[b] = hash[p])
    /\ OneTruth => \A t \in Thread : at[t] = "finish" => disk[block[t]] = data[t]
    /\ adopted = {} => bits = {} /\ stable = {} /\ \A p \in Proc : map[p] = {} /\ snap[p] = {}

\* If moreover it is the truth of the saved identity, what is marked, or about
\* to be, has no bytes of another checkpoint.
Own(x) == x \in Root => x = ident
BoundSound == require /\ adopted \subseteq {ident} =>
    /\ \A b \in bits \cup stable : Own(disk[b]) /\ Own(durable[b])
    /\ \A p \in Proc : \A b \in map[p] \cup snap[p] : Own(disk[b])
    /\ \A p \in Proc : commit[p] \in {"merge", "flush"} => \A b \in snap[p] : Own(durable[b])

\* Without it and without a truth, what is marked is whole, and what is being
\* written is either marked nowhere or already there.
Whole == Root \cup {"bad"}
LooseMemory ==
    \A p \in Proc :
        /\ snap[p] \subseteq map[p] /\ map[p] \subseteq bits \cup verified[p]
        /\ \A b \in map[p] : disk[b] \in Whole
        /\ \A b \in verified[p] : b \in bits \/ disk[b] \in Root
        /\ commit[p] \in {"merge", "flush"} => \A b \in snap[p] : durable[b] \in Whole
Marked(b) == b \in bits \/ \E p \in Proc : b \in map[p]
LooseWriters ==
    \A t \in Thread : at[t] # "idle" =>
        /\ at[t] = "finish" => disk[block[t]] \in Root
        /\ at[t] \in {"fetch", "write", "written", "finish"} => block[t] \notin map[ProcOf[t]]
        /\ block[t] \notin map[ProcOf[t]] /\ Marked(block[t]) => disk[block[t]] \in Root
LooseSound == ~require /\ adopted = {} =>
    /\ stable \subseteq bits
    /\ \A b \in bits : disk[b] \in Whole /\ durable[b] \in Whole
    /\ LooseMemory /\ LooseWriters

MirrorInv ==
    /\ MirrorType /\ ProcSound /\ LockSound /\ ThreadSound /\ TruthSound /\ StrictSound
    /\ BoundSound

\* Each action of the mirror keeps types, locks, threads and truths, and the
\* true bytes that an integrity requirement asks for.
LEMMA OpenStep ==
    ASSUME M!MirrorConstants, MirrorInv, NEW p \in Proc, M!Open(p), UNCHANGED require
    PROVE  MirrorInv'
<1> USE DEF M!MirrorConstants, MirrorInv
<1>1. MirrorType'
  <2>1. /\ stage' \in [Proc -> {"off", "differs", "same", "refused", "upgrade", "clearing", "cleared", "up"}]
        /\ want' \in [Proc -> Root \cup {None}] /\ shared' \subseteq Proc
    <3>1. CASE truth = None /\ require /\ ident = None
      BY <3>1 DEF MirrorType, M!Open, M!To
    <3>2. CASE ~(truth = None /\ require /\ ident = None)
      BY <3>2 DEF MirrorType, M!Open, M!To
    <3> QED BY <3>1, <3>2
  <2> QED BY <2>1 DEF MirrorType, Working, M!Open, M!files, M!memory, M!threads
<1>2. ProcSound'
  BY DEF MirrorType, Working, ProcSound, ThreadSound, M!Open, M!Differs, M!To, M!Exclusive, M!files,
     M!locks, M!memory, M!threads
<1>3. ThreadSound'
  BY DEF MirrorType, Working, ProcSound, ThreadSound, M!Open, M!Differs, M!To, M!Exclusive, M!files,
     M!locks, M!memory, M!threads
<1>4. TruthSound'
  BY DEF MirrorType, Working, ProcSound, ThreadSound, TruthSound, M!Open, M!Differs, M!To, M!Exclusive,
     M!files, M!locks, M!memory, M!threads
<1>5. StrictSound'
  BY DEF MirrorType, Working, ProcSound, ThreadSound, LockSound, TruthSound, StrictSound,
     OneTruth, M!Open, M!Differs, M!To, M!Exclusive, M!files, M!locks, M!memory, M!threads
<1>6. LockSound'
  BY DEF MirrorType, Working, ProcSound, ThreadSound, LockSound, M!Open, M!Differs, M!To, M!Exclusive,
     M!files, M!locks, M!memory, M!threads
<1>7. BoundSound'
  BY DEF MirrorType, Working, ProcSound, ThreadSound, LockSound, TruthSound, StrictSound,
     OneTruth, BoundSound, Own, M!Open, M!Differs, M!To, M!Exclusive, M!files, M!locks, M!memory, M!threads
<1> QED BY <1>1, <1>2, <1>3, <1>4, <1>5, <1>6, <1>7

LEMMA ElectStep ==
    ASSUME M!MirrorConstants, MirrorInv, NEW p \in Proc, M!Elect(p), UNCHANGED require
    PROVE  MirrorInv'
<1> USE DEF M!MirrorConstants, MirrorInv
<1>1. MirrorType'
  BY DEF MirrorType, Working, ThreadSound, M!Elect, M!Differs, M!To, M!Exclusive, M!files, M!locks,
     M!memory, M!threads
<1>2. ProcSound'
  BY DEF MirrorType, Working, ProcSound, ThreadSound, M!Elect, M!Differs, M!To, M!Exclusive, M!files,
     M!locks, M!memory, M!threads
<1>3. ThreadSound'
  BY DEF MirrorType, Working, ProcSound, ThreadSound, M!Elect, M!Differs, M!To, M!Exclusive, M!files,
     M!locks, M!memory, M!threads
<1>4. TruthSound'
  BY DEF MirrorType, Working, ProcSound, ThreadSound, TruthSound, M!Elect, M!Differs, M!To, M!Exclusive,
     M!files, M!locks, M!memory, M!threads
<1>5. StrictSound'
  BY DEF MirrorType, Working, ProcSound, ThreadSound, LockSound, TruthSound, StrictSound,
     OneTruth, M!Elect, M!Differs, M!To, M!Exclusive, M!files, M!locks, M!memory, M!threads
<1>6. LockSound'
  BY DEF MirrorType, Working, ProcSound, ThreadSound, LockSound, M!Elect, M!Differs, M!To, M!Exclusive,
     M!files, M!locks, M!memory, M!threads
<1>7. BoundSound'
  BY DEF MirrorType, Working, ProcSound, ThreadSound, LockSound, TruthSound, StrictSound,
     OneTruth, BoundSound, Own, M!Elect, M!Differs, M!To, M!Exclusive, M!files, M!locks, M!memory,
     M!threads
<1> QED BY <1>1, <1>2, <1>3, <1>4, <1>5, <1>6, <1>7

LEMMA ReleaseStep ==
    ASSUME M!MirrorConstants, MirrorInv, NEW p \in Proc, M!Release(p), UNCHANGED require
    PROVE  MirrorInv'
<1> USE DEF M!MirrorConstants, MirrorInv
<1>1. MirrorType'
  BY DEF MirrorType, Working, ThreadSound, M!Release, M!files, M!locks, M!memory, M!threads
<1>2. ProcSound'
  BY DEF MirrorType, Working, ProcSound, ThreadSound, M!Release, M!files, M!locks, M!memory,
     M!threads
<1>3. ThreadSound'
  BY DEF MirrorType, Working, ProcSound, ThreadSound, M!Release, M!files, M!locks, M!memory,
     M!threads
<1>4. TruthSound'
  BY DEF MirrorType, Working, ProcSound, ThreadSound, TruthSound, M!Release, M!files, M!locks,
     M!memory, M!threads
<1>5. StrictSound'
  BY DEF MirrorType, Working, ProcSound, ThreadSound, LockSound, TruthSound, StrictSound,
     OneTruth, M!Release, M!files, M!locks, M!memory, M!threads
<1>6. LockSound'
  BY DEF MirrorType, Working, ProcSound, ThreadSound, LockSound, M!Release, M!files, M!locks,
     M!memory, M!threads
<1>7. BoundSound'
  BY DEF MirrorType, Working, ProcSound, ThreadSound, LockSound, TruthSound, StrictSound,
     OneTruth, BoundSound, Own, M!Release, M!files, M!locks, M!memory, M!threads
<1> QED BY <1>1, <1>2, <1>3, <1>4, <1>5, <1>6, <1>7

LEMMA UpgradeStep ==
    ASSUME M!MirrorConstants, MirrorInv, NEW p \in Proc, M!Upgrade(p), UNCHANGED require
    PROVE  MirrorInv'
<1> USE DEF M!MirrorConstants, MirrorInv
<1>1. MirrorType'
  BY DEF MirrorType, Working, ThreadSound, M!Upgrade, M!To, M!Exclusive, M!files, M!locks,
     M!memory, M!threads
<1>2. ProcSound'
  BY DEF MirrorType, Working, ProcSound, ThreadSound, M!Upgrade, M!To, M!Exclusive, M!files,
     M!locks, M!memory, M!threads
<1>3. ThreadSound'
  BY DEF MirrorType, Working, ProcSound, ThreadSound, M!Upgrade, M!To, M!Exclusive, M!files,
     M!locks, M!memory, M!threads
<1>4. TruthSound'
  BY DEF MirrorType, Working, ProcSound, ThreadSound, TruthSound, M!Upgrade, M!To, M!Exclusive,
     M!files, M!locks, M!memory, M!threads
<1>5. StrictSound'
  BY DEF MirrorType, Working, ProcSound, ThreadSound, LockSound, TruthSound, StrictSound,
     OneTruth, M!Upgrade, M!To, M!Exclusive, M!files, M!locks, M!memory, M!threads
<1>6. LockSound'
  BY DEF MirrorType, Working, ProcSound, ThreadSound, LockSound, M!Upgrade, M!To, M!Exclusive,
     M!files, M!locks, M!memory, M!threads
<1>7. BoundSound'
  BY DEF MirrorType, Working, ProcSound, ThreadSound, LockSound, TruthSound, StrictSound,
     OneTruth, BoundSound, Own, M!Upgrade, M!To, M!Exclusive, M!files, M!locks, M!memory,
     M!threads
<1> QED BY <1>1, <1>2, <1>3, <1>4, <1>5, <1>6, <1>7

LEMMA SaveIdentityStep ==
    ASSUME M!MirrorConstants, MirrorInv, NEW p \in Proc, M!SaveIdentity(p), UNCHANGED require
    PROVE  MirrorInv'
<1> USE DEF M!MirrorConstants, MirrorInv
<1>1. MirrorType'
  BY DEF MirrorType, Working, ThreadSound, M!SaveIdentity, M!To, M!files, M!locks, M!memory,
     M!threads
<1>2. ProcSound'
  BY DEF MirrorType, Working, ProcSound, ThreadSound, M!SaveIdentity, M!To, M!files, M!locks,
     M!memory, M!threads
<1>3. ThreadSound'
  BY DEF MirrorType, Working, ProcSound, ThreadSound, M!SaveIdentity, M!To, M!files, M!locks,
     M!memory, M!threads
<1>4. TruthSound'
  BY DEF MirrorType, Working, ProcSound, ThreadSound, TruthSound, M!SaveIdentity, M!To, M!files,
     M!locks, M!memory, M!threads
<1>5. StrictSound'
  BY DEF MirrorType, Working, ProcSound, ThreadSound, LockSound, TruthSound, StrictSound,
     OneTruth, M!SaveIdentity, M!To, M!files, M!locks, M!memory, M!threads
<1>6. LockSound'
  BY DEF MirrorType, Working, ProcSound, ThreadSound, LockSound, M!SaveIdentity, M!To, M!files,
     M!locks, M!memory, M!threads
<1>7. BoundSound'
  BY DEF MirrorType, Working, ProcSound, ThreadSound, LockSound, TruthSound, StrictSound,
     OneTruth, BoundSound, Own, M!SaveIdentity, M!To, M!files, M!locks, M!memory, M!threads
<1> QED BY <1>1, <1>2, <1>3, <1>4, <1>5, <1>6, <1>7

LEMMA UpStep ==
    ASSUME M!MirrorConstants, MirrorInv, NEW p \in Proc, M!Up(p), UNCHANGED require
    PROVE  MirrorInv'
<1> USE DEF M!MirrorConstants, MirrorInv
<1>1. MirrorType'
  BY DEF MirrorType, Working, ThreadSound, M!Up, M!To, M!files, M!locks, M!memory, M!threads
<1>2. ProcSound'
  BY DEF MirrorType, Working, ProcSound, ThreadSound, M!Up, M!To, M!files, M!locks, M!memory,
     M!threads
<1>3. ThreadSound'
  BY DEF MirrorType, Working, ProcSound, ThreadSound, M!Up, M!To, M!files, M!locks, M!memory,
     M!threads
<1>4. TruthSound'
  BY DEF MirrorType, Working, ProcSound, ThreadSound, TruthSound, M!Up, M!To, M!files, M!locks,
     M!memory, M!threads
<1>5. StrictSound'
  BY DEF MirrorType, Working, ProcSound, ThreadSound, LockSound, TruthSound, StrictSound,
     OneTruth, M!Up, M!To, M!files, M!locks, M!memory, M!threads
<1>6. LockSound'
  BY DEF MirrorType, Working, ProcSound, ThreadSound, LockSound, M!Up, M!To, M!files, M!locks,
     M!memory, M!threads
<1>7. BoundSound'
  BY DEF MirrorType, Working, ProcSound, ThreadSound, LockSound, TruthSound, StrictSound,
     OneTruth, BoundSound, Own, M!Up, M!To, M!files, M!locks, M!memory, M!threads
<1> QED BY <1>1, <1>2, <1>3, <1>4, <1>5, <1>6, <1>7

LEMMA SnapshotStep ==
    ASSUME M!MirrorConstants, MirrorInv, NEW p \in Proc, M!Snapshot(p), UNCHANGED require
    PROVE  MirrorInv'
<1> USE DEF M!MirrorConstants, MirrorInv
<1>1. MirrorType'
  BY DEF MirrorType, Working, ThreadSound, M!Snapshot, M!files, M!locks, M!memory, M!threads
<1>2. ProcSound'
  BY DEF MirrorType, Working, ProcSound, ThreadSound, M!Snapshot, M!files, M!locks, M!memory,
     M!threads
<1>3. ThreadSound'
  BY DEF MirrorType, Working, ProcSound, ThreadSound, M!Snapshot, M!files, M!locks, M!memory,
     M!threads
<1>4. TruthSound'
  BY DEF MirrorType, Working, ProcSound, ThreadSound, TruthSound, M!Snapshot, M!files, M!locks,
     M!memory, M!threads
<1>5. StrictSound'
  BY DEF MirrorType, Working, ProcSound, ThreadSound, LockSound, TruthSound, StrictSound,
     OneTruth, M!Snapshot, M!files, M!locks, M!memory, M!threads
<1>6. LockSound'
  BY DEF MirrorType, Working, ProcSound, ThreadSound, LockSound, M!Snapshot, M!files, M!locks,
     M!memory, M!threads
<1>7. BoundSound'
  BY DEF MirrorType, Working, ProcSound, ThreadSound, LockSound, TruthSound, StrictSound,
     OneTruth, BoundSound, Own, M!Snapshot, M!files, M!locks, M!memory, M!threads
<1> QED BY <1>1, <1>2, <1>3, <1>4, <1>5, <1>6, <1>7

LEMMA SyncDataStep ==
    ASSUME M!MirrorConstants, MirrorInv, NEW p \in Proc, M!SyncData(p), UNCHANGED require
    PROVE  MirrorInv'
<1> USE DEF M!MirrorConstants, MirrorInv
<1>1. MirrorType'
  BY DEF MirrorType, Working, ThreadSound, M!SyncData, M!Synced, M!Locked, M!files, M!locks,
     M!memory, M!threads
<1>2. ProcSound'
  BY DEF MirrorType, Working, ProcSound, ThreadSound, M!SyncData, M!Synced, M!Locked, M!files,
     M!locks, M!memory, M!threads
<1>3. ThreadSound'
  BY DEF MirrorType, Working, ProcSound, ThreadSound, M!SyncData, M!Synced, M!Locked, M!files,
     M!locks, M!memory, M!threads
<1>4. TruthSound'
  BY DEF MirrorType, Working, ProcSound, ThreadSound, TruthSound, M!SyncData, M!Synced,
     M!Locked, M!files, M!locks, M!memory, M!threads
<1>5. StrictSound'
  BY DEF MirrorType, Working, ProcSound, ThreadSound, LockSound, TruthSound, StrictSound,
     OneTruth, M!SyncData, M!Synced, M!Locked, M!files, M!locks, M!memory, M!threads
<1>6. LockSound'
  BY DEF MirrorType, Working, ProcSound, ThreadSound, LockSound, M!SyncData, M!Synced, M!Locked,
     M!files, M!locks, M!memory, M!threads
<1>7. BoundSound'
  BY DEF MirrorType, Working, ProcSound, ThreadSound, LockSound, TruthSound, StrictSound,
     OneTruth, BoundSound, Own, M!SyncData, M!Synced, M!Locked, M!files, M!locks, M!memory,
     M!threads
<1> QED BY <1>1, <1>2, <1>3, <1>4, <1>5, <1>6, <1>7

LEMMA MergeStep ==
    ASSUME M!MirrorConstants, MirrorInv, NEW p \in Proc, M!Merge(p), UNCHANGED require
    PROVE  MirrorInv'
<1> USE DEF M!MirrorConstants, MirrorInv
<1>1. MirrorType'
  BY DEF MirrorType, Working, ThreadSound, M!Merge, M!files, M!locks, M!memory, M!threads
<1>2. ProcSound'
  BY DEF MirrorType, Working, ProcSound, ThreadSound, M!Merge, M!files, M!locks, M!memory,
     M!threads
<1>3. ThreadSound'
  BY DEF MirrorType, Working, ProcSound, ThreadSound, M!Merge, M!files, M!locks, M!memory,
     M!threads
<1>4. TruthSound'
  BY DEF MirrorType, Working, ProcSound, ThreadSound, TruthSound, M!Merge, M!files, M!locks,
     M!memory, M!threads
<1>5. StrictSound'
  BY DEF MirrorType, Working, ProcSound, ThreadSound, LockSound, TruthSound, StrictSound,
     OneTruth, M!Merge, M!files, M!locks, M!memory, M!threads
<1>6. LockSound'
  BY DEF MirrorType, Working, ProcSound, ThreadSound, LockSound, M!Merge, M!files, M!locks,
     M!memory, M!threads
<1>7. BoundSound'
  BY DEF MirrorType, Working, ProcSound, ThreadSound, LockSound, TruthSound, StrictSound,
     OneTruth, BoundSound, Own, M!Merge, M!files, M!locks, M!memory, M!threads
<1> QED BY <1>1, <1>2, <1>3, <1>4, <1>5, <1>6, <1>7

LEMMA FlushStep ==
    ASSUME M!MirrorConstants, MirrorInv, NEW p \in Proc, M!Flush(p), UNCHANGED require
    PROVE  MirrorInv'
<1> USE DEF M!MirrorConstants, MirrorInv
<1>1. MirrorType'
  BY DEF MirrorType, Working, ThreadSound, M!Flush, M!files, M!locks, M!memory, M!threads
<1>2. ProcSound'
  BY DEF MirrorType, Working, ProcSound, ThreadSound, M!Flush, M!files, M!locks, M!memory,
     M!threads
<1>3. ThreadSound'
  BY DEF MirrorType, Working, ProcSound, ThreadSound, M!Flush, M!files, M!locks, M!memory,
     M!threads
<1>4. TruthSound'
  BY DEF MirrorType, Working, ProcSound, ThreadSound, TruthSound, M!Flush, M!files, M!locks,
     M!memory, M!threads
<1>5. StrictSound'
  BY DEF MirrorType, Working, ProcSound, ThreadSound, LockSound, TruthSound, StrictSound,
     OneTruth, M!Flush, M!files, M!locks, M!memory, M!threads
<1>6. LockSound'
  BY DEF MirrorType, Working, ProcSound, ThreadSound, LockSound, M!Flush, M!files, M!locks,
     M!memory, M!threads
<1>7. BoundSound'
  BY DEF MirrorType, Working, ProcSound, ThreadSound, LockSound, TruthSound, StrictSound,
     OneTruth, BoundSound, Own, M!Flush, M!files, M!locks, M!memory, M!threads
<1> QED BY <1>1, <1>2, <1>3, <1>4, <1>5, <1>6, <1>7

LEMMA ExitStep ==
    ASSUME M!MirrorConstants, MirrorInv, NEW p \in Proc, M!Exit(p), UNCHANGED require
    PROVE  MirrorInv'
<1> USE DEF M!MirrorConstants, MirrorInv
<1>1. MirrorType'
  BY DEF MirrorType, Working, ThreadSound, M!Exit, M!Gone, M!Fresh, M!files, M!locks, M!memory,
     M!threads
<1>2. ProcSound'
  BY DEF MirrorType, Working, ProcSound, ThreadSound, M!Exit, M!Gone, M!Fresh, M!files, M!locks,
     M!memory, M!threads
<1>3. ThreadSound'
  BY DEF MirrorType, Working, ProcSound, ThreadSound, M!Exit, M!Gone, M!Fresh, M!files, M!locks,
     M!memory, M!threads
<1>4. TruthSound'
  BY DEF MirrorType, Working, ProcSound, ThreadSound, TruthSound, M!Exit, M!Gone, M!Fresh,
     M!files, M!locks, M!memory, M!threads
<1>5. StrictSound'
  BY DEF MirrorType, Working, ProcSound, ThreadSound, LockSound, TruthSound, StrictSound,
     OneTruth, M!Exit, M!Gone, M!Fresh, M!files, M!locks, M!memory, M!threads
<1>6. LockSound'
  BY DEF MirrorType, Working, ProcSound, ThreadSound, LockSound, M!Exit, M!Gone, M!Fresh,
     M!files, M!locks, M!memory, M!threads
<1>7. BoundSound'
  BY DEF MirrorType, Working, ProcSound, ThreadSound, LockSound, TruthSound, StrictSound,
     OneTruth, BoundSound, Own, M!Exit, M!Gone, M!Fresh, M!files, M!locks, M!memory, M!threads
<1> QED BY <1>1, <1>2, <1>3, <1>4, <1>5, <1>6, <1>7

LEMMA EnterStep ==
    ASSUME M!MirrorConstants, MirrorInv, NEW t \in Thread, NEW b \in Block, M!Enter(t, b), UNCHANGED require
    PROVE  MirrorInv'
<1> USE DEF M!MirrorConstants, MirrorInv
<1>1. MirrorType'
  BY DEF MirrorType, Working, ThreadSound, M!Enter, M!files, M!locks, M!memory, M!threads
<1>2. ProcSound'
  BY DEF MirrorType, Working, ProcSound, ThreadSound, M!Enter, M!files, M!locks, M!memory,
     M!threads
<1>3. ThreadSound'
  BY DEF MirrorType, Working, ProcSound, ThreadSound, M!Enter, M!files, M!locks, M!memory,
     M!threads
<1>4. TruthSound'
  BY DEF MirrorType, Working, ProcSound, ThreadSound, TruthSound, M!Enter, M!files, M!locks,
     M!memory, M!threads
<1>5. StrictSound'
  BY DEF MirrorType, Working, ProcSound, ThreadSound, LockSound, TruthSound, StrictSound,
     OneTruth, M!Enter, M!files, M!locks, M!memory, M!threads
<1>6. LockSound'
  BY DEF MirrorType, Working, ProcSound, ThreadSound, LockSound, M!Enter, M!files, M!locks,
     M!memory, M!threads
<1>7. BoundSound'
  BY DEF MirrorType, Working, ProcSound, ThreadSound, LockSound, TruthSound, StrictSound,
     OneTruth, BoundSound, Own, M!Enter, M!files, M!locks, M!memory, M!threads
<1> QED BY <1>1, <1>2, <1>3, <1>4, <1>5, <1>6, <1>7

\* What a first touch finds: nothing new, or a truth that it adopts and may save.
LEMMA HashesFound ==
    ASSUME M!MirrorConstants, MirrorInv, NEW t \in Thread, M!hashes_ensure(t)
    PROVE  \E found \in Root \cup {None} :
              /\ hash' = hash \/ hash' = [hash EXCEPT ![ProcOf[t]] = found]
              /\ side' \in {side, found} /\ (side' = side \/ found \in adopted' \/ found = None)
              /\ adopted' = adopted \/ adopted' = adopted \cup ({found} \ {None})
              /\ hash' = hash \/ found = None \/ found \in adopted'
<1> USE DEF M!MirrorConstants, MirrorInv
<1>1. CASE hash[ProcOf[t]] # "?"
  BY <1>1 DEF M!hashes_ensure
<1>2. CASE hash[ProcOf[t]] = "?"
  <2>1. PICK found \in IF truth # None THEN {truth} ELSE M!truth_load :
          /\ hash' = [hash EXCEPT ![ProcOf[t]] = found] /\ M!truth_save(found)
          /\ adopted' = adopted \cup ({found} \ {None})
    BY <1>2 DEF M!hashes_ensure
  <2>2. found \in Root \cup {None}
    BY <2>1 DEF M!truth_load, MirrorType
  <2>3. side' \in {side, found}
    BY <2>1 DEF M!truth_save
  <2> QED BY <2>1, <2>2, <2>3
<1> QED BY <1>1, <1>2

LEMMA hashes_ensureStep ==
    ASSUME M!MirrorConstants, MirrorInv, NEW t \in Thread, M!hashes_ensure(t), UNCHANGED require
    PROVE  MirrorInv'
<1> USE DEF M!MirrorConstants, MirrorInv
<1>1. MirrorType'
  <2>1. /\ side' \in {side} \cup Root \cup {None} /\ adopted' \subseteq adopted \cup Root
        /\ hash' \in [Proc -> Root \cup {None, "?"}]
    BY HashesFound DEF MirrorType, M!truth_save
  <2>2. UNCHANGED <<disk, durable, bits, stable, ident, truth, shared, stage, want, map, verified,
                    inflight, commit, snap, block, data>>
    BY DEF M!hashes_ensure, M!locks
  <2>3. at' \in [Thread -> Working \cup {"idle"}]
    BY DEF MirrorType, Working, M!hashes_ensure
  <2> QED BY <2>1, <2>2, <2>3 DEF MirrorType
<1>2. ProcSound'
  BY DEF MirrorType, Working, ProcSound, ThreadSound, M!hashes_ensure, M!truth_load, M!truth_save, M!files, M!locks,
     M!memory, M!threads
<1>3. ThreadSound'
  BY DEF MirrorType, Working, ProcSound, ThreadSound, M!hashes_ensure, M!truth_load, M!truth_save, M!files, M!locks,
     M!memory, M!threads
<1>4. TruthSound'
  BY HashesFound DEF TruthSound, MirrorType
<1>5. StrictSound'
  <2>1. CASE hash[ProcOf[t]] # "?"
    BY <2>1 DEF MirrorType, ThreadSound, StrictSound, OneTruth, M!hashes_ensure, M!files,
       M!locks, M!memory, M!threads
  <2>2. CASE hash[ProcOf[t]] = "?"
    <3>1. PICK found \in Root \cup {None} :
             /\ hash' = [hash EXCEPT ![ProcOf[t]] = found]
             /\ adopted' = adopted \cup ({found} \ {None})
      BY <2>2 DEF MirrorType, M!hashes_ensure, M!truth_load
    <3> QED
      BY <2>2, <3>1 DEF MirrorType, Working, ProcSound, ThreadSound, LockSound, TruthSound,
         StrictSound, OneTruth, M!hashes_ensure, M!files, M!locks, M!memory, M!threads
  <2> QED BY <2>1, <2>2
<1>6. LockSound'
  BY DEF MirrorType, Working, ProcSound, ThreadSound, LockSound, M!hashes_ensure, M!truth_load, M!truth_save, M!files,
     M!locks, M!memory, M!threads
<1>7. BoundSound'
  BY DEF MirrorType, Working, ProcSound, ThreadSound, LockSound, TruthSound, StrictSound,
     OneTruth, BoundSound, Own, M!hashes_ensure, M!truth_load, M!truth_save, M!files, M!locks, M!memory, M!threads
<1> QED BY <1>1, <1>2, <1>3, <1>4, <1>5, <1>6, <1>7

\* The first touch compares the bytes on disk with the truth, or starts a fetch.
LEMMA LocalStep ==
    ASSUME M!MirrorConstants, MirrorInv, NEW t \in Thread, M!Local(t), UNCHANGED require
    PROVE  MirrorInv'
<1> USE DEF M!MirrorConstants, MirrorInv
<1> DEFINE p == ProcOf[t]
           b == block[t]
<1>1. /\ at[t] = "local" /\ p \in Proc /\ b \in Block /\ b \in inflight[p] /\ hash[p] # "?"
      /\ UNCHANGED <<disk, durable, stable, ident, side, truth, adopted, shared, stage, want, hash,
                     commit, snap, data>>
  BY DEF MirrorType, ThreadSound, M!Local, M!locks
<1>2. stage[p] = "up"
  BY <1>1 DEF ProcSound
<1>3. CASE M!Trusted(p, b)
  <2>1. /\ verified' = [verified EXCEPT ![p] = @ \cup {b}]
        /\ inflight' = [inflight EXCEPT ![p] = @ \ {b}]
        /\ at' = [at EXCEPT ![t] = "idle"] /\ block' = [block EXCEPT ![t] = None]
        /\ bits' = bits /\ map' = map
    BY <1>3 DEF M!Local
  <2>2. b \in map[p] /\ (hash[p] \in Root => disk[b] = hash[p]) 
    BY <1>1, <1>3 DEF M!Trusted
  <2> HIDE DEF p, b
  <2>3. MirrorType'
    BY <1>1, <2>1 DEF MirrorType, Working
  <2>4. ProcSound'
    BY <1>1, <1>2, <2>1, <2>2 DEF MirrorType, ProcSound
  <2>5. ThreadSound'
    BY <1>1, <2>1 DEF MirrorType, ThreadSound, p, b
  <2>6. TruthSound'
    BY <1>1, <2>1 DEF TruthSound
  <2>7. StrictSound'
    BY <1>1, <2>1, <2>2 DEF MirrorType, StrictSound, OneTruth
  <2>8. LockSound'
    BY <1>1, <2>1 DEF LockSound
  <2>9. BoundSound'
    BY <1>1, <2>1 DEF BoundSound, Own
  <2> QED BY <2>3, <2>4, <2>5, <2>6, <2>7, <2>8, <2>9
<1>4. CASE ~M!Trusted(p, b)
  <2>1. /\ \/ map' = [map EXCEPT ![p] = @ \ {b}] /\ bits' = bits \ {b}
           \/ map' = map /\ bits' = bits
        /\ at' = [at EXCEPT ![t] = "fetch"] /\ UNCHANGED <<verified, inflight, block>>
    BY <1>4 DEF M!Local
  <2>2. b \notin verified[p]
    BY <1>1 DEF ThreadSound
  <2> HIDE DEF p, b
  <2>3. MirrorType'
    BY <1>1, <2>1 DEF MirrorType, Working
  <2>4. ProcSound'
    BY <1>1, <1>2, <2>1, <2>2 DEF MirrorType, ProcSound
  <2>5. ThreadSound'
    BY <1>1, <2>1 DEF MirrorType, ThreadSound, p, b
  <2>6. TruthSound'
    BY <1>1, <2>1 DEF TruthSound
  <2>7. StrictSound'
    BY <1>1, <2>1, <2>2 DEF MirrorType, StrictSound, OneTruth
  <2>8. LockSound'
    BY <1>1, <2>1 DEF LockSound
  <2>9. BoundSound'
    BY <1>1, <2>1 DEF MirrorType, BoundSound, Own
  <2> QED BY <2>3, <2>4, <2>5, <2>6, <2>7, <2>8, <2>9
<1> QED BY <1>3, <1>4

\* With integrity required only bytes that hash to the truth are taken.
LEMMA FetchStep ==
    ASSUME M!MirrorConstants, MirrorInv, NEW t \in Thread, M!Fetch(t), UNCHANGED require
    PROVE  MirrorInv'
<1> USE DEF M!MirrorConstants, MirrorInv
<1>0. at[t] = "fetch" => M!FromStore(ProcOf[t]) \cup M!FromPeers(ProcOf[t]) \subseteq Root
  BY DEF MirrorType, ThreadSound, M!FromStore, M!FromPeers
<1>1. MirrorType'
  <2>1. CASE \E bytes \in Root : data' = [data EXCEPT ![t] = bytes]
    <3>1. PICK bytes \in Root : data' = [data EXCEPT ![t] = bytes]
      BY <2>1
    <3>2. data' \in [Thread -> Root \cup {None}]
      BY <3>1 DEF MirrorType
    <3>3. /\ UNCHANGED <<disk, durable, bits, stable, ident, side, truth, adopted, shared,
                         stage, want, map, verified, snap, hash, commit>>
          /\ \/ inflight' = inflight /\ block' = block
             \/ inflight' = [inflight EXCEPT ![ProcOf[t]] = @ \ {block[t]}]
                /\ block' = [block EXCEPT ![t] = None]
          /\ \/ at' = [at EXCEPT ![t] = "write"] \/ at' = [at EXCEPT ![t] = "idle"]
      BY DEF M!Fetch, M!files, M!locks
    <3> QED BY <3>2, <3>3 DEF MirrorType, Working
  <2>2. CASE data' = data
    BY <2>2 DEF MirrorType, Working, M!Fetch, M!files, M!locks
  <2>3. (\E bytes \in Root : data' = [data EXCEPT ![t] = bytes]) \/ data' = data
    BY <1>0 DEF M!Fetch
  <2> QED BY <2>1, <2>2, <2>3
<1>2. ProcSound'
  BY DEF MirrorType, Working, ProcSound, ThreadSound, M!Fetch, M!FromStore, M!FromPeers,
     M!files, M!locks, M!memory, M!threads
<1>3. ThreadSound'
  BY DEF MirrorType, Working, ProcSound, ThreadSound, M!Fetch, M!FromStore, M!FromPeers,
     M!files, M!locks, M!memory, M!threads
<1>4. TruthSound'
  BY DEF MirrorType, Working, ProcSound, ThreadSound, TruthSound, M!Fetch, M!FromStore,
     M!FromPeers, M!files, M!locks, M!memory, M!threads
<1>5. StrictSound'
  BY DEF MirrorType, Working, ProcSound, ThreadSound, LockSound, TruthSound, StrictSound,
     OneTruth, M!Fetch, M!FromStore, M!FromPeers, M!files, M!locks, M!memory, M!threads
<1>6. LockSound'
  BY DEF MirrorType, Working, ProcSound, ThreadSound, LockSound, M!Fetch, M!FromStore,
     M!FromPeers, M!files, M!locks, M!memory, M!threads
<1>7. BoundSound'
  BY DEF MirrorType, Working, ProcSound, ThreadSound, LockSound, TruthSound, StrictSound,
     OneTruth, BoundSound, Own, M!Fetch, M!FromStore, M!FromPeers, M!files, M!locks, M!memory,
     M!threads
<1> QED BY <1>1, <1>2, <1>3, <1>4, <1>5, <1>6, <1>7

LEMMA BlockWriteStep ==
    ASSUME M!MirrorConstants, MirrorInv, NEW t \in Thread, M!Write(t), UNCHANGED require
    PROVE  MirrorInv'
<1> USE DEF M!MirrorConstants, MirrorInv
<1> DEFINE bytes == IF at[t] = "written" \/ disk[block[t]] = data[t] THEN data[t] ELSE "torn"
<1>0. /\ at[t] \in {"write", "written"} /\ disk' = [disk EXCEPT ![block[t]] = bytes]
      /\ at' = [at EXCEPT ![t] = IF at[t] = "write" THEN "written" ELSE "finish"]
      /\ UNCHANGED <<durable, bits, stable, ident, side, truth, adopted, shared, stage, want, map,
                     verified, inflight, snap, hash, commit, block, data>>
  BY DEF M!Write, M!memory, M!locks
<1>1. MirrorType'
  <2>1. bytes \in Root \cup {"torn"}
    BY <1>0 DEF ThreadSound
  <2> HIDE DEF bytes
  <2>3. disk' \in [Block -> Root \cup {"zero", "torn", "bad"}]
    BY <1>0, <2>1 DEF MirrorType
  <2>4. at' \in [Thread -> Working \cup {"idle"}]
    BY <1>0 DEF MirrorType, Working
  <2> QED BY <1>0, <2>3, <2>4 DEF MirrorType
<1>2. ProcSound'
  BY DEF MirrorType, Working, ProcSound, ThreadSound, M!Write, M!files, M!locks, M!memory,
     M!threads
<1>3. ThreadSound'
  BY DEF MirrorType, Working, ProcSound, ThreadSound, M!Write, M!files, M!locks, M!memory,
     M!threads
<1>4. TruthSound'
  BY DEF MirrorType, Working, ProcSound, ThreadSound, TruthSound, M!Write, M!files, M!locks,
     M!memory, M!threads
<1>5. StrictSound'
  BY DEF MirrorType, Working, ProcSound, ThreadSound, LockSound, TruthSound, StrictSound,
     OneTruth, M!Write, M!files, M!locks, M!memory, M!threads
<1>6. LockSound'
  BY DEF MirrorType, Working, ProcSound, ThreadSound, LockSound, M!Write, M!files, M!locks,
     M!memory, M!threads
<1>7. BoundSound'
  BY DEF MirrorType, Working, ProcSound, ThreadSound, LockSound, TruthSound, StrictSound,
     OneTruth, BoundSound, Own, M!Write, M!files, M!locks, M!memory, M!threads
<1> QED BY <1>1, <1>2, <1>3, <1>4, <1>5, <1>6, <1>7

LEMMA WriteFailsStep ==
    ASSUME M!MirrorConstants, MirrorInv, NEW t \in Thread, M!WriteFails(t), UNCHANGED require
    PROVE  MirrorInv'
<1> USE DEF M!MirrorConstants, MirrorInv
<1>1. MirrorType'
  BY DEF MirrorType, Working, ThreadSound, M!WriteFails, M!files, M!locks, M!memory, M!threads
<1>2. ProcSound'
  BY DEF MirrorType, Working, ProcSound, ThreadSound, M!WriteFails, M!files, M!locks, M!memory,
     M!threads
<1>3. ThreadSound'
  BY DEF MirrorType, Working, ProcSound, ThreadSound, M!WriteFails, M!files, M!locks, M!memory,
     M!threads
<1>4. TruthSound'
  BY DEF MirrorType, Working, ProcSound, ThreadSound, TruthSound, M!WriteFails, M!files,
     M!locks, M!memory, M!threads
<1>5. StrictSound'
  BY DEF MirrorType, Working, ProcSound, ThreadSound, LockSound, TruthSound, StrictSound,
     OneTruth, M!WriteFails, M!files, M!locks, M!memory, M!threads
<1>6. LockSound'
  BY DEF MirrorType, Working, ProcSound, ThreadSound, LockSound, M!WriteFails, M!files, M!locks,
     M!memory, M!threads
<1>7. BoundSound'
  BY DEF MirrorType, Working, ProcSound, ThreadSound, LockSound, TruthSound, StrictSound,
     OneTruth, BoundSound, Own, M!WriteFails, M!files, M!locks, M!memory, M!threads
<1> QED BY <1>1, <1>2, <1>3, <1>4, <1>5, <1>6, <1>7

LEMMA FinishStep ==
    ASSUME M!MirrorConstants, MirrorInv, NEW t \in Thread, M!Finish(t), UNCHANGED require
    PROVE  MirrorInv'
<1> USE DEF M!MirrorConstants, MirrorInv
<1>0. /\ at[t] = "finish" /\ ProcOf[t] \in Proc /\ block[t] \in Block
      /\ map' = [map EXCEPT ![ProcOf[t]] = @ \cup {block[t]}]
      /\ verified' = [verified EXCEPT ![ProcOf[t]] = @ \cup {block[t]}]
      /\ inflight' = [inflight EXCEPT ![ProcOf[t]] = @ \ {block[t]}]
      /\ at' = [at EXCEPT ![t] = "idle"] /\ block' = [block EXCEPT ![t] = None]
      /\ data' = [data EXCEPT ![t] = None]
      /\ UNCHANGED <<disk, durable, bits, stable, ident, side, truth, adopted, shared, stage, want,
                     snap, hash, commit>>
  BY DEF MirrorType, ThreadSound, M!Finish, M!files, M!locks
<1>1. MirrorType'
  <2>2. /\ map' \in [Proc -> SUBSET Block] /\ verified' \in [Proc -> SUBSET Block]
        /\ inflight' \in [Proc -> SUBSET Block]
    BY <1>0 DEF MirrorType
  <2>3. /\ at' \in [Thread -> Working \cup {"idle"}] /\ block' \in [Thread -> Block \cup {None}]
        /\ data' \in [Thread -> Root \cup {None}]
    BY <1>0 DEF MirrorType, Working
  <2> QED BY <1>0, <2>2, <2>3 DEF MirrorType
<1>2. ProcSound'
  <2>1. stage[ProcOf[t]] = "up" /\ hash[ProcOf[t]] # "?"
    BY <1>0 DEF ProcSound, ThreadSound
  <2> QED BY <1>0, <2>1 DEF MirrorType, ProcSound
<1>3. ThreadSound'
  BY DEF MirrorType, Working, ProcSound, ThreadSound, M!Finish, M!files, M!locks, M!memory,
     M!threads
<1>4. TruthSound'
  BY DEF MirrorType, Working, ProcSound, ThreadSound, TruthSound, M!Finish, M!files, M!locks,
     M!memory, M!threads
<1>5. StrictSound'
  BY DEF MirrorType, Working, ProcSound, ThreadSound, LockSound, TruthSound, StrictSound,
     OneTruth, M!Finish, M!files, M!locks, M!memory, M!threads
<1>6. LockSound'
  BY DEF MirrorType, Working, ProcSound, ThreadSound, LockSound, M!Finish, M!files, M!locks,
     M!memory, M!threads
<1>7. BoundSound'
  BY DEF MirrorType, Working, ProcSound, ThreadSound, LockSound, TruthSound, StrictSound,
     OneTruth, BoundSound, Own, M!Finish, M!files, M!locks, M!memory, M!threads
<1> QED BY <1>1, <1>2, <1>3, <1>4, <1>5, <1>6, <1>7

LEMMA PowerLossStep ==
    ASSUME M!MirrorConstants, MirrorInv, M!PowerLoss, UNCHANGED require
    PROVE  MirrorInv'
<1> USE DEF M!MirrorConstants, MirrorInv
<1>1. MirrorType'
  BY DEF MirrorType, Working, ThreadSound, M!PowerLoss, M!Gone, M!Fresh, M!files, M!locks,
     M!memory, M!threads
<1>2. ProcSound'
  BY DEF MirrorType, Working, ProcSound, ThreadSound, M!PowerLoss, M!Gone, M!Fresh, M!files,
     M!locks, M!memory, M!threads
<1>3. ThreadSound'
  BY DEF MirrorType, Working, ProcSound, ThreadSound, M!PowerLoss, M!Gone, M!Fresh, M!files,
     M!locks, M!memory, M!threads
<1>4. TruthSound'
  BY DEF MirrorType, Working, ProcSound, ThreadSound, TruthSound, M!PowerLoss, M!Gone, M!Fresh,
     M!files, M!locks, M!memory, M!threads
<1>5. StrictSound'
  BY DEF MirrorType, Working, ProcSound, ThreadSound, LockSound, TruthSound, StrictSound,
     OneTruth, M!PowerLoss, M!Gone, M!Fresh, M!files, M!locks, M!memory, M!threads
<1>6. LockSound'
  BY DEF MirrorType, Working, ProcSound, ThreadSound, LockSound, M!PowerLoss, M!Gone, M!Fresh,
     M!files, M!locks, M!memory, M!threads
<1>7. BoundSound'
  BY DEF MirrorType, Working, ProcSound, ThreadSound, LockSound, TruthSound, StrictSound,
     OneTruth, BoundSound, Own, M!PowerLoss, M!Gone, M!Fresh, M!files, M!locks, M!memory,
     M!threads
<1> QED BY <1>1, <1>2, <1>3, <1>4, <1>5, <1>6, <1>7

LEMMA RotStep ==
    ASSUME M!MirrorConstants, MirrorInv, NEW b \in Block, M!Rot(b), UNCHANGED require
    PROVE  MirrorInv'
<1> USE DEF M!MirrorConstants, MirrorInv
<1>1. MirrorType'
  BY DEF MirrorType, Working, ThreadSound, M!Rot, M!files, M!locks, M!memory, M!threads
<1>2. ProcSound'
  BY DEF MirrorType, Working, ProcSound, ThreadSound, M!Rot, M!files, M!locks, M!memory, M!threads
<1>3. ThreadSound'
  BY DEF MirrorType, Working, ProcSound, ThreadSound, M!Rot, M!files, M!locks, M!memory, M!threads
<1>4. TruthSound'
  BY DEF MirrorType, Working, ProcSound, ThreadSound, TruthSound, M!Rot, M!files, M!locks,
     M!memory, M!threads
<1>5. StrictSound'
  BY DEF MirrorType, Working, ProcSound, ThreadSound, LockSound, TruthSound, StrictSound,
     OneTruth, M!Rot, M!files, M!locks, M!memory, M!threads
<1>6. LockSound'
  BY DEF MirrorType, Working, ProcSound, ThreadSound, LockSound, M!Rot, M!files, M!locks,
     M!memory, M!threads
<1>7. BoundSound'
  BY DEF MirrorType, Working, ProcSound, ThreadSound, LockSound, TruthSound, StrictSound,
     OneTruth, BoundSound, Own, M!Rot, M!files, M!locks, M!memory, M!threads
<1> QED BY <1>1, <1>2, <1>3, <1>4, <1>5, <1>6, <1>7

LEMMA TrackerStep ==
    ASSUME M!MirrorConstants, MirrorInv, NEW new \in Root \cup {None}, M!Tracker(new), UNCHANGED require
    PROVE  MirrorInv'
<1> USE DEF M!MirrorConstants, MirrorInv
<1>1. MirrorType'
  BY DEF MirrorType, Working, ThreadSound, M!Tracker, M!files, M!locks, M!memory, M!threads
<1>2. ProcSound'
  BY DEF MirrorType, Working, ProcSound, ThreadSound, M!Tracker, M!files, M!locks, M!memory,
     M!threads
<1>3. ThreadSound'
  BY DEF MirrorType, Working, ProcSound, ThreadSound, M!Tracker, M!files, M!locks, M!memory,
     M!threads
<1>4. TruthSound'
  BY DEF MirrorType, Working, ProcSound, ThreadSound, TruthSound, M!Tracker, M!files, M!locks,
     M!memory, M!threads
<1>5. StrictSound'
  BY DEF MirrorType, Working, ProcSound, ThreadSound, LockSound, TruthSound, StrictSound,
     OneTruth, M!Tracker, M!files, M!locks, M!memory, M!threads
<1>6. LockSound'
  BY DEF MirrorType, Working, ProcSound, ThreadSound, LockSound, M!Tracker, M!files, M!locks,
     M!memory, M!threads
<1>7. BoundSound'
  BY DEF MirrorType, Working, ProcSound, ThreadSound, LockSound, TruthSound, StrictSound,
     OneTruth, BoundSound, Own, M!Tracker, M!files, M!locks, M!memory, M!threads
<1> QED BY <1>1, <1>2, <1>3, <1>4, <1>5, <1>6, <1>7

\* Without a required hash and without a truth: what a bit stands for is whole.

LEMMA OpenLoose ==
    ASSUME M!MirrorConstants, MirrorInv, LooseSound, M!OneVersion, NEW p \in Proc, M!Open(p), UNCHANGED require
    PROVE  LooseSound'
<1> USE DEF M!MirrorConstants, MirrorInv
<1> SUFFICES ASSUME ~require', adopted' = {}
             PROVE  /\ stable' \subseteq bits'
                    /\ \A x \in bits' : disk'[x] \in Whole /\ durable'[x] \in Whole
                    /\ LooseMemory' /\ LooseWriters'
  BY DEF LooseSound
<1>1. stable' \subseteq bits' /\ \A x \in bits' : disk'[x] \in Whole /\ durable'[x] \in Whole
  BY DEF MirrorType, Working, ProcSound, ThreadSound, TruthSound, LooseSound, LooseMemory,
     LooseWriters, Whole, M!Open, M!Differs, M!To, M!Exclusive, M!files, M!locks, M!memory, M!threads
<1>2. LooseMemory'
  BY DEF MirrorType, Working, ProcSound, ThreadSound, TruthSound, LooseSound, LooseMemory,
     LooseWriters, Whole, Marked, M!OneVersion, M!Open, M!Differs, M!To, M!Exclusive, M!files, M!locks,
     M!memory, M!threads
<1>3. LooseWriters'
  BY DEF MirrorType, Working, ProcSound, ThreadSound, TruthSound, LooseSound, LooseMemory,
     LooseWriters, Whole, Marked, M!OneVersion, M!Open, M!Differs, M!To, M!Exclusive, M!files, M!locks,
     M!memory, M!threads
<1> QED BY <1>1, <1>2, <1>3

LEMMA ElectLoose ==
    ASSUME M!MirrorConstants, MirrorInv, LooseSound, M!OneVersion, NEW p \in Proc, M!Elect(p), UNCHANGED require
    PROVE  LooseSound'
<1> USE DEF M!MirrorConstants, MirrorInv
<1> SUFFICES ASSUME ~require', adopted' = {}
             PROVE  /\ stable' \subseteq bits'
                    /\ \A x \in bits' : disk'[x] \in Whole /\ durable'[x] \in Whole
                    /\ LooseMemory' /\ LooseWriters'
  BY DEF LooseSound
<1>1. stable' \subseteq bits' /\ \A x \in bits' : disk'[x] \in Whole /\ durable'[x] \in Whole
  BY DEF MirrorType, Working, ProcSound, ThreadSound, TruthSound, LooseSound, LooseMemory,
     LooseWriters, Whole, M!Elect, M!Differs, M!To, M!Exclusive, M!files, M!locks, M!memory, M!threads
<1>2. LooseMemory'
  BY DEF MirrorType, Working, ProcSound, ThreadSound, TruthSound, LooseSound, LooseMemory,
     LooseWriters, Whole, Marked, M!OneVersion, M!Elect, M!Differs, M!To, M!Exclusive, M!files, M!locks,
     M!memory, M!threads
<1>3. LooseWriters'
  BY DEF MirrorType, Working, ProcSound, ThreadSound, TruthSound, LooseSound, LooseMemory,
     LooseWriters, Whole, Marked, M!OneVersion, M!Elect, M!Differs, M!To, M!Exclusive, M!files, M!locks,
     M!memory, M!threads
<1> QED BY <1>1, <1>2, <1>3

LEMMA ReleaseLoose ==
    ASSUME M!MirrorConstants, MirrorInv, LooseSound, M!OneVersion, NEW p \in Proc, M!Release(p), UNCHANGED require
    PROVE  LooseSound'
<1> USE DEF M!MirrorConstants, MirrorInv
<1> SUFFICES ASSUME ~require', adopted' = {}
             PROVE  /\ stable' \subseteq bits'
                    /\ \A x \in bits' : disk'[x] \in Whole /\ durable'[x] \in Whole
                    /\ LooseMemory' /\ LooseWriters'
  BY DEF LooseSound
<1>1. stable' \subseteq bits' /\ \A x \in bits' : disk'[x] \in Whole /\ durable'[x] \in Whole
  BY DEF MirrorType, Working, ProcSound, ThreadSound, TruthSound, LooseSound, LooseMemory,
     LooseWriters, Whole, M!Release, M!files, M!locks, M!memory, M!threads
<1>2. LooseMemory'
  BY DEF MirrorType, Working, ProcSound, ThreadSound, TruthSound, LooseSound, LooseMemory,
     LooseWriters, Whole, Marked, M!OneVersion, M!Release, M!files, M!locks, M!memory, M!threads
<1>3. LooseWriters'
  BY DEF MirrorType, Working, ProcSound, ThreadSound, TruthSound, LooseSound, LooseMemory,
     LooseWriters, Whole, Marked, M!OneVersion, M!Release, M!files, M!locks, M!memory, M!threads
<1> QED BY <1>1, <1>2, <1>3

LEMMA UpgradeLoose ==
    ASSUME M!MirrorConstants, MirrorInv, LooseSound, M!OneVersion, NEW p \in Proc, M!Upgrade(p), UNCHANGED require
    PROVE  LooseSound'
<1> USE DEF M!MirrorConstants, MirrorInv
<1> SUFFICES ASSUME ~require', adopted' = {}
             PROVE  /\ stable' \subseteq bits'
                    /\ \A x \in bits' : disk'[x] \in Whole /\ durable'[x] \in Whole
                    /\ LooseMemory' /\ LooseWriters'
  BY DEF LooseSound
<1>1. stable' \subseteq bits' /\ \A x \in bits' : disk'[x] \in Whole /\ durable'[x] \in Whole
  BY DEF MirrorType, Working, ProcSound, ThreadSound, TruthSound, LooseSound, LooseMemory,
     LooseWriters, Whole, M!Upgrade, M!To, M!Exclusive, M!files, M!locks, M!memory, M!threads
<1>2. LooseMemory'
  BY DEF MirrorType, Working, ProcSound, ThreadSound, TruthSound, LooseSound, LooseMemory,
     LooseWriters, Whole, Marked, M!OneVersion, M!Upgrade, M!To, M!Exclusive, M!files, M!locks,
     M!memory, M!threads
<1>3. LooseWriters'
  BY DEF MirrorType, Working, ProcSound, ThreadSound, TruthSound, LooseSound, LooseMemory,
     LooseWriters, Whole, Marked, M!OneVersion, M!Upgrade, M!To, M!Exclusive, M!files, M!locks,
     M!memory, M!threads
<1> QED BY <1>1, <1>2, <1>3

LEMMA SaveIdentityLoose ==
    ASSUME M!MirrorConstants, MirrorInv, LooseSound, M!OneVersion, NEW p \in Proc, M!SaveIdentity(p), UNCHANGED require
    PROVE  LooseSound'
<1> USE DEF M!MirrorConstants, MirrorInv
<1> SUFFICES ASSUME ~require', adopted' = {}
             PROVE  /\ stable' \subseteq bits'
                    /\ \A x \in bits' : disk'[x] \in Whole /\ durable'[x] \in Whole
                    /\ LooseMemory' /\ LooseWriters'
  BY DEF LooseSound
<1>1. stable' \subseteq bits' /\ \A x \in bits' : disk'[x] \in Whole /\ durable'[x] \in Whole
  BY DEF MirrorType, Working, ProcSound, ThreadSound, TruthSound, LooseSound, LooseMemory,
     LooseWriters, Whole, M!SaveIdentity, M!To, M!files, M!locks, M!memory, M!threads
<1>2. LooseMemory'
  BY DEF MirrorType, Working, ProcSound, ThreadSound, TruthSound, LooseSound, LooseMemory,
     LooseWriters, Whole, Marked, M!OneVersion, M!SaveIdentity, M!To, M!files, M!locks, M!memory,
     M!threads
<1>3. LooseWriters'
  BY DEF MirrorType, Working, ProcSound, ThreadSound, TruthSound, LooseSound, LooseMemory,
     LooseWriters, Whole, Marked, M!OneVersion, M!SaveIdentity, M!To, M!files, M!locks, M!memory,
     M!threads
<1> QED BY <1>1, <1>2, <1>3

LEMMA UpLoose ==
    ASSUME M!MirrorConstants, MirrorInv, LooseSound, M!OneVersion, NEW p \in Proc, M!Up(p), UNCHANGED require
    PROVE  LooseSound'
<1> USE DEF M!MirrorConstants, MirrorInv
<1> SUFFICES ASSUME ~require', adopted' = {}
             PROVE  /\ stable' \subseteq bits'
                    /\ \A x \in bits' : disk'[x] \in Whole /\ durable'[x] \in Whole
                    /\ LooseMemory' /\ LooseWriters'
  BY DEF LooseSound
<1>1. stable' \subseteq bits' /\ \A x \in bits' : disk'[x] \in Whole /\ durable'[x] \in Whole
  BY DEF MirrorType, Working, ProcSound, ThreadSound, TruthSound, LooseSound, LooseMemory,
     LooseWriters, Whole, M!Up, M!To, M!files, M!locks, M!memory, M!threads
<1>2. LooseMemory'
  BY DEF MirrorType, Working, ProcSound, ThreadSound, TruthSound, LooseSound, LooseMemory,
     LooseWriters, Whole, Marked, M!OneVersion, M!Up, M!To, M!files, M!locks, M!memory, M!threads
<1>3. LooseWriters'
  BY DEF MirrorType, Working, ProcSound, ThreadSound, TruthSound, LooseSound, LooseMemory,
     LooseWriters, Whole, Marked, M!OneVersion, M!Up, M!To, M!files, M!locks, M!memory, M!threads
<1> QED BY <1>1, <1>2, <1>3

LEMMA SnapshotLoose ==
    ASSUME M!MirrorConstants, MirrorInv, LooseSound, M!OneVersion, NEW p \in Proc, M!Snapshot(p), UNCHANGED require
    PROVE  LooseSound'
<1> USE DEF M!MirrorConstants, MirrorInv
<1> SUFFICES ASSUME ~require', adopted' = {}
             PROVE  /\ stable' \subseteq bits'
                    /\ \A x \in bits' : disk'[x] \in Whole /\ durable'[x] \in Whole
                    /\ LooseMemory' /\ LooseWriters'
  BY DEF LooseSound
<1>1. stable' \subseteq bits' /\ \A x \in bits' : disk'[x] \in Whole /\ durable'[x] \in Whole
  BY DEF MirrorType, Working, ProcSound, ThreadSound, TruthSound, LooseSound, LooseMemory,
     LooseWriters, Whole, M!Snapshot, M!files, M!locks, M!memory, M!threads
<1>2. LooseMemory'
  BY DEF MirrorType, Working, ProcSound, ThreadSound, TruthSound, LooseSound, LooseMemory,
     LooseWriters, Whole, Marked, M!OneVersion, M!Snapshot, M!files, M!locks, M!memory, M!threads
<1>3. LooseWriters'
  BY DEF MirrorType, Working, ProcSound, ThreadSound, TruthSound, LooseSound, LooseMemory,
     LooseWriters, Whole, Marked, M!OneVersion, M!Snapshot, M!files, M!locks, M!memory, M!threads
<1> QED BY <1>1, <1>2, <1>3

LEMMA SyncDataLoose ==
    ASSUME M!MirrorConstants, MirrorInv, LooseSound, M!OneVersion, NEW p \in Proc, M!SyncData(p), UNCHANGED require
    PROVE  LooseSound'
<1> USE DEF M!MirrorConstants, MirrorInv
<1> SUFFICES ASSUME ~require', adopted' = {}
             PROVE  /\ stable' \subseteq bits'
                    /\ \A x \in bits' : disk'[x] \in Whole /\ durable'[x] \in Whole
                    /\ LooseMemory' /\ LooseWriters'
  BY DEF LooseSound
<1>1. stable' \subseteq bits' /\ \A x \in bits' : disk'[x] \in Whole /\ durable'[x] \in Whole
  BY DEF MirrorType, Working, ProcSound, ThreadSound, TruthSound, LooseSound, LooseMemory,
     LooseWriters, Whole, M!SyncData, M!Synced, M!Locked, M!files, M!locks, M!memory, M!threads
<1>2. LooseMemory'
  BY DEF MirrorType, Working, ProcSound, ThreadSound, TruthSound, LooseSound, LooseMemory,
     LooseWriters, Whole, Marked, M!OneVersion, M!SyncData, M!Synced, M!Locked, M!files, M!locks,
     M!memory, M!threads
<1>3. LooseWriters'
  BY DEF MirrorType, Working, ProcSound, ThreadSound, TruthSound, LooseSound, LooseMemory,
     LooseWriters, Whole, Marked, M!OneVersion, M!SyncData, M!Synced, M!Locked, M!files, M!locks,
     M!memory, M!threads
<1> QED BY <1>1, <1>2, <1>3

LEMMA MergeLoose ==
    ASSUME M!MirrorConstants, MirrorInv, LooseSound, M!OneVersion, NEW p \in Proc, M!Merge(p), UNCHANGED require
    PROVE  LooseSound'
<1> USE DEF M!MirrorConstants, MirrorInv
<1> SUFFICES ASSUME ~require', adopted' = {}
             PROVE  /\ stable' \subseteq bits'
                    /\ \A x \in bits' : disk'[x] \in Whole /\ durable'[x] \in Whole
                    /\ LooseMemory' /\ LooseWriters'
  BY DEF LooseSound
<1>1. stable' \subseteq bits' /\ \A x \in bits' : disk'[x] \in Whole /\ durable'[x] \in Whole
  BY DEF MirrorType, Working, ProcSound, ThreadSound, TruthSound, LooseSound, LooseMemory,
     LooseWriters, Whole, M!Merge, M!files, M!locks, M!memory, M!threads
<1>2. LooseMemory'
  BY DEF MirrorType, Working, ProcSound, ThreadSound, TruthSound, LooseSound, LooseMemory,
     LooseWriters, Whole, Marked, M!OneVersion, M!Merge, M!files, M!locks, M!memory, M!threads
<1>3. LooseWriters'
  BY DEF MirrorType, Working, ProcSound, ThreadSound, TruthSound, LooseSound, LooseMemory,
     LooseWriters, Whole, Marked, M!OneVersion, M!Merge, M!files, M!locks, M!memory, M!threads
<1> QED BY <1>1, <1>2, <1>3

LEMMA FlushLoose ==
    ASSUME M!MirrorConstants, MirrorInv, LooseSound, M!OneVersion, NEW p \in Proc, M!Flush(p), UNCHANGED require
    PROVE  LooseSound'
<1> USE DEF M!MirrorConstants, MirrorInv
<1> SUFFICES ASSUME ~require', adopted' = {}
             PROVE  /\ stable' \subseteq bits'
                    /\ \A x \in bits' : disk'[x] \in Whole /\ durable'[x] \in Whole
                    /\ LooseMemory' /\ LooseWriters'
  BY DEF LooseSound
<1>1. stable' \subseteq bits' /\ \A x \in bits' : disk'[x] \in Whole /\ durable'[x] \in Whole
  BY DEF MirrorType, Working, ProcSound, ThreadSound, TruthSound, LooseSound, LooseMemory,
     LooseWriters, Whole, M!Flush, M!files, M!locks, M!memory, M!threads
<1>2. LooseMemory'
  BY DEF MirrorType, Working, ProcSound, ThreadSound, TruthSound, LooseSound, LooseMemory,
     LooseWriters, Whole, Marked, M!OneVersion, M!Flush, M!files, M!locks, M!memory, M!threads
<1>3. LooseWriters'
  BY DEF MirrorType, Working, ProcSound, ThreadSound, TruthSound, LooseSound, LooseMemory,
     LooseWriters, Whole, Marked, M!OneVersion, M!Flush, M!files, M!locks, M!memory, M!threads
<1> QED BY <1>1, <1>2, <1>3

LEMMA ExitLoose ==
    ASSUME M!MirrorConstants, MirrorInv, LooseSound, M!OneVersion, NEW p \in Proc, M!Exit(p), UNCHANGED require
    PROVE  LooseSound'
<1> USE DEF M!MirrorConstants, MirrorInv
<1> SUFFICES ASSUME ~require', adopted' = {}
             PROVE  /\ stable' \subseteq bits'
                    /\ \A x \in bits' : disk'[x] \in Whole /\ durable'[x] \in Whole
                    /\ LooseMemory' /\ LooseWriters'
  BY DEF LooseSound
<1>1. stable' \subseteq bits' /\ \A x \in bits' : disk'[x] \in Whole /\ durable'[x] \in Whole
  BY DEF MirrorType, Working, ProcSound, ThreadSound, TruthSound, LooseSound, LooseMemory,
     LooseWriters, Whole, M!Exit, M!Gone, M!Fresh, M!files, M!locks, M!memory, M!threads
<1>2. LooseMemory'
  BY DEF MirrorType, Working, ProcSound, ThreadSound, TruthSound, LooseSound, LooseMemory,
     LooseWriters, Whole, Marked, M!OneVersion, M!Exit, M!Gone, M!Fresh, M!files, M!locks,
     M!memory, M!threads
<1>3. LooseWriters'
  BY DEF MirrorType, Working, ProcSound, ThreadSound, TruthSound, LooseSound, LooseMemory,
     LooseWriters, Whole, Marked, M!OneVersion, M!Exit, M!Gone, M!Fresh, M!files, M!locks,
     M!memory, M!threads
<1> QED BY <1>1, <1>2, <1>3

LEMMA EnterLoose ==
    ASSUME M!MirrorConstants, MirrorInv, LooseSound, M!OneVersion, NEW t \in Thread, NEW b \in Block, M!Enter(t, b), UNCHANGED require
    PROVE  LooseSound'
<1> USE DEF M!MirrorConstants, MirrorInv
<1> SUFFICES ASSUME ~require', adopted' = {}
             PROVE  /\ stable' \subseteq bits'
                    /\ \A x \in bits' : disk'[x] \in Whole /\ durable'[x] \in Whole
                    /\ LooseMemory' /\ LooseWriters'
  BY DEF LooseSound
<1>1. stable' \subseteq bits' /\ \A x \in bits' : disk'[x] \in Whole /\ durable'[x] \in Whole
  BY DEF MirrorType, Working, ProcSound, ThreadSound, TruthSound, LooseSound, LooseMemory,
     LooseWriters, Whole, M!Enter, M!files, M!locks, M!memory, M!threads
<1>2. LooseMemory'
  BY DEF MirrorType, Working, ProcSound, ThreadSound, TruthSound, LooseSound, LooseMemory,
     LooseWriters, Whole, Marked, M!OneVersion, M!Enter, M!files, M!locks, M!memory, M!threads
<1>3. LooseWriters'
  BY DEF MirrorType, Working, ProcSound, ThreadSound, TruthSound, LooseSound, LooseMemory,
     LooseWriters, Whole, Marked, M!OneVersion, M!Enter, M!files, M!locks, M!memory, M!threads
<1> QED BY <1>1, <1>2, <1>3

LEMMA hashes_ensureLoose ==
    ASSUME M!MirrorConstants, MirrorInv, LooseSound, M!OneVersion, NEW t \in Thread, M!hashes_ensure(t), UNCHANGED require
    PROVE  LooseSound'
<1> USE DEF M!MirrorConstants, MirrorInv
<1> SUFFICES ASSUME ~require', adopted' = {}
             PROVE  /\ stable' \subseteq bits'
                    /\ \A x \in bits' : disk'[x] \in Whole /\ durable'[x] \in Whole
                    /\ LooseMemory' /\ LooseWriters'
  BY DEF LooseSound
<1>1. stable' \subseteq bits' /\ \A x \in bits' : disk'[x] \in Whole /\ durable'[x] \in Whole
  BY DEF MirrorType, Working, ProcSound, ThreadSound, TruthSound, LooseSound, LooseMemory,
     LooseWriters, Whole, M!hashes_ensure, M!truth_load, M!truth_save, M!files, M!locks, M!memory, M!threads
<1>2. LooseMemory'
  BY DEF MirrorType, Working, ProcSound, ThreadSound, TruthSound, LooseSound, LooseMemory,
     LooseWriters, Whole, Marked, M!OneVersion, M!hashes_ensure, M!truth_load, M!truth_save, M!files, M!locks, M!memory,
     M!threads
<1>3. LooseWriters'
  BY DEF MirrorType, Working, ProcSound, ThreadSound, TruthSound, LooseSound, LooseMemory,
     LooseWriters, Whole, Marked, M!OneVersion, M!hashes_ensure, M!truth_load, M!truth_save, M!files, M!locks, M!memory,
     M!threads
<1> QED BY <1>1, <1>2, <1>3

LEMMA LocalLoose ==
    ASSUME M!MirrorConstants, MirrorInv, LooseSound, M!OneVersion, NEW t \in Thread, M!Local(t), UNCHANGED require
    PROVE  LooseSound'
<1> USE DEF M!MirrorConstants, MirrorInv
<1> SUFFICES ASSUME ~require', adopted' = {}
             PROVE  /\ stable' \subseteq bits'
                    /\ \A x \in bits' : disk'[x] \in Whole /\ durable'[x] \in Whole
                    /\ LooseMemory' /\ LooseWriters'
  BY DEF LooseSound
<1>1. stable' \subseteq bits' /\ \A x \in bits' : disk'[x] \in Whole /\ durable'[x] \in Whole
  BY DEF MirrorType, Working, ProcSound, ThreadSound, TruthSound, LooseSound, LooseMemory,
     LooseWriters, Whole, M!Local, M!Trusted, M!files, M!locks, M!memory, M!threads
<1>2. LooseMemory'
  <2> DEFINE p == ProcOf[t]
             b == block[t]
  <2>0. /\ at[t] = "local"
        /\ UNCHANGED <<disk, durable, stable, side, adopted, snap, commit>>
    BY DEF M!Local, M!locks
  <2>8. p \in Proc /\ b \in Block /\ hash[p] \in Root \cup {None}
    BY <2>0 DEF MirrorType, ThreadSound
  <2>9. hash[p] \notin Root
    BY <2>0, <2>8 DEF TruthSound
  <2>1. /\ at[t] = "local" /\ p \in Proc /\ b \in Block /\ hash[p] = None
        /\ UNCHANGED <<disk, durable, stable, side, adopted, snap, commit>>
    BY <2>0, <2>8, <2>9
  <2>2. bits' = bits /\ map' = map
    BY <2>1 DEF M!Local
  <2>3. \/ verified' = verified
        \/ verified' = [verified EXCEPT ![p] = @ \cup {b}] /\ b \in map[p]
    BY <2>1 DEF M!Local, M!Trusted
  <2>4. b \in map[p] => b \in bits \/ disk[b] \in Root
    BY <2>1 DEF LooseSound, LooseMemory
  <2> HIDE DEF p, b
  <2>5. \A q \in Proc : /\ verified[q] \subseteq verified'[q]
                        /\ \A x \in verified'[q] : x \in verified[q] \/ (q = p /\ x = b /\ b \in map[p])
    BY <2>1, <2>3 DEF MirrorType
  <2> QED BY <2>1, <2>2, <2>4, <2>5 DEF LooseSound, LooseMemory
<1>3. LooseWriters'
  BY DEF MirrorType, Working, ProcSound, ThreadSound, TruthSound, LooseSound, LooseMemory,
     LooseWriters, Whole, Marked, M!OneVersion, M!Local, M!Trusted, M!files, M!locks, M!memory,
     M!threads
<1> QED BY <1>1, <1>2, <1>3

LEMMA FetchLoose ==
    ASSUME M!MirrorConstants, MirrorInv, LooseSound, M!OneVersion, NEW t \in Thread, M!Fetch(t), UNCHANGED require
    PROVE  LooseSound'
<1> USE DEF M!MirrorConstants, MirrorInv
<1> SUFFICES ASSUME ~require', adopted' = {}
             PROVE  /\ stable' \subseteq bits'
                    /\ \A x \in bits' : disk'[x] \in Whole /\ durable'[x] \in Whole
                    /\ LooseMemory' /\ LooseWriters'
  BY DEF LooseSound
<1>1. stable' \subseteq bits' /\ \A x \in bits' : disk'[x] \in Whole /\ durable'[x] \in Whole
  BY DEF MirrorType, Working, ProcSound, ThreadSound, TruthSound, LooseSound, LooseMemory,
     LooseWriters, Whole, M!Fetch, M!FromStore, M!FromPeers, M!files, M!locks, M!memory, M!threads
<1>2. LooseMemory'
  BY DEF MirrorType, Working, ProcSound, ThreadSound, TruthSound, LooseSound, LooseMemory,
     LooseWriters, Whole, Marked, M!OneVersion, M!Fetch, M!FromStore, M!FromPeers, M!files,
     M!locks, M!memory, M!threads
<1>3. LooseWriters'
  BY DEF MirrorType, Working, ProcSound, ThreadSound, TruthSound, LooseSound, LooseMemory,
     LooseWriters, Whole, Marked, M!OneVersion, M!Fetch, M!FromStore, M!FromPeers, M!files,
     M!locks, M!memory, M!threads
<1> QED BY <1>1, <1>2, <1>3

LEMMA WriteLoose ==
    ASSUME M!MirrorConstants, MirrorInv, LooseSound, M!OneVersion, NEW t \in Thread, M!Write(t), UNCHANGED require
    PROVE  LooseSound'
<1> USE DEF M!MirrorConstants, MirrorInv
<1> SUFFICES ASSUME ~require', adopted' = {}
             PROVE  /\ stable' \subseteq bits'
                    /\ \A x \in bits' : disk'[x] \in Whole /\ durable'[x] \in Whole
                    /\ LooseMemory' /\ LooseWriters'
  BY DEF LooseSound
<1>1. stable' \subseteq bits' /\ \A x \in bits' : disk'[x] \in Whole /\ durable'[x] \in Whole
  <2>1. /\ at[t] \in {"write", "written"} /\ data[t] \in Root /\ block[t] \in Block
        /\ block[t] \notin map[ProcOf[t]]
    BY DEF MirrorType, ThreadSound, LooseSound, LooseWriters, M!Write, M!files, M!locks
  <2>2. UNCHANGED <<stable, bits, durable>>
    BY DEF M!Write
  <2>3. block[t] \in bits => disk[block[t]] = data[t]
    BY <2>1 DEF LooseSound, LooseWriters, Marked, M!OneVersion, M!Write
  <2>4. \A x \in bits : disk'[x] = disk[x]
    BY <2>1, <2>3 DEF MirrorType, M!Write
  <2> QED BY <2>2, <2>4 DEF LooseSound, M!Write
<1>2. LooseMemory'
  BY DEF MirrorType, Working, ProcSound, ThreadSound, TruthSound, LooseSound, LooseMemory,
     LooseWriters, Whole, Marked, M!OneVersion, M!Write, M!files, M!locks, M!memory, M!threads
<1>3. LooseWriters'
  BY DEF MirrorType, Working, ProcSound, ThreadSound, TruthSound, LooseSound, LooseMemory,
     LooseWriters, Whole, Marked, M!OneVersion, M!Write, M!files, M!locks, M!memory, M!threads
<1> QED BY <1>1, <1>2, <1>3

LEMMA WriteFailsLoose ==
    ASSUME M!MirrorConstants, MirrorInv, LooseSound, M!OneVersion, NEW t \in Thread, M!WriteFails(t), UNCHANGED require
    PROVE  LooseSound'
<1> USE DEF M!MirrorConstants, MirrorInv
<1> SUFFICES ASSUME ~require', adopted' = {}
             PROVE  /\ stable' \subseteq bits'
                    /\ \A x \in bits' : disk'[x] \in Whole /\ durable'[x] \in Whole
                    /\ LooseMemory' /\ LooseWriters'
  BY DEF LooseSound
<1>1. stable' \subseteq bits' /\ \A x \in bits' : disk'[x] \in Whole /\ durable'[x] \in Whole
  BY DEF MirrorType, Working, ProcSound, ThreadSound, TruthSound, LooseSound, LooseMemory,
     LooseWriters, Whole, M!WriteFails, M!files, M!locks, M!memory, M!threads
<1>2. LooseMemory'
  BY DEF MirrorType, Working, ProcSound, ThreadSound, TruthSound, LooseSound, LooseMemory,
     LooseWriters, Whole, Marked, M!OneVersion, M!WriteFails, M!files, M!locks, M!memory, M!threads
<1>3. LooseWriters'
  BY DEF MirrorType, Working, ProcSound, ThreadSound, TruthSound, LooseSound, LooseMemory,
     LooseWriters, Whole, Marked, M!OneVersion, M!WriteFails, M!files, M!locks, M!memory, M!threads
<1> QED BY <1>1, <1>2, <1>3

LEMMA FinishLoose ==
    ASSUME M!MirrorConstants, MirrorInv, LooseSound, M!OneVersion, NEW t \in Thread, M!Finish(t), UNCHANGED require
    PROVE  LooseSound'
<1> USE DEF M!MirrorConstants, MirrorInv
<1> SUFFICES ASSUME ~require', adopted' = {}
             PROVE  /\ stable' \subseteq bits'
                    /\ \A x \in bits' : disk'[x] \in Whole /\ durable'[x] \in Whole
                    /\ LooseMemory' /\ LooseWriters'
  BY DEF LooseSound
<1>1. stable' \subseteq bits' /\ \A x \in bits' : disk'[x] \in Whole /\ durable'[x] \in Whole
  BY DEF MirrorType, Working, ProcSound, ThreadSound, TruthSound, LooseSound, LooseMemory,
     LooseWriters, Whole, M!Finish, M!files, M!locks, M!memory, M!threads
<1>2. LooseMemory'
  BY DEF MirrorType, Working, ProcSound, ThreadSound, TruthSound, LooseSound, LooseMemory,
     LooseWriters, Whole, Marked, M!OneVersion, M!Finish, M!files, M!locks, M!memory, M!threads
<1>3. LooseWriters'
  BY DEF MirrorType, Working, ProcSound, ThreadSound, TruthSound, LooseSound, LooseMemory,
     LooseWriters, Whole, Marked, M!OneVersion, M!Finish, M!files, M!locks, M!memory, M!threads
<1> QED BY <1>1, <1>2, <1>3

LEMMA PowerLossLoose ==
    ASSUME M!MirrorConstants, MirrorInv, LooseSound, M!OneVersion, M!PowerLoss, UNCHANGED require
    PROVE  LooseSound'
<1> USE DEF M!MirrorConstants, MirrorInv
<1> SUFFICES ASSUME ~require', adopted' = {}
             PROVE  /\ stable' \subseteq bits'
                    /\ \A x \in bits' : disk'[x] \in Whole /\ durable'[x] \in Whole
                    /\ LooseMemory' /\ LooseWriters'
  BY DEF LooseSound
<1>1. stable' \subseteq bits' /\ \A x \in bits' : disk'[x] \in Whole /\ durable'[x] \in Whole
  BY DEF MirrorType, Working, ProcSound, ThreadSound, TruthSound, LooseSound, LooseMemory,
     LooseWriters, Whole, M!PowerLoss, M!Gone, M!Fresh, M!files, M!locks, M!memory, M!threads
<1>2. LooseMemory'
  BY DEF MirrorType, Working, ProcSound, ThreadSound, TruthSound, LooseSound, LooseMemory,
     LooseWriters, Whole, Marked, M!OneVersion, M!PowerLoss, M!Gone, M!Fresh, M!files, M!locks,
     M!memory, M!threads
<1>3. LooseWriters'
  BY DEF MirrorType, Working, ProcSound, ThreadSound, TruthSound, LooseSound, LooseMemory,
     LooseWriters, Whole, Marked, M!OneVersion, M!PowerLoss, M!Gone, M!Fresh, M!files, M!locks,
     M!memory, M!threads
<1> QED BY <1>1, <1>2, <1>3

LEMMA RotLoose ==
    ASSUME M!MirrorConstants, MirrorInv, LooseSound, M!OneVersion, NEW b \in Block, M!Rot(b), UNCHANGED require
    PROVE  LooseSound'
<1> USE DEF M!MirrorConstants, MirrorInv
<1> SUFFICES ASSUME ~require', adopted' = {}
             PROVE  /\ stable' \subseteq bits'
                    /\ \A x \in bits' : disk'[x] \in Whole /\ durable'[x] \in Whole
                    /\ LooseMemory' /\ LooseWriters'
  BY DEF LooseSound
<1>1. stable' \subseteq bits' /\ \A x \in bits' : disk'[x] \in Whole /\ durable'[x] \in Whole
  BY DEF MirrorType, Working, ProcSound, ThreadSound, TruthSound, LooseSound, LooseMemory,
     LooseWriters, Whole, M!Rot, M!files, M!locks, M!memory, M!threads
<1>2. LooseMemory'
  BY DEF MirrorType, Working, ProcSound, ThreadSound, TruthSound, LooseSound, LooseMemory,
     LooseWriters, Whole, Marked, M!OneVersion, M!Rot, M!files, M!locks, M!memory, M!threads
<1>3. LooseWriters'
  BY DEF MirrorType, Working, ProcSound, ThreadSound, TruthSound, LooseSound, LooseMemory,
     LooseWriters, Whole, Marked, M!OneVersion, M!Rot, M!files, M!locks, M!memory, M!threads
<1> QED BY <1>1, <1>2, <1>3

LEMMA TrackerLoose ==
    ASSUME M!MirrorConstants, MirrorInv, LooseSound, M!OneVersion, NEW new \in Root \cup {None}, M!Tracker(new), UNCHANGED require
    PROVE  LooseSound'
<1> USE DEF M!MirrorConstants, MirrorInv
<1> SUFFICES ASSUME ~require', adopted' = {}
             PROVE  /\ stable' \subseteq bits'
                    /\ \A x \in bits' : disk'[x] \in Whole /\ durable'[x] \in Whole
                    /\ LooseMemory' /\ LooseWriters'
  BY DEF LooseSound
<1>1. stable' \subseteq bits' /\ \A x \in bits' : disk'[x] \in Whole /\ durable'[x] \in Whole
  BY DEF MirrorType, Working, ProcSound, ThreadSound, TruthSound, LooseSound, LooseMemory,
     LooseWriters, Whole, M!Tracker, M!files, M!locks, M!memory, M!threads
<1>2. LooseMemory'
  BY DEF MirrorType, Working, ProcSound, ThreadSound, TruthSound, LooseSound, LooseMemory,
     LooseWriters, Whole, Marked, M!OneVersion, M!Tracker, M!files, M!locks, M!memory, M!threads
<1>3. LooseWriters'
  BY DEF MirrorType, Working, ProcSound, ThreadSound, TruthSound, LooseSound, LooseMemory,
     LooseWriters, Whole, Marked, M!OneVersion, M!Tracker, M!files, M!locks, M!memory, M!threads
<1> QED BY <1>1, <1>2, <1>3

\* The steps of all actions together.
LEMMA MirrorNext ==
    ASSUME M!MirrorConstants, MirrorInv, [M!Next]_(M!vars)
    PROVE  MirrorInv'
<1>1. CASE UNCHANGED M!vars
  BY <1>1 DEF M!vars, M!files, M!locks, M!memory, M!threads, MirrorInv, MirrorType, ProcSound,
              LockSound, ThreadSound, TruthSound, StrictSound, OneTruth, BoundSound, Own, LooseSound,
              LooseMemory, LooseWriters, Marked
<1>2. ASSUME NEW p \in Proc,
             M!Open(p) \/ M!Elect(p) \/ M!Release(p) \/ M!Upgrade(p) \/ M!SaveIdentity(p) \/
             M!Up(p) \/ M!Snapshot(p) \/ M!SyncData(p) \/ M!Merge(p) \/ M!Flush(p) \/ M!Exit(p),
             UNCHANGED require
      PROVE  MirrorInv'
  BY <1>2, OpenStep, ElectStep, ReleaseStep, UpgradeStep, SaveIdentityStep, UpStep,
           SnapshotStep, SyncDataStep, MergeStep, FlushStep, ExitStep
<1>3. ASSUME NEW t \in Thread, NEW b \in Block, M!Enter(t, b), UNCHANGED require PROVE MirrorInv'
  BY <1>3, EnterStep
<1>4. ASSUME NEW t \in Thread,
             M!hashes_ensure(t) \/ M!Local(t) \/ M!Fetch(t) \/ M!Write(t) \/ M!WriteFails(t) \/
             M!Finish(t), UNCHANGED require
      PROVE  MirrorInv'
  BY <1>4, hashes_ensureStep, LocalStep, FetchStep, BlockWriteStep, WriteFailsStep, FinishStep
<1>5. CASE M!PowerLoss /\ UNCHANGED require
  BY <1>5, PowerLossStep
<1>6. ASSUME NEW b \in Block, M!Rot(b), UNCHANGED require PROVE MirrorInv'
  BY <1>6, RotStep
<1>7. ASSUME NEW new \in Root \cup {None}, M!Tracker(new), UNCHANGED require PROVE MirrorInv'
  BY <1>7, TrackerStep
<1> QED BY <1>1, <1>2, <1>3, <1>4, <1>5, <1>6, <1>7 DEF M!Next, M!Step

LEMMA LooseNext ==
    ASSUME M!MirrorConstants, MirrorInv, LooseSound, M!OneVersion, [M!Next]_(M!vars)
    PROVE  LooseSound'
<1>1. CASE UNCHANGED M!vars
  BY <1>1 DEF M!vars, M!files, M!locks, M!memory, M!threads, MirrorInv, MirrorType, ProcSound,
              LockSound, ThreadSound, TruthSound, StrictSound, OneTruth, BoundSound, Own, LooseSound,
              LooseMemory, LooseWriters, Marked
<1>2. ASSUME NEW p \in Proc,
             M!Open(p) \/ M!Elect(p) \/ M!Release(p) \/ M!Upgrade(p) \/ M!SaveIdentity(p) \/
             M!Up(p) \/ M!Snapshot(p) \/ M!SyncData(p) \/ M!Merge(p) \/ M!Flush(p) \/ M!Exit(p),
             UNCHANGED require
      PROVE  LooseSound'
  BY <1>2, OpenLoose, ElectLoose, ReleaseLoose, UpgradeLoose, SaveIdentityLoose, UpLoose,
           SnapshotLoose, SyncDataLoose, MergeLoose, FlushLoose, ExitLoose
<1>3. ASSUME NEW t \in Thread, NEW b \in Block, M!Enter(t, b), UNCHANGED require PROVE LooseSound'
  BY <1>3, EnterLoose
<1>4. ASSUME NEW t \in Thread,
             M!hashes_ensure(t) \/ M!Local(t) \/ M!Fetch(t) \/ M!Write(t) \/ M!WriteFails(t) \/
             M!Finish(t), UNCHANGED require
      PROVE  LooseSound'
  BY <1>4, hashes_ensureLoose, LocalLoose, FetchLoose, WriteLoose, WriteFailsLoose, FinishLoose
<1>5. CASE M!PowerLoss /\ UNCHANGED require
  BY <1>5, PowerLossLoose
<1>6. ASSUME NEW b \in Block, M!Rot(b), UNCHANGED require PROVE LooseSound'
  BY <1>6, RotLoose
<1>7. ASSUME NEW new \in Root \cup {None}, M!Tracker(new), UNCHANGED require PROVE LooseSound'
  BY <1>7, TrackerLoose
<1> QED BY <1>1, <1>2, <1>3, <1>4, <1>5, <1>6, <1>7 DEF M!Next, M!Step

LEMMA MirrorInit == M!MirrorConstants /\ M!Init => MirrorInv /\ LooseSound
<1> SUFFICES ASSUME M!MirrorConstants, M!Init PROVE MirrorInv /\ LooseSound
  OBVIOUS
<1> USE DEF M!Init, M!MirrorConstants
<1>1. MirrorType
  BY DEF MirrorType, Working
<1>2. ProcSound /\ LockSound /\ ThreadSound /\ TruthSound /\ StrictSound /\ BoundSound
  BY DEF ProcSound, LockSound, ThreadSound, TruthSound, StrictSound, BoundSound
<1>3. LooseSound
  BY DEF LooseSound, LooseMemory, LooseWriters
<1> QED BY <1>1, <1>2, <1>3 DEF MirrorInv

\* What the invariant says of served bytes, identities and marked blocks.
LEMMA MirrorPromises ==
    ASSUME M!MirrorConstants, MirrorInv
    PROVE  M!ServedIsTrue /\ M!OneIdentity /\ M!BoundToIdentity
<1> USE DEF M!MirrorConstants, MirrorInv
<1>1. M!ServedIsTrue
  BY DEF MirrorType, StrictSound, OneTruth, M!ServedIsTrue
<1>2. M!OneIdentity
  BY DEF LockSound, M!OneIdentity, M!Exclusive
<1>3. M!BoundToIdentity
  BY DEF BoundSound, Own, M!BoundToIdentity, M!Bound
<1> QED BY <1>1, <1>2, <1>3

\* ensure_block: what a process has verified stays its truth when integrity is
\* required and nobody who shares the mirror took another truth, for any
\* processes, threads, faults, versions and changes of the tracker's mind.
THEOREM ServedIsTrueCorrect == ASSUME M!MirrorConstants PROVE M!Spec => []M!ServedIsTrue
<1>1. M!Init => MirrorInv
  BY MirrorInit
<1>2. MirrorInv /\ [M!Next]_(M!vars) => MirrorInv'
  BY MirrorNext
<1>3. MirrorInv => M!ServedIsTrue
  BY MirrorPromises
<1> QED BY <1>1, <1>2, <1>3, PTL DEF M!Spec

\* shim_init and mirror_commit_file: with integrity required, or with peers that
\* agree on one version, a durable bit stands for whole bytes, of the identity
\* saved beside it while no other truth was taken; and whatever the tracker
\* vouches for next, processes that share a mirror share its identity.
THEOREM MirrorCorrect ==
    ASSUME M!MirrorConstants
    PROVE  M!Spec /\ (require \/ M!OneVersion) => []MirrorSound
<1> DEFINE Inv == MirrorInv /\ (require \/ M!OneVersion) /\ (M!OneVersion => LooseSound)
<1>1. M!Init /\ (require \/ M!OneVersion) => Inv
  BY MirrorInit
<1>2. Inv /\ [M!Next]_(M!vars) => Inv'
  BY MirrorNext, LooseNext DEF M!Next, M!vars
<1>3. Inv => MirrorSound
  <2> SUFFICES ASSUME Inv PROVE M!ServedIsTrue /\ M!BitsAreWhole /\ M!OneIdentity /\ M!BoundToIdentity
    BY DEF MirrorSound, M!MirrorSound
  <2>1. adopted = {} => \A b \in stable \cup bits : durable[b] \notin {"zero", "torn"}
    <3>1. CASE require
      BY <3>1 DEF MirrorInv, StrictSound
    <3>2. CASE ~require
      BY <3>2 DEF LooseSound, Whole, M!MirrorConstants
    <3> QED BY <3>1, <3>2
  <2>2. \A b \in stable \cup (bits \ UNION {map[p] : p \in Proc}) : b \in stable \cup bits
    OBVIOUS
  <2>3. M!BitsAreWhole
    BY <2>1, <2>2, Zenon DEF M!BitsAreWhole
  <2> QED BY <2>3, MirrorPromises
<1> QED BY <1>1, <1>2, <1>3, PTL DEF M!Spec
------------------------------------------------------------------------------
(* Maintainers: the bytes, hashes and signatures of a served file.          *)

MaintainerType ==
    /\ content \in Version \cup {None} /\ stamp \in Nat
    /\ sha \in O!Sidecar \cup {None} /\ sig \in Version \cup {None}
    /\ swarm \in Version \cup {None} /\ got \in Version \cup {None}
    /\ kept \in O!HeldFile \cup {None}
    /\ read \in Version \cup {None} /\ sent \in Version \cup {None}
    /\ step \in {"off", "truth", "pull", "keep", "keepsig", "hash", "read", "stat", "cached",
                 "sign", "identity", "serve"}

\* A file on disk: only a donor lacks it, a sidecar with its stamp has its
\* hash, and a signature kept with such a sidecar is one of these bytes.
DiskSound ==
    /\ content = None => IsDonor /\ sha = None /\ sig = None /\ step \in {"off", "truth", "pull"}
    /\ sha # None => sha.stamp <= stamp
    /\ sha # None /\ sha.stamp = stamp => sha.of = content /\ (sig # None => sig = content)

\* A pull: the donor's file is absent until it is whole, and nobody edits it.
PullSound ==
    /\ step \in {"truth", "pull"} => IsDonor /\ content = None
    /\ step = "pull" => seen \in Version \cup {None}
    /\ step = "keep" => IsDonor /\ sha = None /\ sig = None /\ seen \in {None, content}
    /\ step = "keepsig" => IsDonor /\ kept.sig \in {None, content} /\ sig = None
    /\ step \in {"keepsig", "hash"} /\ kept.sig # None =>
          IsDonor /\ kept.sig = content /\ sha # None /\ sha.stamp = stamp

\* A hash: what is in memory for the present stamp is of the present bytes.
HashSound ==
    /\ step \notin {"off", "truth", "pull", "keep"} => kept # None /\ kept.stamp <= stamp
    /\ step \in {"read", "stat", "cached"} => seen = kept.stamp /\ (IsDonor => stamp = kept.stamp)
    /\ step \in {"read", "stat"} => sig = None /\ kept.sig = None
    /\ step = "stat" /\ stamp = seen => got = content
    /\ step \in {"cached", "sign"} => kept.hash # None /\ (sig # None => sig = kept.hash)
    /\ step = "cached" /\ kept.sig # None => IsDonor
    /\ step \in {"cached", "sign", "identity", "serve"} =>
          /\ kept.sig # None => kept.sig = kept.hash
          /\ kept.hash # None /\ kept.stamp = stamp => kept.hash = content
    /\ step \in {"cached", "stat", "read", "sign"} /\ sha # None => sha.stamp <= kept.stamp

\* A read: bytes in flight are the hashed ones as long as the stamp is.
ReadSound ==
    /\ step # "serve" => read = None /\ sent = None
    /\ step = "serve" =>
          /\ read # None /\ kept.stamp = stamp => read = content
          /\ sent # None /\ kept.hash # None => sent = kept.hash

MaintainerInv == MaintainerType /\ DiskSound /\ PullSound /\ HashSound /\ ReadSound

\* Every step of the maintainer, of the owner and of the tracker.
LEMMA MaintainerNext ==
    ASSUME O!MaintainerConstants, MaintainerInv, [O!Next]_(O!vars)
    PROVE  MaintainerInv'
<1> USE DEF O!MaintainerConstants, MaintainerInv, MaintainerType, DiskSound, PullSound, HashSound,
            ReadSound, O!Sidecar, O!HeldFile, O!disk, O!mem, O!read, O!Go
<1>1. CASE UNCHANGED O!vars
  BY <1>1 DEF O!vars
<1>2. ASSUME NEW v \in Version, O!Edit(v) PROVE MaintainerInv'
  BY <1>2 DEF O!Edit
<1>3. ASSUME NEW v \in Version \cup {None}, O!Swarm(v) PROVE MaintainerInv'
  BY <1>3 DEF O!Swarm
<1>4. CASE O!Crash
  BY <1>4 DEF O!Crash
<1>5. CASE O!scan_dir
  BY <1>5 DEF O!scan_dir, O!Blank
<1>6. CASE O!fetch_truth
  BY <1>6 DEF O!fetch_truth
<1>7. CASE O!pull_file
  BY <1>7 DEF O!pull_file
<1>8. CASE O!KeepTruth
  BY <1>8 DEF O!KeepTruth
<1>9. CASE O!KeepSig
  BY <1>9 DEF O!KeepSig
<1>10. CASE O!HashBegin
  <2>1. /\ step = "hash" /\ seen' = stamp /\ kept \in O!HeldFile
        /\ UNCHANGED <<content, stamp, sha, saved, swarm, root, got, fd, read, sent>>
    BY <1>10 DEF O!HashBegin
  <2>2. CASE sha # None /\ sha.stamp = stamp
    <3>1. /\ kept' = [kept EXCEPT !.stamp = stamp, !.hash = sha.of] /\ step' = "cached"
          /\ sig' = sig
      BY <1>10, <2>2 DEF O!HashBegin
    <3>2. /\ kept' \in O!HeldFile /\ kept'.stamp = stamp /\ kept'.hash = sha.of
          /\ kept'.sig = kept.sig
      BY <2>1, <2>2, <3>1
    <3> QED BY <2>1, <2>2, <3>1, <3>2
  <2>3. CASE ~(sha # None /\ sha.stamp = stamp)
    <3>1. /\ kept' = [kept EXCEPT !.stamp = stamp, !.hash = None, !.sig = None] /\ step' = "read"
          /\ sig' = None
      BY <1>10, <2>3 DEF O!HashBegin
    <3>2. /\ kept' \in O!HeldFile /\ kept'.stamp = stamp /\ kept'.hash = None
          /\ kept'.sig = None
      BY <2>1, <3>1
    <3>3. MaintainerType' /\ DiskSound' /\ ReadSound'
      BY <2>1, <2>3, <3>1, <3>2
    <3>4. PullSound'
      BY <2>1, <2>3, <3>1, <3>2
    <3>5. HashSound'
      <4>1. kept' # None /\ stamp' = stamp /\ sha' = sha
        BY <2>1, <3>2
      <4>2. sha # None => sha.stamp <= stamp
        OBVIOUS
      <4>3. stamp \in Nat
        OBVIOUS
      <4> HIDE DEF MaintainerInv, DiskSound, PullSound, ReadSound, MaintainerType
      <4> QED BY <2>1, <3>1, <3>2, <4>1, <4>2, <4>3
    <3> QED BY <3>3, <3>4, <3>5
  <2> QED BY <2>2, <2>3
<1>11. CASE O!HashRead
  BY <1>11 DEF O!HashRead
<1>12. CASE O!HashEnd
  BY <1>12 DEF O!HashEnd, O!Stable
<1>13. CASE O!sign_truth
  BY <1>13 DEF O!sign_truth
<1>14. CASE O!model_identity_prepare
  BY <1>14 DEF O!model_identity_prepare
<1>15. CASE O!ReadBegin
  BY <1>15 DEF O!ReadBegin
<1>16. CASE O!ReadEnd
  BY <1>16 DEF O!ReadEnd, O!Unchanged
<1> QED BY <1>1, <1>2, <1>3, <1>4, <1>5, <1>6, <1>7, <1>8, <1>9, <1>10, <1>11, <1>12, <1>13,
           <1>14, <1>15, <1>16 DEF O!Next

\* handle_read: bytes sent under an announced hash have that hash, and the
\* announced signature signs them, whatever the owner does to the file meanwhile.
THEOREM AnnouncedCorrect ==
    ASSUME O!MaintainerConstants PROVE O!Spec => []O!AnnouncedIsServed
<1>1. O!Init => MaintainerInv
  BY DEF O!Init, O!MaintainerConstants, MaintainerInv, MaintainerType, DiskSound, PullSound,
         HashSound, ReadSound, O!Sidecar, O!HeldFile
<1>2. MaintainerInv /\ [O!Next]_(O!vars) => MaintainerInv'
  BY MaintainerNext
<1>3. MaintainerInv => O!AnnouncedIsServed
  BY DEF MaintainerInv, HashSound, ReadSound, O!AnnouncedIsServed
<1> QED BY <1>1, <1>2, <1>3, PTL DEF O!Spec
------------------------------------------------------------------------------
(* Resident weights: what is loaded before and after the seal.              *)
WeightsInv ==
    /\ cache \in Seq(Good) /\ Len(cache) <= Slots
    /\ ranges \subseteq Good
    /\ phase \in [Loader -> {"idle", "read", "link"}]
    /\ result \in [Loader -> {"none", "bytes", "refused", "failed", "retained"}]
    /\ need \in [Loader -> Piece \cup {0}]
    /\ \A t \in Loader : phase[t] = "link" => need[t] \in Good
    /\ sealed \in BOOLEAN
    /\ sealed => cache = <<>>
    /\ locked # -1 => sealed /\ locked = W!Cardinality(ranges)

\* Eviction makes room, a hit moves a block to the end, a read keeps the budget.
LEMMA EvictedFits ==
    ASSUME Slots \in Nat \ {0}, WeightsInv
    PROVE  W!Evicted \in Seq(Good) /\ Len(W!Evicted) < Slots
<1>1. CASE Len(cache) < Slots
  BY <1>1 DEF W!Evicted, WeightsInv
<1>2. CASE ~(Len(cache) < Slots)
  <2>1. cache # <<>>
    BY <1>2 DEF WeightsInv
  <2>2. Tail(cache) \in Seq(Good) /\ Len(Tail(cache)) = Len(cache) - 1
    BY <2>1, HeadTailProperties DEF WeightsInv
  <2> QED BY <1>2, <2>2 DEF W!Evicted, WeightsInv
<1> QED BY <1>1, <1>2

LEMMA UsedFits ==
    ASSUME WeightsInv, NEW i \in DOMAIN cache
    PROVE  W!Used(i) \in Seq(Good) /\ Len(W!Used(i)) = Len(cache)
<1>1. i \in 1..Len(cache) /\ cache \in Seq(Good) /\ Len(cache) \in Nat
  BY DEF WeightsInv
<1>2. /\ SubSeq(cache, 1, i-1) \in Seq(Good) /\ Len(SubSeq(cache, 1, i-1)) = i - 1
  BY <1>1, SubSeqProperties
<1>3. /\ SubSeq(cache, i+1, Len(cache)) \in Seq(Good)
      /\ Len(SubSeq(cache, i+1, Len(cache))) = Len(cache) - i
  BY <1>1, SubSeqProperties
<1> DEFINE before == SubSeq(cache, 1, i-1)
           after == SubSeq(cache, i+1, Len(cache))
           u == before \o after
<1>4. u \in Seq(Good) /\ Len(u) = Len(cache) - 1
  <2>1. before \in Seq(Good) /\ after \in Seq(Good)
        /\ Len(before) = i - 1 /\ Len(after) = Len(cache) - i
    BY <1>2, <1>3
  <2> HIDE DEF before, after
  <2>2. u \in Seq(Good) /\ Len(u) = Len(before) + Len(after)
    BY <2>1, ConcatProperties
  <2> QED BY <1>1, <2>1, <2>2
<1>5. W!Used(i) = Append(u, cache[i])
  BY DEF W!Used, W!RemoveAt
<1> HIDE DEF u
<1>6. cache[i] \in Good
  BY <1>1
<1> QED BY <1>1, <1>4, <1>5, <1>6, AppendProperties

\* A read answers with verified bytes or none, and never grows the buffers
\* beyond their slots or refills them after the seal.
LEMMA ReadFits ==
    ASSUME Slots \in Nat, WeightsInv, NEW t \in Loader, NEW b, W!direct_weight_read(t, b)
    PROVE  /\ cache' \in Seq(Good) /\ Len(cache') <= Slots
           /\ sealed => cache' = <<>>
           /\ result' \in [Loader -> {"none", "bytes", "refused", "failed", "retained"}]
           /\ result'[t] = "bytes" => b \in Good
<1> USE DEF WeightsInv
<1>1. CASE cache' = cache /\ W!Answer(t, "bytes") /\ b \in ranges
  BY <1>1 DEF W!Answer
<1>2. CASE cache' = cache /\ (W!Answer(t, "refused") \/ W!Answer(t, "failed"))
  BY <1>2 DEF W!Answer
<1>3. CASE /\ ~sealed /\ W!Answer(t, "bytes")
           /\ \E i \in DOMAIN cache : cache[i] = b /\ cache' = W!Used(i)
  <2>1. PICK i \in DOMAIN cache : cache[i] = b /\ cache' = W!Used(i)
    BY <1>3
  <2>2. cache' \in Seq(Good) /\ Len(cache') = Len(cache)
    BY <2>1, UsedFits
  <2>3. b \in Good
    BY <2>1
  <2> QED BY <1>3, <2>2, <2>3 DEF W!Answer
<1>4. CASE Slots # 0 /\ ~sealed /\ b \in Good /\ W!Answer(t, "bytes") /\ cache' = Append(W!Evicted, b)
  <2>1. W!Evicted \in Seq(Good) /\ Len(W!Evicted) < Slots
    BY <1>4, EvictedFits
  <2>2. cache' \in Seq(Good) /\ Len(cache') = Len(W!Evicted) + 1
    BY <1>4, <2>1, AppendProperties
  <2>3. Len(cache') <= Slots
    BY <2>1, <2>2
  <2> QED BY <1>4, <2>2, <2>3 DEF W!Answer
<1>5. CASE Slots # 0 /\ ~sealed /\ W!Answer(t, "failed") /\ cache' = W!Evicted
  <2>1. W!Evicted \in Seq(Good) /\ Len(W!Evicted) < Slots
    BY <1>5, EvictedFits
  <2>2. Len(W!Evicted) <= Slots
    BY <2>1
  <2> QED BY <1>5, <2>1, <2>2 DEF W!Answer
<1> HIDE DEF WeightsInv
<1> QED BY <1>1, <1>2, <1>3, <1>4, <1>5 DEF W!direct_weight_read

\* Nothing is cached or retained after the seal.
LEMMA WeightsNext ==
    ASSUME Slots \in Nat, WeightsInv, [W!Next]_(W!vars)
    PROVE  WeightsInv'
<1>1. CASE UNCHANGED W!vars
  BY <1>1 DEF W!vars, WeightsInv
<1>2. CASE W!lmb_weights_seal
  BY <1>2 DEF W!lmb_weights_seal, WeightsInv
<1>3. CASE W!lmb_weights_lock_status
  BY <1>3 DEF W!lmb_weights_lock_status, WeightsInv
<1>4. ASSUME NEW t \in Loader, NEW b \in Piece, W!Read(t, b) PROVE WeightsInv'
  <2>1. UNCHANGED <<sealed, ranges, locked, phase, need>> /\ W!direct_weight_read(t, b)
    BY <1>4 DEF W!Read
  <2>2. /\ cache' \in Seq(Good) /\ Len(cache') <= Slots /\ (sealed => cache' = <<>>)
        /\ result' \in [Loader -> {"none", "bytes", "refused", "failed", "retained"}]
    BY <2>1, ReadFits
  <2> QED BY <2>1, <2>2 DEF WeightsInv
<1>5. ASSUME NEW t \in Loader, NEW b \in Piece, W!RetainBegin(t, b) PROVE WeightsInv'
  BY <1>5 DEF W!RetainBegin, WeightsInv
<1>6. ASSUME NEW t \in Loader, W!RetainRead(t) PROVE WeightsInv'
  <2>1. /\ UNCHANGED <<sealed, ranges, locked, need>> /\ W!direct_weight_read(t, need[t])
        /\ phase' = [phase EXCEPT ![t] = IF result'[t] = "bytes" THEN "link" ELSE "idle"]
    BY <1>6 DEF W!RetainRead
  <2>2. /\ cache' \in Seq(Good) /\ Len(cache') <= Slots /\ (sealed => cache' = <<>>)
        /\ result' \in [Loader -> {"none", "bytes", "refused", "failed", "retained"}]
        /\ result'[t] = "bytes" => need[t] \in Good
    BY <2>1, ReadFits
  <2> QED BY <2>1, <2>2 DEF WeightsInv
<1>7. ASSUME NEW t \in Loader, W!RetainLink(t) PROVE WeightsInv'
  <2>1. /\ need[t] \in Good /\ UNCHANGED <<sealed, cache, locked, need>>
        /\ ranges' = IF ~sealed THEN ranges \cup {need[t]} ELSE ranges
        /\ phase' = [phase EXCEPT ![t] = "idle"]
        /\ result' = [result EXCEPT ![t] = IF ~sealed THEN "retained" ELSE "refused"]
    BY <1>7 DEF W!RetainLink, W!StillOpen, W!Answer, WeightsInv
  <2> QED BY <2>1 DEF WeightsInv
<1> QED BY <1>1, <1>2, <1>3, <1>4, <1>5, <1>6, <1>7 DEF W!Next

\* lmb_weights_seal: nothing becomes resident after it, for any threads, blocks
\* and cache budget, so the reported total stays true.
THEOREM SealCorrect == ASSUME Slots \in Nat PROVE W!Spec => []W!SealIsFinal
<1>1. W!Init => WeightsInv
  <2> SUFFICES ASSUME W!Init PROVE WeightsInv
    OBVIOUS
  <2>1. cache \in Seq(Good) /\ Len(cache) = 0
    BY EmptySeq DEF W!Init
  <2>2. /\ phase \in [Loader -> {"idle", "read", "link"}]
        /\ result \in [Loader -> {"none", "bytes", "refused", "failed", "retained"}]
        /\ need \in [Loader -> Piece \cup {0}]
        /\ \A t \in Loader : phase[t] # "link"
    BY DEF W!Init
  <2>3. ranges = {} /\ locked = -1 /\ sealed = FALSE
    BY DEF W!Init
  <2>4. Len(cache) <= Slots
    BY <2>1
  <2> QED BY <2>1, <2>2, <2>3, <2>4 DEF WeightsInv
<1>2. WeightsInv /\ [W!Next]_(W!vars) => WeightsInv'
  BY WeightsNext
<1>3. WeightsInv => W!SealIsFinal
  BY DEF WeightsInv, W!SealIsFinal
<1> QED BY <1>1, <1>2, <1>3, PTL DEF W!Spec
------------------------------------------------------------------------------
(* What two parts promise together: they share no state.                      *)

\* The tracker forgets no evidence and reuses no generation.
THEOREM OnlyGrowsCorrect ==
    ASSUME C!ClaimsConstants, P!PeersConstants
    PROVE  C!Spec /\ P!Spec => OnlyGrows
  BY EvidenceCorrect, GenerationCorrect DEF OnlyGrows

\* What is announced is what is sent, and what is resident is what is reported.
THEOREM ServedCorrect ==
    ASSUME O!MaintainerConstants, Slots \in Nat
    PROVE  O!Spec /\ W!Spec => []ServedSound
<1>1. O!Spec => []O!AnnouncedIsServed
  BY AnnouncedCorrect
<1>2. W!Spec => []W!SealIsFinal
  BY SealCorrect
<1> QED BY <1>1, <1>2, PTL DEF ServedSound
==============================================================================
