---------------------------- MODULE TrackerClaims ----------------------------
(* The durable half of the tracker: who owns a registered name, and which     *)
(* bytes a model or a file is (tracker.c, lumabri_tracker_history.h).         *)
(* Several tracker processes (a rolling upgrade) share one bindings file and  *)
(* one history index; each keeps bounded RAM caches in front of them. Every   *)
(* file operation runs under the cross-process lock, so it is one step; a     *)
(* process may die, and a flush may fail, between two files of one claim.     *)
EXTENDS Integers, FiniteSets
CONSTANTS Process,      \* tracker processes sharing the state files
          Name, Key,    \* (name, kind) pairs and identity keys
          Subject,      \* model identities and per-file truths
          IsModel,      \* the subjects that are model identities
          Path, PathOf, \* the path of a subject that is a file's truth
          Content,      \* roots and hash lists
          Signer,       \* operator keys
          Ring,         \* keyrings a process may start with: signer -> rank
          CacheSize,    \* entries of each RAM cache (MAX_BINDINGS, MAX_MODELS)
          None
VARIABLES file,      \* bindings file: name -> key or None
          index,     \* history index of the bindings
          record,    \* history record of a subject: [content, signer] or None
          alias,     \* path -> the subject the legacy query answers with
          up,        \* the running processes and their keyrings, None if down
          bound,     \* binding cache of each process
          known,     \* claim cache of each process
          admitted,  \* every <<name, key>> a process ever admitted
          served     \* every <<subject, content>> ever handed to a verifier
vars == <<file, index, record, alias, up, bound, known, admitted, served>>
Record == [content : Content, signer : Signer \cup {None}]
(* What is assumed of the constants: None is no key and no record, and every  *)
(* file's truth has a path.                                                   *)
ClaimsConstants == /\ None \notin Key /\ None \notin Record
                   /\ IsModel \subseteq Subject /\ PathOf \in [Subject \ IsModel -> Path]

(* tracker_history_read and tracker_history_write: a record is replaced by    *)
(* one atomic rename under the store's lock.                                  *)
HistoryRead(s) == record[s]
HistoryWrite(s, v) == record' = [record EXCEPT ![s] = v]
(* lmb_trust_match: the rank of a signature under a process's keyring.        *)
Rank(p, signer) == IF signer = None THEN -1 ELSE up[p][signer]
Signed(p) == \E s \in Signer : up[p][s] >= 0         \* g_have_pubkey

(* binding_remember, model_remember, truth_remember: replace the entry, or    *)
(* take a free one, or evict one when the cache is full.                      *)
Remembered(cache, k, v) ==
    LET held == {x \in DOMAIN cache : cache[x] # None} IN
    IF cache[k] # None \/ Cardinality(held) < CacheSize
    THEN {[cache EXCEPT ![k] = v]}
    ELSE {[cache EXCEPT ![x] = None, ![k] = v] : x \in held}

Init == /\ file = [n \in Name |-> None] /\ index = [n \in Name |-> None]
        /\ record = [s \in Subject |-> None] /\ alias = [x \in Path |-> None]
        /\ up = [p \in Process |-> None]
        /\ bound = [p \in Process |-> [n \in Name |-> None]]
        /\ known = [p \in Process |-> [s \in Subject |-> None]]
        /\ admitted = {} /\ served = {}

(* bindings_load: every row of the file is checked against the index (and     *)
(* indexed when the index lost it); a contradiction refuses to start.         *)
Loadable == \A n \in Name : file[n] = None \/ index[n] \in {None, file[n]}
LoadedCaches ==
    {c \in [Name -> Key \cup {None}] :
        /\ \A n \in Name : c[n] \in {None, file[n]}
        /\ LET held == {n \in Name : c[n] # None}
               rows == {n \in Name : file[n] # None}
           IN  \/ held = rows /\ Cardinality(rows) <= CacheSize
               \/ Cardinality(held) = CacheSize /\ Cardinality(rows) > CacheSize}
Start(p, ring) ==
    /\ up[p] = None /\ Loadable
    /\ index' = [n \in Name |-> IF file[n] # None THEN file[n] ELSE index[n]]
    /\ up' = [up EXCEPT ![p] = ring]
    /\ \E c \in LoadedCaches : bound' = [bound EXCEPT ![p] = c]
    /\ UNCHANGED <<file, record, alias, known, admitted, served>>
Crash(p) ==
    /\ up[p] # None
    /\ up' = [up EXCEPT ![p] = None]
    /\ bound' = [bound EXCEPT ![p] = [n \in Name |-> None]]
    /\ known' = [known EXCEPT ![p] = [s \in Subject |-> None]]
    /\ UNCHANGED <<file, index, record, alias, admitted, served>>

(* binding_history_accept: the index keeps the first key it was given.        *)
HistoryAccepts(n, k) == index[n] \in {None, k}
(* Mutant: the files are not read again, only the cache is trusted.           *)
BugAdmissible(p, n, k) == up[p] # None /\ bound[p][n] = None
(* Mutant: any other signature, or none, replaces the recorded one.           *)
BugUpgrades(p, old, signer) == old.signer # signer

(* binding_check_or_add behind name_key_ok: a cached name needs no file; an   *)
(* unknown one is compared with the file and the index under the lock, then   *)
(* indexed, then appended to the file, and only then admitted.                *)
AdmitCached(p, n, k) ==
    /\ up[p] # None /\ bound[p][n] = k
    /\ admitted' = admitted \cup {<<n, k>>}
    /\ UNCHANGED <<file, index, record, alias, up, bound, known, served>>
Admissible(p, n, k) ==
    up[p] # None /\ bound[p][n] = None /\ file[n] \in {None, k} /\ HistoryAccepts(n, k)
Admit(p, n, k) ==
    /\ Admissible(p, n, k)
    /\ index' = [index EXCEPT ![n] = k]
    /\ file' = [file EXCEPT ![n] = k]
    /\ \E c \in Remembered(bound[p], n, k) : bound' = [bound EXCEPT ![p] = c]
    /\ admitted' = admitted \cup {<<n, k>>}
    /\ UNCHANGED <<record, alias, up, known, served>>
(* The index was written and the row was not: the flush failed or the process *)
(* stopped there. The registration is refused.                                *)
AdmitTorn(p, n, k) ==
    /\ Admissible(p, n, k) /\ file[n] = None
    /\ index' = [index EXCEPT ![n] = k]
    /\ UNCHANGED <<file, record, alias, up, bound, known, admitted, served>>

(* model_identity_check and truth_check. A claim is refused when it is not    *)
(* signed in a signed swarm, when the cached or the recorded content differs, *)
(* and, for a model identity, when it would drop a signature. It is written   *)
(* when it is the first, adds a signature or comes from a higher-ranked key.  *)
Upgrades(p, old, signer) ==
    signer # None /\ (old.signer = None \/ Rank(p, signer) > Rank(p, old.signer))
Contradicts(s, old, c, signer) ==
    /\ old # None
    /\ \/ old.content # c
       \/ s \in IsModel /\ old.signer # None /\ signer = None
ClaimOpen(p, s, c, signer) ==
    /\ up[p] # None
    /\ Signed(p) => Rank(p, signer) >= 0
    /\ ~Contradicts(s, known[p][s], c, signer)
ClaimCached(p, s, c, signer) ==
    /\ ClaimOpen(p, s, c, signer)
    /\ known[p][s] # None /\ ~Upgrades(p, known[p][s], signer)
    /\ UNCHANGED vars
Claim(p, s, c, signer) ==
    LET new == [content |-> c, signer |-> signer]
        old == HistoryRead(s)
        value == IF old = None \/ Upgrades(p, old, signer) THEN new ELSE old
    IN  /\ ClaimOpen(p, s, c, signer)
        /\ known[p][s] # None => Upgrades(p, known[p][s], signer)
        /\ ~Contradicts(s, old, c, signer)
        /\ HistoryWrite(s, value)
        /\ alias' = IF s \in IsModel \/ alias[PathOf[s]] # None THEN alias
                    ELSE [alias EXCEPT ![PathOf[s]] = s]
        /\ \E m \in Remembered(known[p], s, value) : known' = [known EXCEPT ![p] = m]
        /\ UNCHANGED <<file, index, up, bound, admitted, served>>
(* truth_history_write succeeded and truth_alias did not.                     *)
ClaimTorn(p, s, c, signer) ==
    /\ ClaimOpen(p, s, c, signer) /\ s \notin IsModel
    /\ known[p][s] = None /\ HistoryRead(s) = None
    /\ HistoryWrite(s, [content |-> c, signer |-> signer])
    /\ UNCHANGED <<file, index, alias, up, bound, known, admitted, served>>

(* model_lookup and truth_lookup behind MODEL_ID and HASHES: the cache first, *)
(* the record otherwise. A signed swarm serves only what its keys vouch for.  *)
Found(p, s) == IF known[p][s] # None THEN known[p][s] ELSE HistoryRead(s)
Deliver(p, s) ==
    /\ up[p] # None /\ Found(p, s) # None
    /\ \E m \in Remembered(known[p], s, Found(p, s)) : known' = [known EXCEPT ![p] = m]
    /\ served' = IF Signed(p) /\ Rank(p, Found(p, s).signer) < 0 THEN served
                 ELSE served \cup {<<s, Found(p, s).content>>}
    /\ UNCHANGED <<file, index, record, alias, up, bound, admitted>>
Serve(p, s) == Deliver(p, s)
(* A HASHES query without a model name: any cached truth of that path, else   *)
(* the one the path index names.                                              *)
ServeByPath(p, x) ==
    LET cached == {s \in Subject \ IsModel : PathOf[s] = x /\ known[p][s] # None}
    IN  \E s \in (IF cached # {} THEN cached ELSE {alias[x]} \ {None}) : Deliver(p, s)

Next == \E p \in Process :
    \/ \E r \in Ring : Start(p, r)
    \/ Crash(p)
    \/ \E n \in Name, k \in Key : AdmitCached(p, n, k) \/ Admit(p, n, k) \/ AdmitTorn(p, n, k)
    \/ \E s \in Subject, c \in Content, g \in Signer \cup {None} :
          ClaimCached(p, s, c, g) \/ Claim(p, s, c, g) \/ ClaimTorn(p, s, c, g)
    \/ \E s \in Subject : Serve(p, s)
    \/ \E x \in Path : ServeByPath(p, x)
Spec == Init /\ [][Next]_vars
------------------------------------------------------------------------------
(* binding_check_or_add: whatever processes crash, restart, evict their       *)
(* caches or fail half way through a write, a name is only ever admitted      *)
(* under one key.                                                             *)
OneOwner == \A a, b \in admitted : a[1] = b[1] => a[2] = b[2]
(* model_identity_check and truth_check: the content of a model or a file is  *)
(* what its first accepted claim said, for every process and every verifier   *)
(* that was ever answered, however the keyrings and caches changed.           *)
OneContent ==
    /\ \A a, b \in served : a[1] = b[1] => a[2] = b[2]
    /\ \A p \in Process, s \in Subject :
          known[p][s] # None => record[s] # None /\ record[s].content = known[p][s].content
(* model_identity_check: a recorded signature is never dropped, and a model's *)
(* or a file's recorded content never changes.                                *)
EvidenceOnlyGrows ==
    [][\A s \in Subject : record[s] # None =>
          /\ record'[s] # None /\ record'[s].content = record[s].content
          /\ record[s].signer # None => record'[s].signer # None]_vars
(* Both at once: nobody is ever told of two owners or two contents.           *)
ClaimsNeverSplit == OneOwner /\ OneContent
=============================================================================
