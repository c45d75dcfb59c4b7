---------------------------- MODULE WeightMirror -----------------------------
(* The shared mirror of a model's weights (lumashim.c): processes that open   *)
(* the same checkpoint fill one sparse file block by block, remember in a     *)
(* bitmap what is there, and publish the bitmap only after the data reached   *)
(* the disk. Bits are hints: the first touch in each process compares the     *)
(* bytes with the operator's truth. Processes are killed, power fails, the    *)
(* tracker comes and goes, disks rot. One file; a block's bytes are named     *)
(* after the checkpoint they belong to.                                       *)
EXTENDS Integers, FiniteSets
CONSTANTS Proc, Thread, ProcOf, Block, Root, MaxFaults, None
VARIABLES require,     \* LUMABRI_REQUIRE_HASH or a trust key, for all of them or none
          disk, durable,   \* Block -> bytes in the page cache / on the platter
          bits, stable,    \* blocks whose map byte is set / durably set
          ident, side,     \* saved identity; truth sidecar (both replaced atomically)
          truth,           \* checkpoint the tracker vouches for, None: offline
          adopted,         \* history: truths processes took since the maps were cleared
          shared, reset,   \* holders of cache.lock (shared); holder of reset.lock
          stage,           \* Proc -> stage of shim_init, "up" when it succeeded
          want,            \* Proc -> identity it saw at the start
          map, verified, inflight, \* Proc -> sets of blocks
          hash,            \* Proc -> truth of the file: "?", None or a checkpoint
          dirty, commit, snap,     \* Proc -> undurable writes; committer stage; its snapshot
          at, block, data,         \* Thread -> stage of ensure_block, its block and bytes
          faults
files == <<disk, durable, bits, stable, ident, side>>
locks == <<shared, reset>>
memory == <<map, verified, inflight, hash, dirty, commit, snap>>
threads == <<at, block, data>>
vars == <<require, files, truth, adopted, locks, stage, want, memory, threads, faults>>

(* What is assumed of the constants: every thread has a process, and a        *)
(* checkpoint is none of the other contents of a block.                       *)
MirrorConstants ==
    /\ ProcOf \in [Thread -> Proc]
    /\ None \notin Root /\ None # "?" /\ Root \cap {"?", "zero", "torn", "bad"} = {}
(* The peers serve one checkpoint only.                                       *)
OneVersion == \A r, s \in Root : r = s

Fresh == [map |-> {}, verified |-> {}, inflight |-> {}, hash |-> "?", dirty |-> FALSE,
          commit |-> "idle", snap |-> {}]
Init ==
    /\ require \in BOOLEAN
    /\ disk = [b \in Block |-> "zero"] /\ durable = disk /\ bits = {} /\ stable = {}
    /\ ident = None /\ side = None /\ truth \in Root /\ adopted = {}
    /\ shared = {} /\ reset = None
    /\ stage = [p \in Proc |-> "off"] /\ want = [p \in Proc |-> None]
    /\ map = [p \in Proc |-> {}] /\ verified = map /\ inflight = map /\ snap = map
    /\ hash = [p \in Proc |-> "?"] /\ dirty = [p \in Proc |-> FALSE]
    /\ commit = [p \in Proc |-> "idle"]
    /\ at = [t \in Thread |-> "idle"] /\ block = [t \in Thread |-> None]
    /\ data = [t \in Thread |-> None] /\ faults = 0

To(p, s) == stage' = [stage EXCEPT ![p] = s]
(* shim_init: the shared lock is taken before anything is read; no process    *)
(* gets it while one holds the lock exclusively. Offline, the saved identity  *)
(* counts.                                                                    *)
Exclusive == \E p \in Proc : stage[p] \in {"clearing", "cleared"}
(* cache_identity_differs: the identity of the tracker, when there is one.    *)
Differs(id) == id \notin {None, ident}
Open(p) ==
    /\ stage[p] = "off" /\ ~Exclusive
    /\ want' = [want EXCEPT ![p] = truth]
    /\ IF truth = None /\ require /\ ident = None THEN To(p, "refused") /\ UNCHANGED shared
       ELSE /\ shared' = shared \cup {p}
            /\ To(p, IF Differs(truth) THEN "differs" ELSE "same")
    /\ UNCHANGED <<files, truth, adopted, reset, memory, threads, faults>>
(* Another identity: release the shared lock, be elected by reset.lock, look  *)
(* again under the shared lock, then wait for everybody to leave.             *)
Elect(p) ==
    /\ stage[p] = "differs" /\ reset = None /\ ~Exclusive
    /\ reset' = p
    /\ IF Differs(want[p]) THEN To(p, "upgrade") /\ shared' = shared \ {p}
       ELSE To(p, "same") /\ shared' = shared \cup {p}
    /\ UNCHANGED <<files, truth, adopted, want, memory, threads, faults>>
Release(p) ==
    /\ stage[p] = "differs" /\ p \in shared /\ shared' = shared \ {p}
    /\ UNCHANGED <<files, truth, adopted, reset, stage, want, memory, threads, faults>>
(* Alone: the identity is asked for again; the maps are cleared durably.      *)
Upgrade(p) ==
    /\ stage[p] = "upgrade" /\ shared = {} /\ ~Exclusive
    /\ IF truth # want[p] THEN To(p, "refused") /\ reset' = None /\ UNCHANGED <<bits, stable, side, adopted>>
       ELSE /\ To(p, "clearing") /\ bits' = {} /\ stable' = {} /\ side' = None /\ adopted' = {}
            /\ UNCHANGED reset
    /\ UNCHANGED <<disk, durable, ident, truth, shared, want, memory, threads, faults>>
(* The identity is written last.                                              *)
SaveIdentity(p) ==
    /\ stage[p] = "clearing" /\ ident' = want[p] /\ To(p, "cleared")
    /\ UNCHANGED <<disk, durable, bits, stable, side, truth, adopted, locks, want, memory, threads, faults>>
(* The map is read, the shared lock kept for the life of the process.         *)
Up(p) ==
    /\ stage[p] \in {"same", "cleared"}
    /\ To(p, "up") /\ map' = [map EXCEPT ![p] = bits]
    /\ shared' = shared \cup {p} /\ reset' = IF reset = p THEN None ELSE reset
    /\ UNCHANGED <<files, truth, adopted, want, verified, inflight, hash, dirty, commit, snap, threads, faults>>

(* ensure_block: one thread fetches a block, the others of the process wait.  *)
Enter(t, b) ==
    LET p == ProcOf[t] IN
    /\ at[t] = "idle" /\ stage[p] = "up" /\ b \notin inflight[p]
    /\ ~(b \in map[p] /\ b \in verified[p])
    /\ map' = [map EXCEPT ![p] = IF b \in bits THEN @ \cup {b} ELSE @]
    /\ inflight' = [inflight EXCEPT ![p] = @ \cup {b}]
    /\ block' = [block EXCEPT ![t] = b]
    /\ at' = [at EXCEPT ![t] = IF hash[p] = "?" THEN "truth" ELSE "local"]
    /\ UNCHANGED <<files, truth, adopted, locks, stage, want, verified, hash, dirty, commit, snap, data, faults>>
(* The sidecar saved with an earlier record of the tracker; where integrity   *)
(* is required but there is no key to check its signature, it is refused.     *)
truth_load == {side} \cup (IF require THEN {None} ELSE {})
(* It is saved after it is published: that may fail or be cut off by a crash. *)
truth_save(found) ==
    \/ side' = (IF found = None THEN side ELSE found) /\ UNCHANGED faults
    \/ UNCHANGED side /\ faults < MaxFaults /\ faults' = faults + 1
(* hashes_ensure, on the first touch of a file: the tracker's record of that  *)
(* moment, or the sidecar; a new one is saved. It is not compared with the    *)
(* identity the maps are bound to.                                            *)
hashes_ensure(t) ==
    LET p == ProcOf[t] IN
    /\ at[t] = "truth"
    /\ IF hash[p] # "?" THEN UNCHANGED <<hash, side, adopted, faults>>
       ELSE \E found \in IF truth # None THEN {truth} ELSE truth_load :
            /\ hash' = [hash EXCEPT ![p] = found] /\ truth_save(found)
            /\ adopted' = adopted \cup ({found} \ {None})
    /\ at' = [at EXCEPT ![t] = "local"]
    /\ UNCHANGED <<disk, durable, bits, stable, ident, truth, locks, stage, want, map, verified,
                   inflight, dirty, commit, snap, block, data>>
(* local_block_verify: present bytes are compared with the truth; without one *)
(* they are trusted only when integrity is not required.                      *)
Trusted(p, b) == b \in map[p] /\ IF hash[p] # None THEN disk[b] = hash[p] ELSE ~require
Local(t) ==
    LET p == ProcOf[t]  b == block[t] IN
    /\ at[t] = "local"
    /\ IF Trusted(p, b)
       THEN /\ verified' = [verified EXCEPT ![p] = @ \cup {b}]
            /\ inflight' = [inflight EXCEPT ![p] = @ \ {b}]
            /\ at' = [at EXCEPT ![t] = "idle"] /\ block' = [block EXCEPT ![t] = None]
            /\ UNCHANGED <<bits, map>>
       ELSE /\ IF b \in map[p] /\ hash[p] # None
               THEN map' = [map EXCEPT ![p] = @ \ {b}] /\ bits' = bits \ {b}
               ELSE UNCHANGED <<map, bits>>
            /\ at' = [at EXCEPT ![t] = "fetch"] /\ UNCHANGED <<verified, inflight, block>>
    /\ UNCHANGED <<disk, durable, stable, ident, side, truth, adopted, locks, stage, want, hash, dirty,
                   commit, snap, data, faults>>
(* The content store, then the peers nearest first, then the relay; every     *)
(* answer is compared with the truth when there is one; without one the peers *)
(* are taken at their word. Nobody, or integrity required and missing: the    *)
(* read fails. (The mutant does not compare the answer of a peer.)            *)
FromStore(p) == {hash[p]} \ {None}
BugFromPeers(p) == Root
FromPeers(p) ==
    IF hash[p] # None THEN {hash[p]} ELSE IF require THEN {} ELSE Root
Fetch(t) ==
    LET p == ProcOf[t] IN
    /\ at[t] = "fetch"
    /\ \/ /\ \E bytes \in FromStore(p) \cup FromPeers(p) : data' = [data EXCEPT ![t] = bytes]
          /\ at' = [at EXCEPT ![t] = "write"] /\ UNCHANGED <<inflight, block>>
       \/ /\ inflight' = [inflight EXCEPT ![p] = @ \ {block[t]}]
          /\ at' = [at EXCEPT ![t] = "idle"] /\ block' = [block EXCEPT ![t] = None]
          /\ UNCHANGED data
    /\ UNCHANGED <<files, truth, adopted, locks, stage, want, map, verified, hash, dirty, commit, snap, faults>>
(* pwrite in pieces: until the last one other bytes show through.             *)
Write(t) ==
    LET b == block[t] IN
    /\ at[t] \in {"write", "written"}
    /\ disk' = [disk EXCEPT ![b] = IF at[t] = "written" \/ @ = data[t] THEN data[t] ELSE "torn"]
    /\ at' = [at EXCEPT ![t] = IF at[t] = "write" THEN "written" ELSE "finish"]
    /\ UNCHANGED <<durable, bits, stable, ident, side, truth, adopted, locks, stage, want, memory, block,
                   data, faults>>
(* The disk is full: what was written stays, the block is not marked.         *)
WriteFails(t) ==
    /\ at[t] = "written"
    /\ inflight' = [inflight EXCEPT ![ProcOf[t]] = @ \ {block[t]}]
    /\ at' = [at EXCEPT ![t] = "idle"] /\ block' = [block EXCEPT ![t] = None]
    /\ data' = [data EXCEPT ![t] = None]
    /\ UNCHANGED <<files, truth, adopted, locks, stage, want, map, verified, hash, dirty, commit, snap, faults>>
Finish(t) ==
    LET p == ProcOf[t]  b == block[t] IN
    /\ at[t] = "finish"
    /\ map' = [map EXCEPT ![p] = @ \cup {b}] /\ verified' = [verified EXCEPT ![p] = @ \cup {b}]
    /\ inflight' = [inflight EXCEPT ![p] = @ \ {b}] /\ dirty' = [dirty EXCEPT ![p] = TRUE]
    /\ at' = [at EXCEPT ![t] = "idle"] /\ block' = [block EXCEPT ![t] = None]
    /\ data' = [data EXCEPT ![t] = None]
    /\ UNCHANGED <<files, truth, adopted, locks, stage, want, hash, commit, snap, faults>>

(* mirror_commit_file: a snapshot of the map; under the map's lock, the data  *)
(* is made durable, the bits of the other processes are merged in, and the    *)
(* map is made durable.                                                       *)
Snapshot(p) ==
    /\ stage[p] = "up" /\ dirty[p] /\ commit[p] = "idle"
    /\ snap' = [snap EXCEPT ![p] = map[p]] /\ dirty' = [dirty EXCEPT ![p] = FALSE]
    /\ commit' = [commit EXCEPT ![p] = "sync"]
    /\ UNCHANGED <<files, truth, adopted, locks, stage, want, map, verified, inflight, hash, threads, faults>>
(* Mutant: the map is published without waiting for the data.                 *)
BugSynced == durable
Synced == disk
Locked == \E p \in Proc : commit[p] \in {"merge", "flush"}
SyncData(p) ==
    /\ commit[p] = "sync" /\ ~Locked
    /\ durable' = Synced /\ commit' = [commit EXCEPT ![p] = "merge"]
    /\ UNCHANGED <<disk, bits, stable, ident, side, truth, adopted, locks, stage, want, map, verified,
                   inflight, hash, dirty, snap, threads, faults>>
Merge(p) ==
    /\ commit[p] = "merge"
    /\ bits' = bits \cup snap[p] /\ commit' = [commit EXCEPT ![p] = "flush"]
    /\ UNCHANGED <<disk, durable, stable, ident, side, truth, adopted, locks, stage, want, map, verified,
                   inflight, hash, dirty, snap, threads, faults>>
Flush(p) ==
    /\ commit[p] = "flush"
    /\ stable' = bits /\ snap' = [snap EXCEPT ![p] = {}] /\ commit' = [commit EXCEPT ![p] = "idle"]
    /\ UNCHANGED <<disk, durable, bits, ident, side, truth, adopted, locks, stage, want, map, verified,
                   inflight, hash, dirty, threads, faults>>

(* A process ends, with or without its destructor: the kernel drops its locks.*)
Gone(set) ==
    /\ stage' = [p \in Proc |-> IF p \in set THEN "off" ELSE stage[p]]
    /\ want' = [p \in Proc |-> IF p \in set THEN None ELSE want[p]]
    /\ shared' = shared \ set /\ reset' = IF reset \in set THEN None ELSE reset
    /\ map' = [p \in Proc |-> IF p \in set THEN Fresh.map ELSE map[p]]
    /\ verified' = [p \in Proc |-> IF p \in set THEN Fresh.verified ELSE verified[p]]
    /\ inflight' = [p \in Proc |-> IF p \in set THEN Fresh.inflight ELSE inflight[p]]
    /\ hash' = [p \in Proc |-> IF p \in set THEN Fresh.hash ELSE hash[p]]
    /\ dirty' = [p \in Proc |-> IF p \in set THEN Fresh.dirty ELSE dirty[p]]
    /\ commit' = [p \in Proc |-> IF p \in set THEN Fresh.commit ELSE commit[p]]
    /\ snap' = [p \in Proc |-> IF p \in set THEN Fresh.snap ELSE snap[p]]
    /\ at' = [t \in Thread |-> IF ProcOf[t] \in set THEN "idle" ELSE at[t]]
    /\ block' = [t \in Thread |-> IF ProcOf[t] \in set THEN None ELSE block[t]]
    /\ data' = [t \in Thread |-> IF ProcOf[t] \in set THEN None ELSE data[t]]
Exit(p) == stage[p] # "off" /\ Gone({p}) /\ UNCHANGED <<files, truth, adopted, faults>>
(* Power fails: what was not synced may be there or not, block by block.      *)
PowerLoss ==
    /\ faults < MaxFaults /\ faults' = faults + 1
    /\ Gone(Proc)
    /\ \E kept \in SUBSET Block : disk' = [b \in Block |-> IF b \in kept THEN disk[b] ELSE durable[b]]
    /\ durable' = disk'
    /\ \E some \in SUBSET ((bits \ stable) \cup (stable \ bits)) :
         bits' = (stable \ some) \cup (bits \cap some)
    /\ stable' = bits'
    /\ UNCHANGED <<ident, side, truth, adopted>>
(* A block nobody has verified rots.                                          *)
Rot(b) ==
    /\ faults < MaxFaults /\ faults' = faults + 1
    /\ \A p \in Proc : b \notin verified[p] /\ b \notin inflight[p]
    /\ disk[b] \in Root /\ disk' = [disk EXCEPT ![b] = "bad"] /\ durable' = [durable EXCEPT ![b] = "bad"]
    /\ UNCHANGED <<bits, stable, ident, side, truth, adopted, locks, stage, want, memory, threads>>
(* The tracker goes offline or returns, under running processes too: another  *)
(* one, or one restarted without its history, vouches for another checkpoint  *)
(* of the same name and sizes.                                                *)
Tracker(new) ==
    /\ new # truth /\ truth' = new
    /\ UNCHANGED <<files, adopted, locks, stage, want, memory, threads, faults>>

Step == \/ \E p \in Proc : \/ Open(p) \/ Release(p) \/ Elect(p) \/ Upgrade(p) \/ SaveIdentity(p)
                           \/ Up(p) \/ Snapshot(p) \/ SyncData(p) \/ Merge(p) \/ Flush(p) \/ Exit(p)
        \/ \E t \in Thread : \/ \E b \in Block : Enter(t, b)
                             \/ hashes_ensure(t) \/ Local(t) \/ Fetch(t) \/ Write(t) \/ WriteFails(t) \/ Finish(t)
        \/ PowerLoss \/ (\E b \in Block : Rot(b)) \/ \E new \in Root \cup {None} : Tracker(new)
Next == Step /\ UNCHANGED require
Spec == Init /\ [][Next]_vars
------------------------------------------------------------------------------
(* ensure_block: with integrity required, no interleaving of writers, resets, *)
(* crashes, damaged disks and tracker changes makes a process serve bytes     *)
(* that are not its truth, unless a process that shares its mirror took       *)
(* another truth, and so may have overwritten the blocks it had verified.     *)
(* (Without it, a process that found no truth may write unverified bytes over *)
(* a block another process of the same cache has verified.)                   *)
ServedIsTrue ==
    require => \A p \in Proc : stage[p] = "up" /\ adopted = {hash[p]} =>
        \A b \in verified[p] \cap map[p] : disk[b] = hash[p]
(* mirror_commit_file: as long as no truth was ever needed to repair this     *)
(* mirror, a durable map byte names data that survives a power loss whole.    *)
BitsAreWhole ==
    adopted = {} => \A b \in stable \cup (bits \ UNION {map[p] : p \in Proc}) :
          durable[b] \notin {"zero", "torn"}
(* shim_init: whatever the tracker vouches for next, processes that share the *)
(* mirror started under the identity its maps are bound to: no reset happens  *)
(* under a running process, and none runs on what another one is clearing.    *)
OneIdentity ==
    /\ \A p \in Proc : stage[p] = "up" /\ want[p] # None => want[p] = ident
    /\ Exclusive => \A p \in Proc : stage[p] # "up"
(* A persisted map byte stands for bytes of the identity that is saved beside *)
(* it, never of another checkpoint, across resets that a crash interrupts.    *)
(* That needs every process to have taken the truth of this identity, which   *)
(* hashes_ensure does not look at: when the tracker changes between the start *)
(* of a process and its first touch of a file, the process persists bytes of  *)
(* one checkpoint under the identity of another.                              *)
Bound == \A b \in bits \cup stable : durable[b] \in Root => durable[b] = ident
BoundToIdentity == require /\ adopted \subseteq {ident} => Bound
MirrorSound == ServedIsTrue /\ BitsAreWhole /\ OneIdentity /\ BoundToIdentity
=============================================================================
