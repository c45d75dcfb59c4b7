-------------------------- MODULE ResidentWeights ---------------------------
(* Weights loaded straight into engine memory (lumashim.c, direct_weights):   *)
(* reads are answered from declared resident ranges or from a bounded block   *)
(* cache filled from the peers, all under one lock; before the node reports   *)
(* READY the input is sealed, the buffers are released, and from then on only *)
(* the resident ranges can be read. A range is one block long.                *)
EXTENDS Integers, Sequences, SequencesExt
CONSTANTS Thread, Block, Slots,
          Good      \* blocks some peer serves with the announced hash
VARIABLES sealed, cache,    \* cache: blocks held, least recently used first
          ranges, locked,   \* resident ranges; total told by lock_status, -1 before
          at, want, result  \* Thread -> stage, block, outcome of its last call
vars == <<sealed, cache, ranges, locked, at, want, result>>

Init == /\ sealed = FALSE /\ cache = <<>> /\ ranges = {} /\ locked = -1
        /\ at = [t \in Thread |-> "idle"] /\ want = [t \in Thread |-> 0]
        /\ result = [t \in Thread |-> "none"]
Answer(t, r) == result' = [result EXCEPT ![t] = r]
Used(i) == Append(RemoveAt(cache, i), cache[i])
(* The slot is emptied before the fetch, whatever the fetch brings.           *)
Evicted == IF Len(cache) < Slots THEN cache ELSE Tail(cache)
(* direct_weight_read, the lock held throughout: a resident range, else the   *)
(* seal's refusal, else the cache if the budget allows one, else the peers.   *)
direct_weight_read(t, b) ==
    IF b \in ranges THEN Answer(t, "bytes") /\ UNCHANGED cache
    ELSE IF sealed THEN Answer(t, "refused") /\ UNCHANGED cache
    ELSE IF Slots = 0 THEN Answer(t, "failed") /\ UNCHANGED cache
    ELSE IF b \in ToSet(cache)
    THEN Answer(t, "bytes") /\ \E i \in DOMAIN cache : cache[i] = b /\ cache' = Used(i)
    ELSE IF b \in Good THEN Answer(t, "bytes") /\ cache' = Append(Evicted, b)
    ELSE Answer(t, "failed") /\ cache' = Evicted
Read(t, b) ==
    /\ at[t] = "idle" /\ direct_weight_read(t, b)
    /\ UNCHANGED <<sealed, ranges, locked, at, want>>
(* lmb_weights_retain: the seal is tested without the lock, the bytes are     *)
(* read, and the range is linked in under the lock.                           *)
RetainBegin(t, b) ==
    /\ at[t] = "idle" /\ ~sealed
    /\ at' = [at EXCEPT ![t] = "read"] /\ want' = [want EXCEPT ![t] = b]
    /\ UNCHANGED <<sealed, cache, ranges, locked, result>>
RetainRead(t) ==
    /\ at[t] = "read" /\ direct_weight_read(t, want[t])
    /\ at' = [at EXCEPT ![t] = IF result'[t] = "bytes" THEN "link" ELSE "idle"]
    /\ UNCHANGED <<sealed, ranges, locked, want>>
(* Mutant: the seal is not tested again under the lock.                       *)
BugStillOpen == TRUE
StillOpen == ~sealed
RetainLink(t) ==
    /\ at[t] = "link"
    /\ ranges' = IF StillOpen THEN ranges \cup {want[t]} ELSE ranges
    /\ Answer(t, IF StillOpen THEN "retained" ELSE "refused")
    /\ at' = [at EXCEPT ![t] = "idle"]
    /\ UNCHANGED <<sealed, cache, locked, want>>
(* lmb_weights_seal; lmb_weights_lock_status answers only afterwards.         *)
lmb_weights_seal ==
    /\ sealed' = TRUE /\ cache' = <<>>
    /\ UNCHANGED <<ranges, locked, at, want, result>>
lmb_weights_lock_status ==
    /\ sealed /\ locked' = Cardinality(ranges)
    /\ UNCHANGED <<sealed, cache, ranges, at, want, result>>

Next == \/ lmb_weights_seal \/ lmb_weights_lock_status
        \/ \E t \in Thread : \/ RetainRead(t) \/ RetainLink(t)
                             \/ \E b \in Block : Read(t, b) \/ RetainBegin(t, b)
Spec == Init /\ [][Next]_vars
------------------------------------------------------------------------------
(* lmb_weights_lock_status, lmb_weights_retain: once a node has told how many *)
(* resident bytes are locked, nothing is added behind that number, no         *)
(* preparation buffer is left, and the buffers never exceed their slots.      *)
SealIsFinal ==
    /\ locked # -1 => locked = Cardinality(ranges)
    /\ sealed => cache = <<>>
    /\ Len(cache) <= Slots /\ ranges \subseteq Good
=============================================================================
