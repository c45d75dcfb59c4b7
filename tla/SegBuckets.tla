----------------------------- MODULE SegBuckets -----------------------------
(***************************************************************************)
(* The open-addressing hash table under LmbSegTable (lumabri_segment.c):    *)
(* 2 * capacity + 1 buckets, linear probing from the hash of the session    *)
(* id, tombstones left by CLOSE and by the reaper.  SegTable treats the     *)
(* table as a function from session ids to entries; this module is about    *)
(* what the buckets must do for that to be true: an entry never becomes     *)
(* unreachable, never appears twice, and room within the quota is found.    *)
(* Entries are reduced to their session id.                                 *)
(***************************************************************************)
EXTENDS Integers, FiniteSets

CONSTANTS Sessions,      \* session ids
          MaxSessions,   \* capacity passed to lmb_seg_table_create
          Hash,          \* first eight bytes of SHA-256 of the id
          EMPTY, TOMBSTONE, NoBucket

BucketConstants ==
    /\ MaxSessions \in Nat \ {0}
    /\ Hash \in [Sessions -> Nat]
    /\ EMPTY \notin Sessions /\ TOMBSTONE \notin Sessions
    /\ EMPTY # TOMBSTONE
    /\ NoBucket \notin Nat

ASSUME BucketsAssumed == BucketConstants

BucketCount == 2 * MaxSessions + 1
Buckets == 0..(BucketCount - 1)
Probes == 0..(BucketCount - 1)

VARIABLES slots,         \* bucket -> EMPTY, TOMBSTONE or the active session
          active_count

vars == <<slots, active_count>>

\* The bucket probe number p of an id looks at.
Bucket(s, p) == (Hash[s] + p) % BucketCount

Least(S) == CHOOSE p \in S : \A q \in S : p <= q

\* A walk that only an EMPTY bucket can end with room for a new entry.
BugLookupNeedsEmpty(b, s, for_insert) ==
    LET stops == {p \in Probes : b[Bucket(s, p)] \in {EMPTY, s}}
    IN  IF stops = {} THEN NoBucket
        ELSE IF for_insert \/ b[Bucket(s, Least(stops))] = s
        THEN Bucket(s, Least(stops)) ELSE NoBucket

\* seg_lookup: probe until the id or an EMPTY bucket; an insertion takes the
\* first tombstone it walked over in preference to the EMPTY bucket.
Lookup(b, s, for_insert) ==
    LET stops == {p \in Probes : b[Bucket(s, p)] \in {EMPTY, s}}
        stop == Least(stops)
        tombs == {p \in Probes : /\ b[Bucket(s, p)] = TOMBSTONE
                                 /\ stops = {} \/ p < stop}
    IN  IF stops # {} /\ b[Bucket(s, stop)] = s THEN Bucket(s, stop)
        ELSE IF ~for_insert THEN NoBucket
        ELSE IF tombs # {} THEN Bucket(s, Least(tombs))
        ELSE IF stops # {} THEN Bucket(s, stop)
        ELSE NoBucket

Find(b, s) == Lookup(b, s, FALSE)

Init ==
    /\ slots = [i \in Buckets |-> EMPTY]
    /\ active_count = 0

\* lmb_seg_table_open of an id the table does not find.
Insert(s) ==
    /\ Find(slots, s) = NoBucket
    /\ active_count < MaxSessions
    /\ Lookup(slots, s, TRUE) # NoBucket
    /\ slots' = [slots EXCEPT ![Lookup(slots, s, TRUE)] = s]
    /\ active_count' = active_count + 1


Vacated == TOMBSTONE

\* lmb_seg_table_close of an id the table finds.
Remove(s) ==
    /\ Find(slots, s) # NoBucket
    /\ slots' = [slots EXCEPT ![Find(slots, s)] = Vacated]
    /\ active_count' = active_count - 1

\* lmb_seg_table_reap_expired: the first bucket, in index order, whose entry
\* is idle and expired.  Which entries those are is the caller's clock.
Reap(expired) ==
    LET hits == {i \in Buckets : slots[i] \in expired}
    IN  /\ hits # {}
        /\ slots' = [slots EXCEPT ![Least(hits)] = Vacated]
        /\ active_count' = active_count - 1

Next ==
    \/ \E s \in Sessions : Insert(s) \/ Remove(s)
    \/ \E expired \in SUBSET Sessions : Reap(expired)

Spec == Init /\ [][Next]_vars

-----------------------------------------------------------------------------
Stored == {i \in Buckets : slots[i] \in Sessions}

\* Every bucket is EMPTY, a TOMBSTONE or one session, and the counter a number.
TypeOK ==
    /\ slots \in [Buckets -> Sessions \cup {EMPTY, TOMBSTONE}]
    /\ active_count \in Nat

\* An open session is never lost and never doubled: seg_find returns the very
\* bucket that holds the entry, however many tombstones earlier sessions left
\* on the way.  An entry behind an EMPTY bucket would answer NOT_FOUND to its
\* client, and a second OPEN would give the id a second entry.
FindIsExact == \A i \in Stored : Find(slots, slots[i]) = i

\* active_count is the number of entries and stays within the quota.
CountIsExact ==
    active_count = Cardinality(Stored) /\ active_count <= MaxSessions

\* QUOTA means quota: below it, the second test of lmb_seg_table_open (no
\* bucket for the id) never fails, even when no EMPTY bucket is left.
RoomBelowQuota ==
    active_count < MaxSessions =>
        \A s \in Sessions : Lookup(slots, s, TRUE) # NoBucket

\* The table of buckets behaves as a set of sessions with a quota: each open
\* session is found where it is, and there is room for a new one below the
\* quota.
BucketsSound == FindIsExact /\ RoomBelowQuota
=============================================================================
