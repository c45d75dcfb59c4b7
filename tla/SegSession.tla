----------------------------- MODULE SegSession -----------------------------
(***************************************************************************)
(* The session contract of Segment v2 (lumabri_segment.c): what a table     *)
(* entry holds and what each lmb_seg_table_* call answers and changes.      *)
(* Every call runs under the table's one mutex, so a call is one operator   *)
(* from a table value to a status and one to the next table value.  The     *)
(* module has no variables: SegTable drives the table alone, SegmentNode    *)
(* drives it from the threads of a node.                                    *)
(*                                                                          *)
(* Abstractions.  Session, request and lease ids are model values (the code *)
(* compares them and tests them for zero).  The contract fields an OPEN     *)
(* carries and nothing here tells apart (roots, layer range, dtype, width,  *)
(* engine strings) are what makes two shapes differ.  A run's token ids and *)
(* activations are one payload, of the size its rows call for or else a run *)
(* of a row count that does not fit; SHA-256 is injective.  A transfer's    *)
(* request id stands for the pair (request id, snapshot size), which the    *)
(* code only ever compares together.  seg_deadline's saturation at          *)
(* UINT64_MAX is beyond any clock and left out.  The operators named Bug... *)
(* are plausible mistakes, each the same as the definition after it but for *)
(* one slip; no specification uses them.                                    *)
(***************************************************************************)
EXTENDS Integers, FiniteSets, TLAPS

CONSTANTS Sessions,      \* session ids
          Requests,      \* request ids, never zero on the wire
          Leases,        \* lease ids
          Epochs,        \* fencing epochs an owner may carry
          Routes,        \* route generations an owner may carry
          Payloads,      \* token ids and activations of a run
          Shapes,        \* what an OPEN fixes for the life of a session
          ZeroId,        \* the all-zero id left by memset
          MaxSessions,   \* max_sessions of the table
          HistorySlots,  \* LMB_SEG_HISTORY_SLOTS
          SeqMax,        \* UINT64_MAX for sequences
          Positions,     \* positions a frame may name (bound)
          RowCounts      \* row counts a run may name (bound)

ASSUME SegConstants ==
    /\ Epochs \subseteq Nat \ {0} /\ Routes \subseteq Nat \ {0}
    /\ Shapes \subseteq [context : Nat \ {0}, max_rows : Nat \ {0},
                         ttl : Nat \ {0}, snapshot : BOOLEAN]
    /\ ZeroId \notin Sessions \cup Requests \cup Leases
    /\ MaxSessions \in Nat \ {0} /\ HistorySlots \in Nat \ {0}
    /\ SeqMax \in Nat \ {0}
    /\ Positions \subseteq Nat /\ RowCounts \subseteq Nat

Owners == [lease : Leases, epoch : Epochs, route : Routes]

\* Frames as the codecs let them through: a RUN never carries SeqMax.
Opens == [session : Sessions, request : Requests, owner : Owners, shape : Shapes]
Runs == [session : Sessions, request : Requests, owner : Owners,
         sequence : 0..(SeqMax - 1), position : Positions, rows : RowCounts,
         payload : Payloads]
Transfers == [session : Sessions, request : Requests, owner : Owners,
              sequence : 0..SeqMax, position : Positions]
Controls == [session : Sessions, owner : Owners, sequence : 0..SeqMax]

Statuses == {"OK", "DUPLICATE", "BAD_REQUEST", "NOT_FOUND", "STALE_OWNER",
             "OUT_OF_ORDER", "CONFLICT", "EXPIRED", "BUSY", "UNSUPPORTED",
             "QUOTA", "NEEDS_RESTORE", "INTERNAL"}

(***************************************************************************)
(* Slots.  memset(slot, 0) leaves the zero request id in the two pending    *)
(* records, which is what keeps a commit from matching an idle slot.        *)
(***************************************************************************)
NoRun == [request |-> ZeroId]
NoTransfer == [request |-> ZeroId]
NoEntry == [request |-> ZeroId]
NoSlot == [state |-> "FREE"]

EmptyHistory == [i \in 0..(HistorySlots - 1) |-> NoEntry]

\* What SHA-256 covers in seg_run_digest: everything but the request id.
Digest(run) ==
    [session |-> run.session, owner |-> run.owner, sequence |-> run.sequence,
     position |-> run.position, rows |-> run.rows, payload |-> run.payload]

Entries == [request : Requests, sequence : Nat, position : Nat, rows : Nat,
            digest : [session : Sessions, owner : Owners, sequence : Nat,
                      position : Nat, rows : Nat, payload : Payloads]]

Slots == [state : {"ACTIVE"}, busy : BOOLEAN, needs_restore : BOOLEAN,
          owner : Owners, request : Requests, shape : Shapes,
          next_sequence : Nat, next_position : Nat, expires_at : Nat,
          pending : Runs \cup {NoRun},
          pending_restore : Transfers \cup {NoTransfer},
          history : [0..(HistorySlots - 1) -> Entries \cup {NoEntry}],
          history_next : 0..(HistorySlots - 1)]

Tables == [Sessions -> Slots \cup {NoSlot}]

IsActive(slot) == slot.state = "ACTIVE"
ActiveSessions(t) == {s \in Sessions : IsActive(t[s])}

Expired(slot, now) == now >= slot.expires_at
Touch(slot, now) == [slot EXCEPT !.expires_at = now + slot.shape.ttl]

(***************************************************************************)
(* Owners: lease, fencing epoch and route generation.                       *)
(***************************************************************************)
\* A fence that looks at the epoch alone.
BugOwnerRelation(cand, cur) ==
    IF cand.epoch < cur.epoch THEN -1 ELSE IF cand.epoch > cur.epoch THEN 1 ELSE 0

\* -1 older, 0 the same owner, 1 newer, 2 neither.
OwnerRelation(cand, cur) ==
    LET older == cand.epoch < cur.epoch \/ cand.route < cur.route
        newer == cand.epoch > cur.epoch \/ cand.route > cur.route
    IN  IF older /\ newer THEN 2
        ELSE IF older THEN -1
        ELSE IF newer THEN 1
        ELSE IF cand.lease = cur.lease THEN 0 ELSE 2

OwnerStatus(cand, cur) ==
    LET relation == OwnerRelation(cand, cur)
    IN  IF relation < 0 THEN "STALE_OWNER"
        ELSE IF relation = 0 THEN "OK" ELSE "CONFLICT"

(***************************************************************************)
(* OPEN.                                                                    *)
(***************************************************************************)
OpenEqual(slot, o) ==
    /\ slot.request = o.request
    /\ OwnerRelation(slot.owner, o.owner) = 0
    /\ slot.shape = o.shape

NewSlot(o, now) ==
    [state |-> "ACTIVE", busy |-> FALSE, needs_restore |-> FALSE,
     owner |-> o.owner, request |-> o.request, shape |-> o.shape,
     next_sequence |-> 0, next_position |-> 0,
     expires_at |-> now + o.shape.ttl,
     pending |-> NoRun, pending_restore |-> NoTransfer,
     history |-> EmptyHistory, history_next |-> 0]

OpenStatus(t, o, now) ==
    LET slot == t[o.session]
    IN  IF IsActive(slot)
        THEN IF Expired(slot, now) THEN "EXPIRED"
             ELSE IF OpenEqual(slot, o) THEN "DUPLICATE"
             ELSE IF OwnerStatus(o.owner, slot.owner) = "OK" THEN "CONFLICT"
             ELSE OwnerStatus(o.owner, slot.owner)
        ELSE IF Cardinality(ActiveSessions(t)) >= MaxSessions THEN "QUOTA"
        ELSE "OK"

TableOpen(t, o, now) ==
    LET status == OpenStatus(t, o, now)
    IN  IF status = "OK" THEN [t EXCEPT ![o.session] = NewSlot(o, now)]
        ELSE IF status = "DUPLICATE"
             THEN [t EXCEPT ![o.session] = Touch(t[o.session], now)]
        ELSE t

(***************************************************************************)
(* RUN: begin reserves the slot, commit publishes, abort gives it back.     *)
(***************************************************************************)
\* A bound that forgets the rows of the run itself.
BugRunFits(shape, run) ==
    /\ run.rows > 0 /\ run.rows <= shape.max_rows
    /\ run.position <= shape.context

RunFits(shape, run) ==
    /\ run.rows > 0 /\ run.rows <= shape.max_rows
    /\ run.position + run.rows <= shape.context

SameRequestEntries(slot, run) ==
    {i \in 0..(HistorySlots - 1) : slot.history[i].request = run.request}

\* The entry answers for the run; the digest already covers the other fields.
EntryMatches(entry, run) ==
    /\ entry.sequence = run.sequence /\ entry.position = run.position
    /\ entry.rows = run.rows /\ entry.digest = Digest(run)

\* A reply cache keyed by the request id alone.
BugHistoryVerdict(slot, run) ==
    IF SameRequestEntries(slot, run) = {} THEN "FRESH" ELSE "DUPLICATE"

\* The first entry with the run's request id decides.
HistoryVerdict(slot, run) ==
    LET same == SameRequestEntries(slot, run)
        first == CHOOSE i \in same : \A j \in same : i <= j
    IN  IF same = {} THEN "FRESH"
        ELSE IF EntryMatches(slot.history[first], run) THEN "DUPLICATE"
        ELSE "CONFLICT"

\* Admission that trusts the client's order.
BugInOrder(slot, run) == run.position = slot.next_position

InOrder(slot, run) ==
    run.sequence = slot.next_sequence /\ run.position = slot.next_position

RunBeginStatus(t, run, now) ==
    LET slot == t[run.session]
    IN  IF ~IsActive(slot) THEN "NOT_FOUND"
        ELSE IF Expired(slot, now) THEN "EXPIRED"
        ELSE IF OwnerStatus(run.owner, slot.owner) # "OK"
             THEN OwnerStatus(run.owner, slot.owner)
        ELSE IF ~RunFits(slot.shape, run) THEN "BAD_REQUEST"
        ELSE IF HistoryVerdict(slot, run) # "FRESH" THEN HistoryVerdict(slot, run)
        ELSE IF slot.busy THEN "BUSY"
        ELSE IF slot.needs_restore THEN "NEEDS_RESTORE"
        ELSE IF ~InOrder(slot, run) THEN "OUT_OF_ORDER"
        ELSE "OK"

TableRunBegin(t, run, now) ==
    LET status == RunBeginStatus(t, run, now)
        slot == t[run.session]
    IN  IF status = "OK"
        THEN [t EXCEPT ![run.session] =
                [slot EXCEPT !.busy = TRUE, !.pending = run]]
        ELSE IF status = "DUPLICATE"
        THEN [t EXCEPT ![run.session] = Touch(slot, now)]
        ELSE t

\* seg_run_same does not compare the payload of the two runs.
RunSame(pending, run) ==
    /\ pending.request = run.request
    /\ pending.session = run.session
    /\ OwnerRelation(pending.owner, run.owner) = 0
    /\ pending.sequence = run.sequence /\ pending.position = run.position
    /\ pending.rows = run.rows

RunEndStatus(t, run) ==
    LET slot == t[run.session]
    IN  IF ~IsActive(slot) THEN "NOT_FOUND"
        ELSE IF ~slot.busy \/ ~RunSame(slot.pending, run) THEN "CONFLICT"
        ELSE "OK"

\* The digest kept is the one run_begin computed.
EntryOf(slot, run) ==
    [request |-> run.request, sequence |-> run.sequence,
     position |-> run.position, rows |-> run.rows,
     digest |-> Digest(slot.pending)]

\* A commit that lets the history index run off the ring.
BugCommitUnwrapped(slot, run, now) ==
    Touch([slot EXCEPT !.history[slot.history_next] = EntryOf(slot, run),
                       !.history_next = @ + 1,
                       !.next_sequence = @ + 1,
                       !.next_position = @ + run.rows,
                       !.busy = FALSE, !.pending = NoRun], now)

\* A commit that always writes the first slot of the ring.
BugCommitOneEntry(slot, run, now) ==
    Touch([slot EXCEPT !.history[0] = EntryOf(slot, run),
                       !.next_sequence = @ + 1,
                       !.next_position = @ + run.rows,
                       !.busy = FALSE, !.pending = NoRun], now)

CommittedSlot(slot, run, now) ==
    Touch([slot EXCEPT !.history[slot.history_next] = EntryOf(slot, run),
                       !.history_next = (@ + 1) % HistorySlots,
                       !.next_sequence = @ + 1,
                       !.next_position = @ + run.rows,
                       !.busy = FALSE, !.pending = NoRun], now)

TableRunCommit(t, run, now) ==
    IF RunEndStatus(t, run) = "OK"
    THEN [t EXCEPT ![run.session] = CommittedSlot(t[run.session], run, now)]
    ELSE t

TableRunAbort(t, run) ==
    IF RunEndStatus(t, run) = "OK"
    THEN [t EXCEPT ![run.session] =
            [t[run.session] EXCEPT !.busy = FALSE, !.pending = NoRun]]
    ELSE t

(***************************************************************************)
(* SNAPSHOT, RESTORE, fence.                                                *)
(***************************************************************************)
SnapshotStatus(t, x, now) ==
    LET slot == t[x.session]
    IN  IF ~IsActive(slot) THEN "NOT_FOUND"
        ELSE IF Expired(slot, now) THEN "EXPIRED"
        ELSE IF ~slot.shape.snapshot THEN "UNSUPPORTED"
        ELSE IF OwnerStatus(x.owner, slot.owner) # "OK"
             THEN OwnerStatus(x.owner, slot.owner)
        ELSE IF slot.busy THEN "BUSY"
        ELSE IF slot.needs_restore THEN "NEEDS_RESTORE"
        ELSE IF ~InOrder(slot, x) THEN "OUT_OF_ORDER"
        ELSE "OK"

TableSnapshotCheck(t, x, now) ==
    IF SnapshotStatus(t, x, now) = "OK"
    THEN [t EXCEPT ![x.session] = Touch(t[x.session], now)]
    ELSE t

\* A restore that the same owner may use to rewind its own session.
BugRestoreRewinds(slot, x) == FALSE

RestoreRewinds(slot, x) ==
    \/ x.sequence < slot.next_sequence
    \/ x.position < slot.next_position

RestorePointOk(slot, x) ==
    x.position <= slot.shape.context /\ x.sequence # SeqMax

RestoreStatus(t, x, now) ==
    LET slot == t[x.session]
        relation == OwnerRelation(x.owner, slot.owner)
    IN  IF ~IsActive(slot) THEN "NOT_FOUND"
        ELSE IF Expired(slot, now) THEN "EXPIRED"
        ELSE IF ~slot.shape.snapshot THEN "UNSUPPORTED"
        ELSE IF slot.busy THEN "BUSY"
        ELSE IF ~RestorePointOk(slot, x) THEN "BAD_REQUEST"
        ELSE IF relation < 0 THEN "STALE_OWNER"
        ELSE IF relation = 2 THEN "CONFLICT"
        ELSE IF relation = 0 /\ RestoreRewinds(slot, x) THEN "OUT_OF_ORDER"
        ELSE "OK"

\* The new owner, its state point, and no answers of the old one.
RestoredSlot(slot, x) ==
    [slot EXCEPT !.owner = x.owner, !.next_sequence = x.sequence,
                 !.next_position = x.position, !.needs_restore = FALSE,
                 !.history = EmptyHistory, !.history_next = 0]

TableRestoreCommit(t, x, now) ==
    IF RestoreStatus(t, x, now) = "OK"
    THEN [t EXCEPT ![x.session] = Touch(RestoredSlot(t[x.session], x), now)]
    ELSE t

TableRestoreBegin(t, x, now) ==
    IF RestoreStatus(t, x, now) = "OK"
    THEN [t EXCEPT ![x.session] =
            Touch([t[x.session] EXCEPT !.busy = TRUE, !.pending_restore = x], now)]
    ELSE t

\* A finish that releases whatever the session is busy with.
BugRestoreSame(pending, x) == TRUE

RestoreSame(pending, x) ==
    /\ pending.request = x.request
    /\ pending.sequence = x.sequence /\ pending.position = x.position
    /\ OwnerRelation(x.owner, pending.owner) = 0

RestoreFinishStatus(t, x) ==
    LET slot == t[x.session]
    IN  IF ~IsActive(slot) THEN "NOT_FOUND"
        ELSE IF ~slot.busy \/ ~RestoreSame(slot.pending_restore, x) THEN "CONFLICT"
        ELSE "OK"

TableRestoreFinish(t, x, commit, now) ==
    LET idle == [t[x.session] EXCEPT !.busy = FALSE,
                                     !.pending_restore = NoTransfer]
    IN  IF RestoreFinishStatus(t, x) = "OK"
        THEN [t EXCEPT ![x.session] =
                Touch(IF commit THEN RestoredSlot(idle, x) ELSE idle, now)]
        ELSE t

FenceStatus(t, s, owner, now) ==
    LET slot == t[s]
        relation == OwnerRelation(owner, slot.owner)
    IN  IF ~IsActive(slot) THEN "NOT_FOUND"
        ELSE IF Expired(slot, now) THEN "EXPIRED"
        ELSE IF slot.busy THEN "BUSY"
        ELSE IF relation < 0 THEN "STALE_OWNER"
        ELSE IF relation = 0 THEN "DUPLICATE"
        ELSE IF relation = 2 THEN "CONFLICT"
        ELSE "OK"

FencedSlot(slot, owner) ==
    [slot EXCEPT !.owner = owner, !.needs_restore = TRUE,
                 !.history = EmptyHistory, !.history_next = 0]

TableFence(t, s, owner, now) ==
    IF FenceStatus(t, s, owner, now) = "OK"
    THEN [t EXCEPT ![s] = Touch(FencedSlot(t[s], owner), now)]
    ELSE t

(***************************************************************************)
(* CLOSE and the reaper's scan.                                             *)
(***************************************************************************)
CloseStatus(t, c) ==
    LET slot == t[c.session]
    IN  IF ~IsActive(slot) THEN "NOT_FOUND"
        ELSE IF OwnerStatus(c.owner, slot.owner) # "OK"
             THEN OwnerStatus(c.owner, slot.owner)
        ELSE IF slot.busy THEN "BUSY"
        ELSE IF c.sequence # slot.next_sequence THEN "OUT_OF_ORDER"
        ELSE "OK"

TableClose(t, c) ==
    IF CloseStatus(t, c) = "OK" THEN [t EXCEPT ![c.session] = NoSlot] ELSE t

\* A reaper that looks at the deadline alone.
BugReapable(slot, now) == IsActive(slot) /\ Expired(slot, now)

Reapable(slot, now) == IsActive(slot) /\ ~slot.busy /\ Expired(slot, now)

TableReap(t, s) == [t EXCEPT ![s] = NoSlot]

(***************************************************************************)
(* What a slot owes: who holds it, and how it may change while it is open.  *)
(***************************************************************************)
HeldByRun(slot) == slot.pending # NoRun
HeldByRestore(slot) == slot.pending_restore # NoTransfer

SlotSound(s, slot) ==
    /\ slot.busy <=> (HeldByRun(slot) \/ HeldByRestore(slot))
    /\ ~(HeldByRun(slot) /\ HeldByRestore(slot))
    /\ HeldByRun(slot) =>
         /\ slot.pending.session = s
         /\ slot.pending.owner = slot.owner
         /\ InOrder(slot, slot.pending)
         /\ RunFits(slot.shape, slot.pending)
         /\ ~slot.needs_restore
    /\ HeldByRestore(slot) =>
         /\ slot.pending_restore.session = s
         /\ RestorePointOk(slot, slot.pending_restore)
         /\ OwnerRelation(slot.pending_restore.owner, slot.owner) \in {0, 1}
         /\ slot.pending_restore.owner = slot.owner =>
              ~RestoreRewinds(slot, slot.pending_restore)

Succeeds(new, old) ==
    /\ new.epoch >= old.epoch /\ new.route >= old.route
    /\ new # old => new.epoch > old.epoch \/ new.route > old.route

Evolves(slot, new) ==
    /\ Succeeds(new.owner, slot.owner)
    /\ new.owner = slot.owner =>
         /\ new.next_sequence >= slot.next_sequence
         /\ new.next_position >= slot.next_position

-----------------------------------------------------------------------------
(***************************************************************************)
(* What each lmb_seg_table_* call owes to the entry it writes, for any      *)
(* sessions, requests, owners, payloads and shapes, any history length and  *)
(* any SeqMax.  SlotInv is what every call keeps: an open entry is typed,   *)
(* within its limits and soundly reserved.                                  *)
(***************************************************************************)

SlotInv(s, slot) ==
    /\ slot \in Slots
    /\ slot.next_position <= slot.shape.context
    /\ slot.next_sequence <= SeqMax
    /\ SlotSound(s, slot)

-----------------------------------------------------------------------------
(* Owners. *)

\* An owner is its three fields, two of them numbers.
LEMMA OwnerFields ==
    ASSUME NEW a \in Owners, NEW b \in Owners
    PROVE  /\ a.epoch \in Nat /\ a.route \in Nat
           /\ b.epoch \in Nat /\ b.route \in Nat
           /\ (a.lease = b.lease /\ a.epoch = b.epoch /\ a.route = b.route)
                => a = b
<1>1. Epochs \subseteq Nat /\ Routes \subseteq Nat
    BY SegConstants
<1>2. /\ a.epoch \in Nat /\ a.route \in Nat
      /\ b.epoch \in Nat /\ b.route \in Nat
    BY <1>1 DEF Owners
<1>3. /\ a = [lease |-> a.lease, epoch |-> a.epoch, route |-> a.route]
      /\ b = [lease |-> b.lease, epoch |-> b.epoch, route |-> b.route]
    BY DEF Owners
<1> QED BY <1>2, <1>3

\* Relation 0 is equality of owners.
LEMMA SameOwner ==
    ASSUME NEW a \in Owners, NEW b \in Owners
    PROVE  OwnerRelation(a, b) = 0 <=> a = b
BY OwnerFields DEF OwnerRelation

\* A relation of 0 or 1 means neither counter is behind.
LEMMA NotOlder ==
    ASSUME NEW a \in Owners, NEW b \in Owners
    PROVE  OwnerRelation(a, b) \in {0, 1} => Succeeds(a, b)
BY OwnerFields DEF OwnerRelation, Succeeds

\* An owner succeeds itself.
LEMMA SucceedsRefl ==
    ASSUME NEW a \in Owners
    PROVE  Succeeds(a, a)
BY OwnerFields DEF Succeeds

\* seg_owner_relation's four results, of which only equality is OK.
LEMMA RelationRange ==
    ASSUME NEW a, NEW b
    PROVE  /\ OwnerRelation(a, b) \in {-1, 0, 1, 2}
           /\ OwnerStatus(a, b) = "OK" <=> OwnerRelation(a, b) = 0
BY DEF OwnerRelation, OwnerStatus

-----------------------------------------------------------------------------
(* What each call writes into an entry. *)

\* The zeroed pending fields are no frame.
LEMMA ZeroPending ==
    /\ NoRun \notin Runs /\ NoTransfer \notin Transfers
    /\ \A run \in Runs : run # NoRun
    /\ \A x \in Transfers : x # NoTransfer
BY SegConstants DEF NoRun, NoTransfer, Runs, Transfers

\* A zeroed history ring is well typed.
LEMMA EmptyHistoryType ==
    EmptyHistory \in [0..(HistorySlots - 1) -> Entries \cup {NoEntry}]
BY DEF EmptyHistory

\* The slot lmb_seg_table_open fills is sound.
LEMMA NewSlotInv ==
    ASSUME NEW o \in Opens, NEW n \in Nat
    PROVE  SlotInv(o.session, NewSlot(o, n))
<1>1. /\ o.owner \in Owners /\ o.request \in Requests /\ o.shape \in Shapes
      /\ o.shape.ttl \in Nat /\ o.shape.context \in Nat
    BY SegConstants DEF Opens
<1>2. 0 \in 0..(HistorySlots - 1)
    BY SegConstants
<1>3. NewSlot(o, n) \in Slots
    BY <1>1, <1>2, EmptyHistoryType DEF NewSlot, Slots
<1>4. SlotSound(o.session, NewSlot(o, n))
    BY DEF NewSlot, SlotSound, HeldByRun, HeldByRestore
<1> QED BY <1>1, <1>3, <1>4, SegConstants DEF SlotInv, NewSlot

\* The numbers of an OPEN's shape.
LEMMA ShapeFields ==
    ASSUME NEW shape \in Shapes
    PROVE  shape.context \in Nat /\ shape.max_rows \in Nat /\ shape.ttl \in Nat
BY SegConstants

\* The numbers of a RUN frame.
LEMMA RunFields ==
    ASSUME NEW run \in Runs
    PROVE  /\ run.rows \in Nat /\ run.position \in Nat /\ run.sequence \in Nat
           /\ run.sequence < SeqMax /\ SeqMax \in Nat
<1>1. SeqMax \in Nat /\ Positions \subseteq Nat /\ RowCounts \subseteq Nat
    BY SegConstants
<1>2. /\ run.rows \in RowCounts /\ run.position \in Positions
      /\ run.sequence \in 0..(SeqMax - 1)
    BY DEF Runs
<1>3. run.rows \in Nat /\ run.position \in Nat
    BY <1>1, <1>2
<1>4. run.sequence \in Nat /\ run.sequence < SeqMax
    BY <1>1, <1>2
<1> QED BY <1>1, <1>3, <1>4

\* seg_touch moves the deadline and nothing else.
LEMMA TouchInv ==
    ASSUME NEW s \in Sessions, NEW slot, SlotInv(s, slot), NEW n \in Nat
    PROVE  SlotInv(s, Touch(slot, n))
<1>1. slot \in Slots /\ slot.shape \in Shapes
    BY DEF SlotInv, Slots
<1>2. n + slot.shape.ttl \in Nat
    BY <1>1, ShapeFields
<1>3. Touch(slot, n) \in Slots
    BY <1>1, <1>2 DEF Touch, Slots
<1>4. SlotSound(s, Touch(slot, n))
    BY <1>1 DEF SlotInv, SlotSound, Touch, HeldByRun, HeldByRestore, InOrder,
                RestorePointOk, RestoreRewinds, Slots
<1> QED BY <1>1, <1>3, <1>4 DEF SlotInv, Touch, Slots

\* run_begin reserves an idle slot for the run that continues it.
LEMMA BeginInv ==
    ASSUME NEW run \in Runs, NEW slot, SlotInv(run.session, slot), ~slot.busy,
           ~slot.needs_restore, InOrder(slot, run), RunFits(slot.shape, run),
           OwnerRelation(run.owner, slot.owner) = 0
    PROVE  SlotInv(run.session, [slot EXCEPT !.busy = TRUE, !.pending = run])
<1> DEFINE new == [slot EXCEPT !.busy = TRUE, !.pending = run]
<1>1. slot \in Slots /\ slot.owner \in Owners /\ run.owner \in Owners
    BY DEF SlotInv, Slots, Runs
<1>2. run.owner = slot.owner
    BY <1>1, SameOwner
<1>3. new \in Slots
    BY <1>1 DEF Slots
<1>4. /\ new.busy /\ new.pending = run /\ new.owner = slot.owner
      /\ new.shape = slot.shape /\ new.needs_restore = slot.needs_restore
      /\ new.next_sequence = slot.next_sequence
      /\ new.next_position = slot.next_position
      /\ new.pending_restore = slot.pending_restore
    BY <1>1 DEF Slots
<1>5. slot.pending_restore = NoTransfer
    BY DEF SlotInv, SlotSound, HeldByRun, HeldByRestore
<1>6. SlotSound(run.session, new)
    <2> HIDE DEF new
    <2> QED BY <1>2, <1>4, <1>5, ZeroPending
            DEF SlotSound, HeldByRun, HeldByRestore, InOrder
<1> QED BY <1>3, <1>4, <1>6 DEF SlotInv

\* run_abort gives the slot back.
LEMMA AbortInv ==
    ASSUME NEW s \in Sessions, NEW slot, SlotInv(s, slot), HeldByRun(slot)
    PROVE  SlotInv(s, [slot EXCEPT !.busy = FALSE, !.pending = NoRun])
<1> DEFINE new == [slot EXCEPT !.busy = FALSE, !.pending = NoRun]
<1>1. slot \in Slots
    BY DEF SlotInv
<1>2. new \in Slots
    BY <1>1 DEF Slots
<1>3. /\ ~new.busy /\ new.pending = NoRun
      /\ new.shape = slot.shape
      /\ new.next_sequence = slot.next_sequence
      /\ new.next_position = slot.next_position
      /\ new.pending_restore = slot.pending_restore
    BY <1>1 DEF Slots
<1>4. slot.pending_restore = NoTransfer
    BY DEF SlotInv, SlotSound, HeldByRestore
<1>5. SlotSound(s, new)
    <2> HIDE DEF new
    <2> QED BY <1>3, <1>4 DEF SlotSound, HeldByRun, HeldByRestore
<1> QED BY <1>2, <1>3, <1>5 DEF SlotInv

\* A run that matches the pending one is the pending one but for its payload.
LEMMA SameRun ==
    ASSUME NEW run \in Runs, NEW slot, SlotInv(run.session, slot), slot.busy,
           RunSame(slot.pending, run)
    PROVE  /\ HeldByRun(slot) /\ slot.pending \in Runs
           /\ run.rows = slot.pending.rows
           /\ run.sequence = slot.pending.sequence
           /\ run.position = slot.pending.position
           /\ run.request = slot.pending.request
<1>1. slot.pending \in Runs \cup {NoRun} /\ run.request \in Requests
    BY DEF SlotInv, Slots, Runs
<1>2. slot.pending.request = run.request
    BY DEF RunSame
<1>3. slot.pending # NoRun
    BY <1>1, <1>2, SegConstants DEF NoRun
<1> QED BY <1>1, <1>3 DEF HeldByRun, RunSame

\* run_commit publishes the reserved run.
LEMMA CommitInv ==
    ASSUME NEW run \in Runs, NEW slot, SlotInv(run.session, slot), slot.busy,
           RunSame(slot.pending, run), NEW n \in Nat
    PROVE  /\ SlotInv(run.session, CommittedSlot(slot, run, n))
           /\ CommittedSlot(slot, run, n).owner = slot.owner
           /\ CommittedSlot(slot, run, n).next_sequence = slot.next_sequence + 1
           /\ CommittedSlot(slot, run, n).next_position >= slot.next_position
<1> DEFINE H == 0..(HistorySlots - 1)
           next == (slot.history_next + 1) % HistorySlots
           mid == [slot EXCEPT !.history[slot.history_next] = EntryOf(slot, run),
                               !.history_next = next,
                               !.next_sequence = @ + 1,
                               !.next_position = @ + run.rows,
                               !.busy = FALSE, !.pending = NoRun]
<1>1. slot \in Slots /\ slot.shape \in Shapes /\ slot.history_next \in H
      /\ slot.history \in [H -> Entries \cup {NoEntry}]
      /\ slot.next_sequence \in Nat /\ slot.next_position \in Nat
    BY DEF SlotInv, Slots
<1>2. /\ HeldByRun(slot) /\ slot.pending \in Runs
      /\ run.rows = slot.pending.rows /\ run.sequence = slot.pending.sequence
      /\ run.position = slot.pending.position
    BY SameRun
<1>3. /\ slot.pending.position = slot.next_position
      /\ slot.pending.sequence = slot.next_sequence
      /\ RunFits(slot.shape, slot.pending)
      /\ slot.pending_restore = NoTransfer
    BY <1>2 DEF SlotInv, SlotSound, InOrder, HeldByRestore
<1>4. /\ run.rows \in Nat /\ run.position \in Nat /\ run.sequence \in Nat
      /\ run.sequence < SeqMax /\ SeqMax \in Nat
    BY RunFields
<1>5. EntryOf(slot, run) \in Entries
    <2>1. slot.pending.rows \in Nat /\ slot.pending.position \in Nat
          /\ slot.pending.sequence \in Nat
        BY <1>2, <1>4
    <2> QED BY <1>2, <1>4, <2>1 DEF EntryOf, Entries, Digest, Runs
<1>6. next \in H
    BY <1>1, SegConstants
<1>7. slot.next_position + run.rows <= slot.shape.context
    BY <1>2, <1>3 DEF RunFits
<1>8. mid \in Slots
    <2>1. [slot.history EXCEPT ![slot.history_next] = EntryOf(slot, run)]
            \in [H -> Entries \cup {NoEntry}]
        BY <1>1, <1>5
    <2>2. slot.next_sequence + 1 \in Nat /\ slot.next_position + run.rows \in Nat
        BY <1>1, <1>4
    <2> QED BY <1>1, <1>6, <2>1, <2>2 DEF Slots
<1>9. /\ ~mid.busy /\ mid.pending = NoRun /\ mid.shape = slot.shape
      /\ mid.owner = slot.owner
      /\ mid.next_sequence = slot.next_sequence + 1
      /\ mid.next_position = slot.next_position + run.rows
      /\ mid.pending_restore = slot.pending_restore
    BY <1>1 DEF Slots
<1>10. SlotInv(run.session, mid)
    <2>1. SlotSound(run.session, mid)
        <3> HIDE DEF mid
        <3> QED BY <1>3, <1>9 DEF SlotSound, HeldByRun, HeldByRestore
    <2> HIDE DEF mid
    <2> QED BY <1>1, <1>2, <1>3, <1>4, <1>7, <1>8, <1>9, <2>1 DEF SlotInv
<1>11. run.session \in Sessions
    BY DEF Runs
<1>12. CommittedSlot(slot, run, n) = Touch(mid, n)
    BY DEF CommittedSlot
<1>13. /\ Touch(mid, n).owner = mid.owner
       /\ Touch(mid, n).next_sequence = mid.next_sequence
       /\ Touch(mid, n).next_position = mid.next_position
    <2> HIDE DEF mid
    <2> QED BY <1>8 DEF Touch, Slots
<1> HIDE DEF mid
<1> QED BY <1>1, <1>4, <1>9, <1>10, <1>11, <1>12, <1>13, TouchInv

\* The fields of a SNAPSHOT or RESTORE frame.
LEMMA TransferFields ==
    ASSUME NEW x \in Transfers
    PROVE  /\ x.session \in Sessions /\ x.owner \in Owners
           /\ x.request \in Requests
           /\ x.position \in Nat /\ x.sequence \in Nat /\ x.sequence <= SeqMax
<1>1. SeqMax \in Nat /\ Positions \subseteq Nat
    BY SegConstants
<1>2. /\ x.session \in Sessions /\ x.owner \in Owners /\ x.request \in Requests
      /\ x.position \in Positions /\ x.sequence \in 0..SeqMax
    BY DEF Transfers
<1>3. x.position \in Nat
    BY <1>1, <1>2
<1>4. x.sequence \in Nat /\ x.sequence <= SeqMax
    BY <1>1, <1>2
<1> QED BY <1>2, <1>3, <1>4

\* restore_begin reserves an idle slot for one restore.
LEMMA RestoreBeginInv ==
    ASSUME NEW x \in Transfers, NEW slot, SlotInv(x.session, slot), ~slot.busy,
           RestorePointOk(slot, x), OwnerRelation(x.owner, slot.owner) \in {0, 1},
           OwnerRelation(x.owner, slot.owner) = 0 => ~RestoreRewinds(slot, x)
    PROVE  SlotInv(x.session, [slot EXCEPT !.busy = TRUE, !.pending_restore = x])
<1> DEFINE new == [slot EXCEPT !.busy = TRUE, !.pending_restore = x]
<1>1. slot \in Slots /\ slot.owner \in Owners /\ x.owner \in Owners
    BY TransferFields DEF SlotInv, Slots
<1>2. new \in Slots
    BY <1>1 DEF Slots
<1>3. /\ new.busy /\ new.pending_restore = x /\ new.owner = slot.owner
      /\ new.shape = slot.shape
      /\ new.next_sequence = slot.next_sequence
      /\ new.next_position = slot.next_position
      /\ new.pending = slot.pending
    BY <1>1 DEF Slots
<1>4. slot.pending = NoRun
    BY DEF SlotInv, SlotSound, HeldByRun, HeldByRestore
<1>5. x.owner = slot.owner => ~RestoreRewinds(slot, x)
    BY <1>1, SameOwner
<1>6. SlotSound(x.session, new)
    <2> HIDE DEF new
    <2> QED BY <1>3, <1>4, <1>5, ZeroPending
            DEF SlotSound, HeldByRun, HeldByRestore, RestorePointOk, RestoreRewinds
<1> QED BY <1>2, <1>3, <1>6 DEF SlotInv

\* A published restore leaves an idle slot at the restored point.
LEMMA RestoredInv ==
    ASSUME NEW x \in Transfers, NEW slot, SlotInv(x.session, slot), ~slot.busy,
           RestorePointOk(slot, x)
    PROVE  /\ SlotInv(x.session, RestoredSlot(slot, x))
           /\ RestoredSlot(slot, x).owner = x.owner
           /\ RestoredSlot(slot, x).next_sequence = x.sequence
           /\ RestoredSlot(slot, x).next_position = x.position
<1> DEFINE new == RestoredSlot(slot, x)
<1>1. slot \in Slots /\ x.owner \in Owners
      /\ x.sequence \in Nat /\ x.position \in Nat /\ x.sequence <= SeqMax
    BY TransferFields DEF SlotInv
<1>2. 0 \in 0..(HistorySlots - 1)
    BY SegConstants
<1>3. new \in Slots
    BY <1>1, <1>2, EmptyHistoryType DEF Slots, RestoredSlot
<1>4. /\ new.busy = slot.busy /\ new.owner = x.owner
      /\ new.shape = slot.shape
      /\ new.next_sequence = x.sequence
      /\ new.next_position = x.position
      /\ new.pending = slot.pending
      /\ new.pending_restore = slot.pending_restore
    BY <1>1 DEF Slots, RestoredSlot
<1>5. slot.pending = NoRun /\ slot.pending_restore = NoTransfer
    BY DEF SlotInv, SlotSound, HeldByRun, HeldByRestore
<1> HIDE DEF new
<1>6. SlotSound(x.session, new)
    BY <1>4, <1>5 DEF SlotSound, HeldByRun, HeldByRestore
<1>7. SlotInv(x.session, new)
    BY <1>1, <1>3, <1>4, <1>6 DEF SlotInv, RestorePointOk
<1> QED BY <1>4, <1>7 DEF new

\* restore_finish finds the reservation it made, and releasing it leaves the
\* slot idle and otherwise as it was.
LEMMA FinishInv ==
    ASSUME NEW x \in Transfers, NEW slot, SlotInv(x.session, slot), slot.busy,
           RestoreSame(slot.pending_restore, x)
    PROVE  LET idle == [slot EXCEPT !.busy = FALSE, !.pending_restore = NoTransfer]
           IN  /\ SlotInv(x.session, idle) /\ ~idle.busy
               /\ idle.owner = slot.owner /\ idle.shape = slot.shape
               /\ idle.next_sequence = slot.next_sequence
               /\ idle.next_position = slot.next_position
               /\ RestorePointOk(idle, x)
               /\ OwnerRelation(x.owner, slot.owner) \in {0, 1}
               /\ x.owner = slot.owner => ~RestoreRewinds(slot, x)
<1> DEFINE idle == [slot EXCEPT !.busy = FALSE, !.pending_restore = NoTransfer]
           pr == slot.pending_restore
<1>1. slot \in Slots /\ pr \in Transfers \cup {NoTransfer}
      /\ x.request \in Requests /\ x.owner \in Owners
    BY TransferFields DEF SlotInv, Slots
<1>2. pr.request = x.request /\ pr.sequence = x.sequence
      /\ pr.position = x.position /\ OwnerRelation(x.owner, pr.owner) = 0
    BY DEF RestoreSame
<1>3. pr # NoTransfer
    BY <1>1, <1>2, SegConstants DEF NoTransfer
<1>4. pr.owner \in Owners
    BY <1>1, <1>3, TransferFields
<1>5. pr.owner = x.owner
    BY <1>1, <1>2, <1>4, SameOwner
<1>6. /\ slot.pending = NoRun
      /\ RestorePointOk(slot, pr)
      /\ OwnerRelation(pr.owner, slot.owner) \in {0, 1}
      /\ pr.owner = slot.owner => ~RestoreRewinds(slot, pr)
    BY <1>3 DEF SlotInv, SlotSound, HeldByRun, HeldByRestore
<1>7. idle \in Slots
    BY <1>1 DEF Slots
<1>8. /\ ~idle.busy /\ idle.pending_restore = NoTransfer
      /\ idle.pending = slot.pending /\ idle.shape = slot.shape
      /\ idle.owner = slot.owner
      /\ idle.next_sequence = slot.next_sequence
      /\ idle.next_position = slot.next_position
    BY <1>1 DEF Slots
<1> HIDE DEF idle, pr
<1>9. SlotInv(x.session, idle)
    BY <1>6, <1>7, <1>8 DEF SlotInv, SlotSound, HeldByRun, HeldByRestore
<1>10. RestorePointOk(idle, x)
    BY <1>2, <1>6, <1>8 DEF RestorePointOk
<1>11. x.owner = slot.owner => ~RestoreRewinds(slot, x)
    BY <1>2, <1>5, <1>6 DEF RestoreRewinds
<1>12. OwnerRelation(x.owner, slot.owner) \in {0, 1}
    BY <1>5, <1>6
<1> QED BY <1>8, <1>9, <1>10, <1>11, <1>12 DEF idle

\* fence replaces the owner and asks for a restore.
LEMMA FenceInv ==
    ASSUME NEW s \in Sessions, NEW owner \in Owners, NEW slot,
           SlotInv(s, slot), ~slot.busy
    PROVE  /\ SlotInv(s, FencedSlot(slot, owner))
           /\ FencedSlot(slot, owner).owner = owner
           /\ FencedSlot(slot, owner).next_sequence = slot.next_sequence
           /\ FencedSlot(slot, owner).next_position = slot.next_position
<1> DEFINE new == FencedSlot(slot, owner)
<1>1. slot \in Slots
    BY DEF SlotInv
<1>2. 0 \in 0..(HistorySlots - 1)
    BY SegConstants
<1>3. new \in Slots
    BY <1>1, <1>2, EmptyHistoryType DEF Slots, FencedSlot
<1>4. /\ new.busy = slot.busy /\ new.owner = owner /\ new.shape = slot.shape
      /\ new.next_sequence = slot.next_sequence
      /\ new.next_position = slot.next_position
      /\ new.pending = slot.pending
      /\ new.pending_restore = slot.pending_restore
    BY <1>1 DEF Slots, FencedSlot
<1>5. slot.pending = NoRun /\ slot.pending_restore = NoTransfer
    BY DEF SlotInv, SlotSound, HeldByRun, HeldByRestore
<1> HIDE DEF new
<1>6. SlotInv(s, new)
    BY <1>3, <1>4, <1>5 DEF SlotInv, SlotSound, HeldByRun, HeldByRestore
<1> QED BY <1>4, <1>6 DEF new

\* The fields of a sound slot.
LEMMA SlotFields ==
    ASSUME NEW s, NEW slot, SlotInv(s, slot)
    PROVE  /\ slot \in Slots /\ slot.owner \in Owners /\ slot.shape \in Shapes
           /\ slot.next_sequence \in Nat /\ slot.next_position \in Nat
           /\ slot # NoSlot /\ IsActive(slot)
BY DEF SlotInv, Slots, NoSlot, IsActive

\* The three outcomes of the history lookup.
LEMMA VerdictRange ==
    ASSUME NEW slot, NEW run
    PROVE  HistoryVerdict(slot, run) \in {"FRESH", "DUPLICATE", "CONFLICT"}
BY DEF HistoryVerdict

\* What a restore that is let in satisfies.
LEMMA RestoreAdmitted ==
    ASSUME NEW t, NEW n, NEW x \in Transfers, RestoreStatus(t, x, n) = "OK"
    PROVE  /\ IsActive(t[x.session]) /\ ~t[x.session].busy
           /\ RestorePointOk(t[x.session], x)
           /\ OwnerRelation(x.owner, t[x.session].owner) \in {0, 1}
           /\ OwnerRelation(x.owner, t[x.session].owner) = 0
                => ~RestoreRewinds(t[x.session], x)
BY RelationRange DEF RestoreStatus

\* seg_touch changes nothing but the deadline.
LEMMA TouchFields ==
    ASSUME NEW slot \in Slots, NEW n
    PROVE  /\ Touch(slot, n).owner = slot.owner
           /\ Touch(slot, n).next_sequence = slot.next_sequence
           /\ Touch(slot, n).next_position = slot.next_position
BY DEF Touch, Slots

\* What a committed slot holds.
LEMMA CommittedFields ==
    ASSUME NEW slot \in Slots, NEW run \in Runs, NEW n \in Nat
    PROVE  /\ CommittedSlot(slot, run, n).history =
                [slot.history EXCEPT ![slot.history_next] = EntryOf(slot, run)]
           /\ CommittedSlot(slot, run, n).history_next =
                (slot.history_next + 1) % HistorySlots
           /\ CommittedSlot(slot, run, n).next_sequence = slot.next_sequence + 1
           /\ CommittedSlot(slot, run, n).next_position = slot.next_position + run.rows
           /\ CommittedSlot(slot, run, n).owner = slot.owner
           /\ CommittedSlot(slot, run, n).shape = slot.shape
           /\ CommittedSlot(slot, run, n).needs_restore = slot.needs_restore
           /\ CommittedSlot(slot, run, n).pending = NoRun
           /\ CommittedSlot(slot, run, n).pending_restore = slot.pending_restore
<1> DEFINE mid == [slot EXCEPT !.history[slot.history_next] = EntryOf(slot, run),
                               !.history_next = (slot.history_next + 1) % HistorySlots,
                               !.next_sequence = slot.next_sequence + 1,
                               !.next_position = slot.next_position + run.rows,
                               !.busy = FALSE, !.pending = NoRun]
<1>1. CommittedSlot(slot, run, n) = [mid EXCEPT !.expires_at = n + mid.shape.ttl]
    BY DEF CommittedSlot, Touch
<1>2. /\ mid.history = [slot.history EXCEPT
                          ![slot.history_next] = EntryOf(slot, run)]
      /\ mid.history_next = (slot.history_next + 1) % HistorySlots
      /\ mid.next_sequence = slot.next_sequence + 1
      /\ mid.next_position = slot.next_position + run.rows
      /\ mid.owner = slot.owner /\ mid.shape = slot.shape
      /\ mid.needs_restore = slot.needs_restore
      /\ mid.pending = NoRun
      /\ mid.pending_restore = slot.pending_restore
    BY DEF Slots
<1> HIDE DEF mid
<1> QED BY <1>1, <1>2

-----------------------------------------------------------------------------
(* What each call does to a whole table, for those who drive one: the entry *)
(* it names stays sound, the others are left alone, and what the entry says *)
(* of its holder and its point changes only as stated.                      *)

WellKept(t) == t \in Tables /\ \A s \in Sessions : t[s] = NoSlot \/ SlotInv(s, t[s])

\* Only the entry of s differs between two tables.
OnlyAt(s, t, new) == \A r \in Sessions : r # s => new[r] = t[r]

\* Two values of an entry with the same holder and the same point.
Alike(slot, new) ==
    /\ IsActive(new) <=> IsActive(slot)
    /\ new.pending = slot.pending /\ new.pending_restore = slot.pending_restore
    /\ new.next_sequence = slot.next_sequence
    /\ new.next_position = slot.next_position

\* An entry of a table that is well kept.
LEMMA KeptEntry ==
    ASSUME NEW t, WellKept(t), NEW s \in Sessions
    PROVE  /\ t \in [Sessions -> Slots \cup {NoSlot}]
           /\ IsActive(t[s]) <=> t[s] # NoSlot
           /\ IsActive(t[s]) => SlotInv(s, t[s]) /\ t[s] \in Slots
<1>1. ~IsActive(NoSlot)
    BY DEF IsActive, NoSlot
<1> QED BY <1>1, SlotFields DEF WellKept, Tables

\* One entry written, and soundly.
LEMMA KeptWrite ==
    ASSUME NEW t, WellKept(t), NEW s \in Sessions, NEW slot,
           slot = NoSlot \/ SlotInv(s, slot)
    PROVE  /\ WellKept([t EXCEPT ![s] = slot])
           /\ OnlyAt(s, t, [t EXCEPT ![s] = slot])
           /\ [t EXCEPT ![s] = slot][s] = slot
<1> DEFINE new == [t EXCEPT ![s] = slot]
<1>1. t \in [Sessions -> Slots \cup {NoSlot}] /\ slot \in Slots \cup {NoSlot}
    BY KeptEntry DEF SlotInv
<1>2. new \in [Sessions -> Slots \cup {NoSlot}] /\ new[s] = slot
      /\ \A r \in Sessions : r # s => new[r] = t[r]
    BY <1>1
<1> QED BY <1>2 DEF WellKept, OnlyAt, Tables

\* An entry touched.
LEMMA TouchCall ==
    ASSUME NEW t, WellKept(t), NEW s \in Sessions, IsActive(t[s]), NEW n \in Nat,
           NEW new, new = [t EXCEPT ![s] = Touch(t[s], n)]
    PROVE  WellKept(new) /\ OnlyAt(s, t, new) /\ Alike(t[s], new[s])
<1>1. SlotInv(s, t[s]) /\ t[s] \in Slots
    BY KeptEntry
<1>2. SlotInv(s, Touch(t[s], n))
    BY <1>1, TouchInv
<1>3. WellKept(new) /\ OnlyAt(s, t, new) /\ new[s] = Touch(t[s], n)
    BY <1>2, KeptWrite
<1>4. Alike(t[s], Touch(t[s], n))
    BY <1>1 DEF Touch, Slots, Alike, IsActive
<1> QED BY <1>3, <1>4

\* A table left as it was.
LEMMA NoCall ==
    ASSUME NEW t, WellKept(t), NEW s
    PROVE  WellKept(t) /\ OnlyAt(s, t, t) /\ Alike(t[s], t[s])
BY DEF OnlyAt, Alike

\* lmb_seg_table_open.
LEMMA OpenCall ==
    ASSUME NEW t, WellKept(t), NEW o \in Opens, NEW n \in Nat
    PROVE  LET s == o.session  new == TableOpen(t, o, n) IN
           /\ WellKept(new) /\ OnlyAt(s, t, new)
           /\ OpenStatus(t, o, n) = "OK" =>
                /\ ~IsActive(t[s]) /\ IsActive(new[s])
                /\ new[s].pending = NoRun /\ new[s].pending_restore = NoTransfer
                /\ new[s].next_sequence = 0 /\ new[s].next_position = 0
           /\ OpenStatus(t, o, n) # "OK" => Alike(t[s], new[s])
<1> DEFINE s == o.session
           new == TableOpen(t, o, n)
<1>1. s \in Sessions
    BY DEF Opens
<1>2. CASE OpenStatus(t, o, n) = "OK"
    <2>1. new = [t EXCEPT ![s] = NewSlot(o, n)]
        BY <1>2 DEF TableOpen
    <2>2. SlotInv(s, NewSlot(o, n))
        BY NewSlotInv
    <2>3. ~IsActive(t[s])
        BY <1>2 DEF OpenStatus, OwnerStatus
    <2> HIDE DEF new, s
    <2>4. WellKept(new) /\ OnlyAt(s, t, new) /\ new[s] = NewSlot(o, n)
        BY <1>1, <2>1, <2>2, KeptWrite
    <2> QED BY <1>2, <2>3, <2>4 DEF NewSlot, IsActive, new, s
<1>3. CASE OpenStatus(t, o, n) = "DUPLICATE"
    <2>1. new = [t EXCEPT ![s] = Touch(t[s], n)] /\ IsActive(t[s])
        BY <1>3 DEF TableOpen, OpenStatus
    <2> HIDE DEF new, s
    <2> QED BY <1>1, <1>3, <2>1, TouchCall DEF new, s
<1>4. CASE OpenStatus(t, o, n) \notin {"OK", "DUPLICATE"}
    <2>1. new = t
        BY <1>4 DEF TableOpen
    <2> HIDE DEF new, s
    <2> QED BY <1>4, <2>1, NoCall DEF new, s
<1> QED BY <1>2, <1>3, <1>4

\* lmb_seg_table_run_begin.
LEMMA RunBeginCall ==
    ASSUME NEW t, WellKept(t), NEW run \in Runs, NEW n \in Nat
    PROVE  LET s == run.session  new == TableRunBegin(t, run, n) IN
           /\ WellKept(new) /\ OnlyAt(s, t, new)
           /\ RunBeginStatus(t, run, n) = "OK" =>
                /\ IsActive(t[s]) /\ IsActive(new[s])
                /\ t[s].pending = NoRun /\ new[s].pending = run
                /\ new[s].pending_restore = t[s].pending_restore
                /\ new[s].next_sequence = t[s].next_sequence
                /\ new[s].next_position = t[s].next_position
           /\ RunBeginStatus(t, run, n) # "OK" => Alike(t[s], new[s])
           /\ RunBeginStatus(t, run, n) = "DUPLICATE" => IsActive(t[s])
<1> DEFINE s == run.session
           slot == t[s]
           held == [slot EXCEPT !.busy = TRUE, !.pending = run]
           new == TableRunBegin(t, run, n)
<1>1. s \in Sessions
    BY DEF Runs
<1>2. CASE RunBeginStatus(t, run, n) = "OK"
    <2>1. new = [t EXCEPT ![s] = held]
        BY <1>2 DEF TableRunBegin
    <2>2. /\ IsActive(slot) /\ ~slot.busy /\ ~slot.needs_restore
          /\ InOrder(slot, run) /\ RunFits(slot.shape, run)
          /\ OwnerStatus(run.owner, slot.owner) = "OK"
        BY <1>2, VerdictRange DEF RunBeginStatus
    <2>3. SlotInv(s, slot) /\ slot \in Slots
        BY <1>1, <2>2, KeptEntry
    <2>4. SlotInv(s, held)
        BY <2>2, <2>3, RelationRange, BeginInv
    <2>5. /\ held.pending = run /\ held.pending_restore = slot.pending_restore
          /\ held.next_sequence = slot.next_sequence
          /\ held.next_position = slot.next_position
        BY <2>3 DEF Slots
    <2>6. slot.pending = NoRun
        BY <2>2, <2>3 DEF SlotInv, SlotSound, HeldByRun
    <2> HIDE DEF held, new, s
    <2>7. WellKept(new) /\ OnlyAt(s, t, new) /\ new[s] = held
        BY <1>1, <2>1, <2>4, KeptWrite
    <2>8. IsActive(held)
        BY <2>4, SlotFields
    <2> QED BY <1>2, <2>2, <2>5, <2>6, <2>7, <2>8 DEF new, s
<1>3. CASE RunBeginStatus(t, run, n) = "DUPLICATE"
    <2>1. new = [t EXCEPT ![s] = Touch(t[s], n)] /\ IsActive(t[s])
        BY <1>3 DEF TableRunBegin, RunBeginStatus
    <2> HIDE DEF new, s, slot
    <2> QED BY <1>1, <1>3, <2>1, TouchCall DEF new, s
<1>4. CASE RunBeginStatus(t, run, n) \notin {"OK", "DUPLICATE"}
    <2>1. new = t
        BY <1>4 DEF TableRunBegin
    <2> HIDE DEF new, s
    <2> QED BY <1>4, <2>1, NoCall DEF new, s
<1> QED BY <1>2, <1>3, <1>4

\* A run is the same as itself.
LEMMA RunSameRefl ==
    ASSUME NEW run \in Runs
    PROVE  RunSame(run, run)
<1>1. run.owner \in Owners
    BY DEF Runs
<1> QED BY <1>1, SameOwner DEF RunSame

\* lmb_seg_table_run_commit, by the holder of the reservation.
LEMMA RunCommitCall ==
    ASSUME NEW t, WellKept(t), NEW run \in Runs, NEW n \in Nat,
           IsActive(t[run.session]), t[run.session].pending = run
    PROVE  LET s == run.session  new == TableRunCommit(t, run, n) IN
           /\ RunEndStatus(t, run) = "OK"
           /\ WellKept(new) /\ OnlyAt(s, t, new) /\ IsActive(new[s])
           /\ new[s].pending = NoRun
           /\ new[s].pending_restore = t[s].pending_restore
           /\ new[s].next_sequence = run.sequence + 1
           /\ new[s].next_position = run.position + run.rows
<1> DEFINE s == run.session
           slot == t[s]
           done == CommittedSlot(slot, run, n)
           new == TableRunCommit(t, run, n)
<1>1. s \in Sessions /\ run # NoRun
    BY ZeroPending DEF Runs
<1>2. SlotInv(s, slot) /\ slot \in Slots
    BY <1>1, KeptEntry
<1>3. /\ slot.busy /\ RunSame(slot.pending, run)
      /\ run.sequence = slot.next_sequence /\ run.position = slot.next_position
    BY <1>1, <1>2, RunSameRefl DEF SlotInv, SlotSound, HeldByRun, InOrder
<1>4. RunEndStatus(t, run) = "OK"
    BY <1>3 DEF RunEndStatus
<1>5. SlotInv(s, done)
    BY <1>2, <1>3, CommitInv
<1>6. /\ done.pending = NoRun /\ done.pending_restore = slot.pending_restore
      /\ done.next_sequence = slot.next_sequence + 1
      /\ done.next_position = slot.next_position + run.rows
    <2>1. PICK c \in Slots : c = slot
        BY <1>2
    <2> HIDE DEF slot, done
    <2>2. done = CommittedSlot(c, run, n)
        BY <2>1 DEF done
    <2>3. /\ CommittedSlot(c, run, n).pending = NoRun
          /\ CommittedSlot(c, run, n).pending_restore = c.pending_restore
          /\ CommittedSlot(c, run, n).next_sequence = c.next_sequence + 1
          /\ CommittedSlot(c, run, n).next_position = c.next_position + run.rows
        BY CommittedFields
    <2> QED BY <2>1, <2>2, <2>3
<1>7. slot.pending_restore = NoTransfer
    BY <1>1, <1>2 DEF SlotInv, SlotSound, HeldByRun, HeldByRestore
<1>8. new = [t EXCEPT ![s] = done]
    BY <1>4 DEF TableRunCommit
<1>9. done.pending_restore = NoTransfer
    BY <1>6, <1>7
<1> HIDE DEF done, new, s
<1>10. WellKept(new) /\ OnlyAt(s, t, new) /\ new[s] = done
    BY <1>1, <1>5, <1>8, KeptWrite
<1> QED BY <1>3, <1>4, <1>5, <1>6, <1>7, <1>9, <1>10, SlotFields DEF new, s

\* lmb_seg_table_run_abort, by the holder of the reservation.
LEMMA RunAbortCall ==
    ASSUME NEW t, WellKept(t), NEW run \in Runs,
           IsActive(t[run.session]), t[run.session].pending = run
    PROVE  LET s == run.session  new == TableRunAbort(t, run) IN
           /\ WellKept(new) /\ OnlyAt(s, t, new) /\ IsActive(new[s])
           /\ new[s].pending = NoRun
           /\ new[s].pending_restore = t[s].pending_restore
           /\ new[s].next_sequence = t[s].next_sequence
           /\ new[s].next_position = t[s].next_position
<1> DEFINE s == run.session
           slot == t[s]
           free == [slot EXCEPT !.busy = FALSE, !.pending = NoRun]
           new == TableRunAbort(t, run)
<1>1. s \in Sessions /\ run # NoRun
    BY ZeroPending DEF Runs
<1>2. SlotInv(s, slot) /\ slot \in Slots
    BY <1>1, KeptEntry
<1>3. /\ slot.busy /\ RunSame(slot.pending, run) /\ HeldByRun(slot)
    BY <1>1, <1>2, RunSameRefl DEF SlotInv, SlotSound, HeldByRun
<1>4. RunEndStatus(t, run) = "OK"
    BY <1>3 DEF RunEndStatus
<1>5. new = [t EXCEPT ![s] = free]
    BY <1>4 DEF TableRunAbort
<1>6. SlotInv(s, free)
    BY <1>1, <1>2, <1>3, AbortInv
<1>7. /\ free.pending = NoRun /\ free.pending_restore = slot.pending_restore
      /\ free.next_sequence = slot.next_sequence
      /\ free.next_position = slot.next_position
    BY <1>2 DEF Slots
<1> HIDE DEF free, new, s, slot
<1>8. WellKept(new) /\ OnlyAt(s, t, new) /\ new[s] = free
    BY <1>1, <1>5, <1>6, KeptWrite
<1> QED BY <1>6, <1>7, <1>8, SlotFields DEF new, s, slot

\* lmb_seg_table_snapshot_check.
LEMMA SnapshotCall ==
    ASSUME NEW t, WellKept(t), NEW x \in Transfers, NEW n \in Nat
    PROVE  LET s == x.session  new == TableSnapshotCheck(t, x, n) IN
           /\ WellKept(new) /\ OnlyAt(s, t, new) /\ Alike(t[s], new[s])
<1> DEFINE s == x.session
           new == TableSnapshotCheck(t, x, n)
<1>1. s \in Sessions
    BY TransferFields
<1>2. CASE SnapshotStatus(t, x, n) = "OK"
    <2>1. new = [t EXCEPT ![s] = Touch(t[s], n)] /\ IsActive(t[s])
        BY <1>2 DEF TableSnapshotCheck, SnapshotStatus
    <2> HIDE DEF new, s
    <2> QED BY <1>1, <2>1, TouchCall DEF new, s
<1>3. CASE SnapshotStatus(t, x, n) # "OK"
    <2>1. new = t
        BY <1>3 DEF TableSnapshotCheck
    <2> HIDE DEF new, s
    <2> QED BY <2>1, NoCall DEF new, s
<1> QED BY <1>2, <1>3

\* lmb_seg_table_restore_begin.
LEMMA RestoreBeginCall ==
    ASSUME NEW t, WellKept(t), NEW x \in Transfers, NEW n \in Nat
    PROVE  LET s == x.session  new == TableRestoreBegin(t, x, n) IN
           /\ WellKept(new) /\ OnlyAt(s, t, new)
           /\ RestoreStatus(t, x, n) = "OK" =>
                /\ IsActive(t[s]) /\ IsActive(new[s])
                /\ t[s].pending = NoRun /\ t[s].pending_restore = NoTransfer
                /\ new[s].pending = NoRun /\ new[s].pending_restore = x
                /\ new[s].next_sequence = t[s].next_sequence
                /\ new[s].next_position = t[s].next_position
           /\ RestoreStatus(t, x, n) # "OK" => new = t
<1> DEFINE s == x.session
           slot == t[s]
           mid == [slot EXCEPT !.busy = TRUE, !.pending_restore = x]
           held == Touch(mid, n)
           new == TableRestoreBegin(t, x, n)
<1>1. s \in Sessions
    BY TransferFields
<1>2. CASE RestoreStatus(t, x, n) = "OK"
    <2>1. new = [t EXCEPT ![s] = held]
        BY <1>2 DEF TableRestoreBegin
    <2>2. /\ IsActive(slot) /\ ~slot.busy /\ RestorePointOk(slot, x)
          /\ OwnerRelation(x.owner, slot.owner) \in {0, 1}
          /\ OwnerRelation(x.owner, slot.owner) = 0 => ~RestoreRewinds(slot, x)
        BY <1>2, RestoreAdmitted
    <2>3. SlotInv(s, slot) /\ slot \in Slots
        BY <1>1, <2>2, KeptEntry
    <2>4. slot.pending = NoRun /\ slot.pending_restore = NoTransfer
        BY <2>2, <2>3 DEF SlotInv, SlotSound, HeldByRun, HeldByRestore
    <2>5. SlotInv(s, mid)
        BY <2>2, <2>3, RestoreBeginInv
    <2>6. /\ mid.pending = slot.pending /\ mid.pending_restore = x
          /\ mid.next_sequence = slot.next_sequence
          /\ mid.next_position = slot.next_position
        BY <2>3 DEF Slots
    <2> HIDE DEF mid
    <2>7. SlotInv(s, held)
        BY <1>1, <2>5, TouchInv
    <2>8. /\ held.pending = mid.pending
          /\ held.pending_restore = mid.pending_restore
          /\ held.next_sequence = mid.next_sequence
          /\ held.next_position = mid.next_position
        <3>1. held = [mid EXCEPT !.expires_at = n + mid.shape.ttl]
            BY DEF Touch
        <3> QED BY <3>1
    <2> HIDE DEF held, new, s, slot
    <2>9. WellKept(new) /\ OnlyAt(s, t, new) /\ new[s] = held
        BY <1>1, <2>1, <2>7, KeptWrite
    <2> QED BY <1>2, <2>2, <2>4, <2>6, <2>7, <2>8, <2>9, SlotFields
            DEF new, s, slot
<1>3. CASE RestoreStatus(t, x, n) # "OK"
    <2>1. new = t
        BY <1>3 DEF TableRestoreBegin
    <2> HIDE DEF new, s
    <2> QED BY <1>3, <2>1, NoCall DEF new, s
<1> QED BY <1>2, <1>3

\* lmb_seg_table_restore_finish.
LEMMA RestoreFinishCall ==
    ASSUME NEW t, WellKept(t), NEW x \in Transfers, NEW commit \in BOOLEAN,
           NEW n \in Nat
    PROVE  LET s == x.session  new == TableRestoreFinish(t, x, commit, n) IN
           /\ WellKept(new) /\ OnlyAt(s, t, new)
           /\ RestoreFinishStatus(t, x) # "OK" => new = t
           /\ RestoreFinishStatus(t, x) = "OK" =>
                /\ IsActive(t[s]) /\ IsActive(new[s])
                /\ t[s].pending_restore # NoTransfer
                /\ RestoreSame(t[s].pending_restore, x)
                /\ t[s].pending = NoRun /\ new[s].pending = NoRun
                /\ new[s].pending_restore = NoTransfer
                /\ commit => /\ new[s].next_sequence = x.sequence
                             /\ new[s].next_position = x.position
                /\ ~commit => /\ new[s].next_sequence = t[s].next_sequence
                              /\ new[s].next_position = t[s].next_position
<1> DEFINE s == x.session
           slot == t[s]
           idle == [slot EXCEPT !.busy = FALSE, !.pending_restore = NoTransfer]
           new == TableRestoreFinish(t, x, commit, n)
<1>1. s \in Sessions /\ x.request # ZeroId
    BY TransferFields, SegConstants
<1>2. CASE RestoreFinishStatus(t, x) = "OK"
    <2>1. IsActive(slot) /\ slot.busy /\ RestoreSame(slot.pending_restore, x)
        BY <1>2 DEF RestoreFinishStatus
    <2>2. SlotInv(s, slot) /\ slot \in Slots
        BY <1>1, <2>1, KeptEntry
    <2>3. slot.pending_restore # NoTransfer
        BY <1>1, <2>1 DEF RestoreSame, NoTransfer
    <2>4. slot.pending = NoRun
        BY <2>2, <2>3 DEF SlotInv, SlotSound, HeldByRun, HeldByRestore
    <2>5. /\ SlotInv(s, idle) /\ ~idle.busy /\ RestorePointOk(idle, x)
          /\ idle.next_sequence = slot.next_sequence
          /\ idle.next_position = slot.next_position
        BY <2>1, <2>2, FinishInv
    <2>6. idle.pending = NoRun /\ idle.pending_restore = NoTransfer
        BY <2>2, <2>4 DEF Slots
    <2> DEFINE mid == IF commit THEN RestoredSlot(idle, x) ELSE idle
               last == Touch(mid, n)
    <2>7. new = [t EXCEPT ![s] = last]
        BY <1>2 DEF TableRestoreFinish
    <2> HIDE DEF idle
    <2>8. /\ SlotInv(s, mid) /\ mid.pending = NoRun
          /\ mid.pending_restore = NoTransfer
          /\ mid.next_sequence = IF commit THEN x.sequence ELSE slot.next_sequence
          /\ mid.next_position = IF commit THEN x.position ELSE slot.next_position
        <3>1. CASE commit
            <4>1. /\ SlotInv(s, RestoredSlot(idle, x))
                  /\ RestoredSlot(idle, x).next_sequence = x.sequence
                  /\ RestoredSlot(idle, x).next_position = x.position
                BY <2>5, RestoredInv
            <4>2. /\ RestoredSlot(idle, x).pending = NoRun
                  /\ RestoredSlot(idle, x).pending_restore = NoTransfer
                BY <2>6 DEF RestoredSlot
            <4> QED BY <3>1, <4>1, <4>2
        <3>2. CASE ~commit
            BY <2>5, <2>6, <3>2
        <3> QED BY <3>1, <3>2
    <2> HIDE DEF mid
    <2>9. SlotInv(s, last)
        BY <1>1, <2>8, TouchInv
    <2>10. /\ last.pending = mid.pending
           /\ last.pending_restore = mid.pending_restore
           /\ last.next_sequence = mid.next_sequence
           /\ last.next_position = mid.next_position
        <3>1. last = [mid EXCEPT !.expires_at = n + mid.shape.ttl]
            BY DEF Touch
        <3> QED BY <3>1
    <2> HIDE DEF last, new, s, slot
    <2>11. WellKept(new) /\ OnlyAt(s, t, new) /\ new[s] = last
        BY <1>1, <2>7, <2>9, KeptWrite
    <2> QED BY <1>2, <2>1, <2>3, <2>4, <2>8, <2>9, <2>10, <2>11, SlotFields
            DEF new, s, slot
<1>3. CASE RestoreFinishStatus(t, x) # "OK"
    <2>1. new = t
        BY <1>3 DEF TableRestoreFinish
    <2> HIDE DEF new, s
    <2> QED BY <1>3, <2>1, NoCall DEF new, s
<1> QED BY <1>2, <1>3

\* lmb_seg_table_close and lmb_seg_table_reap_expired take away only an entry
\* that nothing holds.
LEMMA RemoveCall ==
    ASSUME NEW t, WellKept(t), NEW s \in Sessions, IsActive(t[s]), ~t[s].busy
    PROVE  LET new == [t EXCEPT ![s] = NoSlot] IN
           /\ WellKept(new) /\ OnlyAt(s, t, new) /\ ~IsActive(new[s])
           /\ t[s].pending = NoRun /\ t[s].pending_restore = NoTransfer
<1> DEFINE new == [t EXCEPT ![s] = NoSlot]
<1>1. SlotInv(s, t[s])
    BY KeptEntry
<1>2. t[s].pending = NoRun /\ t[s].pending_restore = NoTransfer
    BY <1>1 DEF SlotInv, SlotSound, HeldByRun, HeldByRestore
<1>3. WellKept(new) /\ OnlyAt(s, t, new) /\ new[s] = NoSlot
    BY KeptWrite
<1>4. ~IsActive(NoSlot)
    BY DEF IsActive, NoSlot
<1> QED BY <1>2, <1>3, <1>4

\* A reservation is held by a run or by a restore, not by both.
LEMMA OneHolder ==
    ASSUME NEW t, WellKept(t), NEW s \in Sessions, IsActive(t[s])
    PROVE  /\ t[s].busy <=> (t[s].pending # NoRun \/ t[s].pending_restore # NoTransfer)
           /\ t[s].pending = NoRun \/ t[s].pending_restore = NoTransfer
           /\ t[s].pending # NoRun =>
                /\ t[s].pending \in Runs /\ t[s].pending.session = s
                /\ t[s].pending.sequence = t[s].next_sequence
                /\ t[s].pending.position = t[s].next_position
           /\ t[s].pending_restore # NoTransfer =>
                t[s].pending_restore \in Transfers /\ t[s].pending_restore.session = s
           /\ t[s].next_sequence \in Nat /\ t[s].next_position \in Nat
<1>1. SlotInv(s, t[s]) /\ t[s] \in Slots
    BY KeptEntry
<1>2. /\ t[s].pending \in Runs \cup {NoRun}
      /\ t[s].pending_restore \in Transfers \cup {NoTransfer}
      /\ t[s].next_sequence \in Nat /\ t[s].next_position \in Nat
    BY <1>1 DEF Slots
<1> QED BY <1>1, <1>2 DEF SlotInv, SlotSound, HeldByRun, HeldByRestore, InOrder
=============================================================================
