---------------------------- MODULE SegmentNode ----------------------------
(***************************************************************************)
(* The session side of a Segment node (segment_node.c): the connection      *)
(* workers that serve OPEN, RUN, SNAPSHOT, RESTORE and CLOSE, the reaper,    *)
(* the slots that hold an engine session each, and the two kinds of lock    *)
(* between them.  The table is SegSession's: the node keeps the contract    *)
(* there and the engine state in a slot, and must never let them disagree.  *)
(*                                                                          *)
(* A step is what a thread does between two points where it may wait.       *)
(* session_lock_id waits twice: for sessions_lock to find the slot, then,   *)
(* with sessions_lock given back, for the slot's own lock.  HEALTH, PING,   *)
(* and every reply change nothing and are left out, as is an OPEN the       *)
(* memory governor, the drain flag or the engine refuses.  The run gate,    *)
(* the compute broker and the governor are one choice: a run is admitted    *)
(* or not (RunGate models the gate).  A snapshot is Chunks chunks long.     *)
(* Only the distance of a deadline from the present matters, so the clock   *)
(* stands at Now and time passing moves the deadlines: time is unbounded.   *)
(*                                                                          *)
(* The engine is external.  Its session is the point it has reached and the *)
(* session it computed for.  A failed run leaves it where it was, which is   *)
(* what handle_run counts on when it keeps the session.  A restore may fail  *)
(* on either side of the engine: handle_restore also refuses an upload that  *)
(* the engine has taken (bytes are left over), and nothing puts the engine   *)
(* back: it is astray until a restore of the session is accepted.            *)
(***************************************************************************)
EXTENDS SegSession, Sequences, FiniteSetTheorems

CONSTANTS Workers,         \* connection workers
          Reaper,          \* the session_reaper thread
          Nobody,          \* holder of a free lock
          SlotIds,         \* indexes of node->sessions
          OpenFrames, RunFrames, TransferFrames, CloseFrames,
          Chunks,          \* chunks of a snapshot
          RestoreIdle,     \* the reaper's 60000 ms
          Now              \* the present, to which every deadline is relative

ASSUME NodeConstants ==
    /\ Reaper \notin Workers /\ Nobody \notin Workers \cup {Reaper}
    /\ IsFiniteSet(SlotIds) /\ SlotIds # {}
    /\ OpenFrames \subseteq Opens /\ RunFrames \subseteq Runs
    /\ TransferFrames \subseteq Transfers /\ CloseFrames \subseteq Controls
    /\ Chunks \in Nat \ {0} /\ RestoreIdle \in Nat \ {0}
    /\ Now \in Nat /\ Now >= RestoreIdle

VARIABLES table,           \* lmb_seg_table
          quiet,           \* the clients have gone
          slots,           \* node->sessions
          slot_lock,       \* holder of each slot's lock
          sessions_lock,   \* holder of node->sessions_lock
          active,          \* registration.advert.active_sessions
          fault,           \* lmb_resident_process_guard.fault
          pc,              \* what each thread does next
          job,             \* the frame it serves
          at,              \* the slot it found
          spent            \* ids whose session has ended (history variable)

vars == <<table, quiet, slots, slot_lock, sessions_lock, active, fault, pc, job,
          at, spent>>

Threads == Workers \cup {Reaper}

NoJob == [kind |-> "none"]
NoPoint == [session |-> ZeroId, sequence |-> 0, position |-> 0]

\* An engine session: where it stands, and whether a refused restore moved it.
NoEngine == [point |-> NoPoint, astray |-> FALSE]
NewEngine(s) == [point |-> [NoPoint EXCEPT !.session = s], astray |-> FALSE]
NoSnapshot == [label |-> NoPoint, state |-> NoEngine]

\* The state of a session after sequence runs over position rows.
Point(f) == [session |-> f.session, sequence |-> f.sequence, position |-> f.position]

EmptySlot ==
    [used |-> FALSE, id |-> ZeroId, engine |-> NoEngine, cached |-> ZeroId,
     snapshot |-> NoSnapshot, restore |-> NoTransfer, received |-> 0,
     updated |-> 0, restored |-> NoTransfer]

Jobs == {NoJob}
    \cup [kind : {"open"}, frame : OpenFrames]
    \cup [kind : {"run", "duplicate"}, frame : RunFrames]
    \cup [kind : {"snapshot"}, frame : TransferFrames, offset : 0..(Chunks - 1)]
    \cup [kind : {"restore"}, frame : TransferFrames, offset : 0..(Chunks - 1)]
    \cup [kind : {"close"}, frame : CloseFrames]
    \cup [kind : {"reap"}, frame : [session : Sessions]]

Points == [session : Sessions \cup {ZeroId}, sequence : Nat, position : Nat]

Engines == [point : Points, astray : BOOLEAN]

NodeSlots ==
    [used : BOOLEAN, id : Sessions \cup {ZeroId}, engine : Engines,
     cached : Requests \cup {ZeroId},
     snapshot : [label : Points, state : Engines],
     restore : Transfers \cup {NoTransfer}, received : 0..Chunks, updated : Nat,
     restored : Transfers \cup {NoTransfer}]

-----------------------------------------------------------------------------
(***************************************************************************)
(* Slots.                                                                   *)
(***************************************************************************)
Holding(s) == {i \in SlotIds : slots[i].used /\ slots[i].id = s}
Empty == {i \in SlotIds : ~slots[i].used}

Goto(t, label) == pc' = [pc EXCEPT ![t] = label]
Finish(t) ==
    /\ Goto(t, "idle")
    /\ job' = [job EXCEPT ![t] = NoJob]

Unlocked(i) == [slot_lock EXCEPT ![i] = Nobody]

\* A release that forgets the count the tracker and the controller read.
BugSessionRelease(i) ==
    /\ slots' = [slots EXCEPT ![i] = EmptySlot]
    /\ slot_lock' = Unlocked(i)
    /\ UNCHANGED active

\* session_release_locked: both locks are held, the slot's is given back.
SessionRelease(i) ==
    /\ slots' = [slots EXCEPT ![i] = EmptySlot]
    /\ slot_lock' = Unlocked(i)
    /\ active' = IF active > 0 THEN active - 1 ELSE 0

\* A worker takes up a frame; no client is obliged to send one.
Serves(t) == pc[t] = "idle" /\ ~quiet

-----------------------------------------------------------------------------
(***************************************************************************)
(* session_lock_id.                                                         *)
(***************************************************************************)
\* The lookup: the slot to wait for, or the caller's path without one.
Find(t) ==
    /\ pc[t] = "find"
    /\ sessions_lock = Nobody
    /\ LET s == job[t].frame.session IN
       \/ \E i \in Holding(s) :
            /\ Goto(t, "wait")
            /\ at' = [at EXCEPT ![t] = i]
            /\ UNCHANGED job
       \/ /\ Holding(s) = {}
          /\ UNCHANGED at
          /\ IF job[t].kind = "run" THEN Goto(t, "abort") /\ UNCHANGED job
             ELSE Finish(t)
    /\ UNCHANGED <<table, quiet, slots, slot_lock, sessions_lock, active, fault, spent>>

\* The slot found is taken to be still the session's.
BugStillIts(i, s) == TRUE

StillIts(i, s) == slots[i].used /\ slots[i].id = s

\* The slot's lock, and the check that it is still that session's slot.
LockSlot(t) ==
    /\ pc[t] = "wait"
    /\ slot_lock[at[t]] = Nobody
    /\ IF StillIts(at[t], job[t].frame.session)
       THEN /\ slot_lock' = [slot_lock EXCEPT ![at[t]] = t]
            /\ Goto(t, "held")
            /\ UNCHANGED job
       ELSE UNCHANGED slot_lock /\ Finish(t)
    /\ UNCHANGED <<table, quiet, slots, sessions_lock, active, fault, at, spent>>

-----------------------------------------------------------------------------
(***************************************************************************)
(* OPEN: sessions_lock is held from the lookup to the slot's installation.  *)
(***************************************************************************)
\* A client names a session once (a random id) and never reopens it.
OpenEnter(t, o) ==
    /\ Serves(t)
    /\ sessions_lock = Nobody
    /\ o.session \notin spent
    /\ Holding(o.session) # {} \/ Empty # {}
    /\ table' = TableOpen(table, o, Now)
    /\ IF Holding(o.session) = {} /\ OpenStatus(table, o, Now) = "OK"
       THEN /\ sessions_lock' = t
            /\ Goto(t, "install")
            /\ job' = [job EXCEPT ![t] = [kind |-> "open", frame |-> o]]
            /\ \E i \in Empty : at' = [at EXCEPT ![t] = i]
       ELSE UNCHANGED <<sessions_lock, pc, job, at>>
    /\ UNCHANGED <<quiet, slots, slot_lock, active, fault, spent>>

OpenInstall(t) ==
    /\ pc[t] = "install"
    /\ slot_lock[at[t]] = Nobody
    /\ LET s == job[t].frame.session IN
       slots' = [slots EXCEPT ![at[t]] =
                   [@ EXCEPT !.used = TRUE, !.id = s,
                             !.engine = NewEngine(s)]]
    /\ active' = active + 1
    /\ sessions_lock' = Nobody
    /\ Finish(t)
    /\ UNCHANGED <<table, quiet, slot_lock, fault, at, spent>>

-----------------------------------------------------------------------------
(***************************************************************************)
(* RUN: the table reserves the session, the slot's lock holds the engine.   *)
(***************************************************************************)
RunEnter(t, run) ==
    /\ Serves(t)
    /\ table' = TableRunBegin(table, run, Now)
    /\ LET status == RunBeginStatus(table, run, Now)
           kind == IF status = "OK" THEN "run" ELSE "duplicate"
       IN  IF status \in {"OK", "DUPLICATE"}
           THEN /\ Goto(t, "find")
                /\ job' = [job EXCEPT ![t] = [kind |-> kind, frame |-> run]]
           ELSE UNCHANGED <<pc, job>>
    /\ UNCHANGED <<quiet, slots, slot_lock, sessions_lock, active, fault, at, spent>>

\* The reply comes from the cache, or says NEEDS_RESTORE: nothing runs.
AnswerDuplicate(t) ==
    /\ pc[t] = "held" /\ job[t].kind = "duplicate"
    /\ slot_lock' = Unlocked(at[t])
    /\ Finish(t)
    /\ UNCHANGED <<table, quiet, slots, sessions_lock, active, fault, at, spent>>

\* Admission that only the gate decides.
BugAdmits(lost) == TRUE

\* lmb_resident_memory_check comes before the gate; a fault is never cleared.
Admits(lost) == ~lost

RunAdmit(t) ==
    /\ pc[t] = "held" /\ job[t].kind = "run"
    /\ \E lost \in {fault, TRUE} :
         /\ fault' = lost
         /\ \/ Admits(lost) /\ Goto(t, "execute")
            \/ Goto(t, "abort")
    /\ UNCHANGED <<table, quiet, slots, slot_lock, sessions_lock, active, job, at, spent>>

Advanced(point, run) ==
    [point EXCEPT !.sequence = run.sequence + 1, !.position = run.position + run.rows]

\* coli_segment_run, then the check that the weights stayed resident.
RunExecute(t) ==
    /\ pc[t] = "execute"
    /\ \E lost \in {fault, TRUE}, failed \in BOOLEAN :
         /\ fault' = lost
         /\ slots' = IF failed THEN slots
                     ELSE [slots EXCEPT ![at[t]].engine.point =
                             Advanced(@, job[t].frame)]
         /\ Goto(t, IF failed \/ lost THEN "abort" ELSE "commit")
    /\ UNCHANGED <<table, quiet, slot_lock, sessions_lock, active, job, at, spent>>

Committed(slot, run) == [slot EXCEPT !.cached = run.request, !.snapshot = NoSnapshot]

RunCommit(t) ==
    /\ pc[t] = "commit"
    /\ table' = TableRunCommit(table, job[t].frame, Now)
    /\ slots' = IF RunEndStatus(table, job[t].frame) = "OK"
                THEN [slots EXCEPT ![at[t]] = Committed(@, job[t].frame)]
                ELSE slots
    /\ slot_lock' = Unlocked(at[t])
    /\ Finish(t)
    /\ UNCHANGED <<quiet, sessions_lock, active, fault, at, spent>>

RunAbort(t) ==
    /\ pc[t] = "abort"
    /\ table' = TableRunAbort(table, job[t].frame)
    /\ slot_lock' = [i \in SlotIds |-> IF slot_lock[i] = t THEN Nobody ELSE slot_lock[i]]
    /\ Finish(t)
    /\ UNCHANGED <<quiet, slots, sessions_lock, active, fault, at, spent>>

-----------------------------------------------------------------------------
(***************************************************************************)
(* SNAPSHOT: the table checks the point, then the slot's lock is taken.     *)
(***************************************************************************)
SnapshotEnter(t, x, offset) ==
    /\ Serves(t)
    /\ table' = TableSnapshotCheck(table, x, Now)
    /\ IF SnapshotStatus(table, x, Now) = "OK"
       THEN /\ Goto(t, "find")
            /\ job' = [job EXCEPT ![t] = [kind |-> "snapshot", frame |-> x,
                                          offset |-> offset]]
       ELSE UNCHANGED <<pc, job>>
    /\ UNCHANGED <<quiet, slots, slot_lock, sessions_lock, active, fault, at, spent>>

\* The first request takes the snapshot, or fails to; the others read it.
SnapshotServe(t) ==
    /\ pc[t] = "held" /\ job[t].kind = "snapshot"
    /\ \/ UNCHANGED slots
       \/ /\ job[t].offset = 0
          /\ slots' = [slots EXCEPT ![at[t]].snapshot =
                         [label |-> Point(job[t].frame), state |-> slots[at[t]].engine]]
    /\ slot_lock' = Unlocked(at[t])
    /\ Finish(t)
    /\ UNCHANGED <<table, quiet, sessions_lock, active, fault, at, spent>>

-----------------------------------------------------------------------------
(***************************************************************************)
(* RESTORE: everything happens under the slot's lock.                       *)
(***************************************************************************)
RestoreEnter(t, x, offset) ==
    /\ Serves(t)
    /\ Goto(t, "find")
    /\ job' = [job EXCEPT ![t] = [kind |-> "restore", frame |-> x, offset |-> offset]]
    /\ UNCHANGED <<table, quiet, slots, slot_lock, sessions_lock, active, fault, at, spent>>

\* The same upload: the owner is not compared.
SameUpload(upload, x) ==
    /\ upload.request = x.request
    /\ upload.sequence = x.sequence /\ upload.position = x.position

\* A client draws a request id per upload (remote_restore, segment_chat.c), so
\* the frames of one upload are of one owner: the handler counts on it.
ASSUME UploadsNamed ==
    \A x, y \in TransferFrames :
        x.session = y.session /\ SameUpload(x, y) => x.owner = y.owner

Restores(t) == pc[t] = "held" /\ job[t].kind = "restore"

\* A chunk already received is taken for the next one.
BugChunkFits(slot, offset) == offset <= slot.received

ChunkFits(slot, offset) == offset = slot.received

\* The frame of an upload already committed, or of none, or out of order.
RestoreIgnored(t) ==
    LET x == job[t].frame
        slot == slots[at[t]]
    IN  /\ Restores(t)
        /\ \/ SameUpload(slot.restored, x)
           \/ ~SameUpload(slot.restore, x) /\ job[t].offset > 0
           \/ SameUpload(slot.restore, x) /\ ~ChunkFits(slot, job[t].offset)
        /\ slot_lock' = Unlocked(at[t])
        /\ Finish(t)
        /\ UNCHANGED <<table, quiet, slots, sessions_lock, active, fault, at, spent>>

\* BEGIN reserves the session; a snapshot too large for the node, or for its
\* memory, gives the reservation back.
RestoreBegin(t) ==
    LET x == job[t].frame
        slot == slots[at[t]]
        begun == TableRestoreBegin(table, x, Now)
    IN  /\ Restores(t)
        /\ ~SameUpload(slot.restored, x) /\ ~SameUpload(slot.restore, x)
        /\ job[t].offset = 0
        /\ \/ /\ RestoreStatus(table, x, Now) = "OK"
              /\ table' = begun
              /\ slots' = [slots EXCEPT ![at[t]] =
                             [@ EXCEPT !.restore = x, !.received = 0]]
              /\ UNCHANGED <<slot_lock, pc, job>>
           \/ /\ table' = IF RestoreStatus(table, x, Now) = "BUSY" THEN table
                          ELSE TableRestoreFinish(begun, x, FALSE, Now)
              /\ UNCHANGED slots
              /\ slot_lock' = Unlocked(at[t])
              /\ Finish(t)
        /\ UNCHANGED <<quiet, sessions_lock, active, fault, at, spent>>

\* What the engine makes of the whole stream: it takes the state and has read
\* every byte, it takes the state and leaves bytes over, or it refuses.
Outcomes == {"restored", "overlong", "refused"}

Restored(engine, x, outcome) ==
    CASE outcome = "restored" -> [point |-> Point(x), astray |-> FALSE]
      [] outcome = "overlong" -> [point |-> Point(x), astray |-> TRUE]
      [] outcome = "refused" -> engine

\* The next chunk; the last one hands the stream to the engine, unless it is
\* shorter than BEGIN announced.
RestoreChunk(t) ==
    LET x == job[t].frame
        slot == slots[at[t]]
        got == [slot EXCEPT !.received = @ + 1, !.updated = Now]
    IN  /\ Restores(t)
        /\ ~SameUpload(slot.restored, x) /\ SameUpload(slot.restore, x)
        /\ ChunkFits(slot, job[t].offset)
        /\ IF job[t].offset < Chunks - 1
           THEN /\ slots' = [slots EXCEPT ![at[t]] = got]
                /\ slot_lock' = Unlocked(at[t])
                /\ Finish(t)
           ELSE \E outcome \in IF got.received = Chunks THEN Outcomes ELSE {"refused"} :
                /\ slots' = [slots EXCEPT ![at[t]] =
                               [got EXCEPT !.engine = Restored(@, x, outcome)]]
                /\ Goto(t, IF outcome = "restored" THEN "restored" ELSE "refused")
                /\ UNCHANGED <<slot_lock, job>>
        /\ UNCHANGED <<table, quiet, sessions_lock, active, fault, at, spent>>

\* A finish that reports every upload as failed.
BugKept(t) == FALSE

Kept(t) == pc[t] = "restored"

\* The table learns what became of the upload; the buffer goes either way.
RestoreEnd(t) ==
    LET x == job[t].frame
        slot == slots[at[t]]
        kept == Kept(t) /\ RestoreFinishStatus(table, x) = "OK"
    IN  /\ pc[t] \in {"restored", "refused"}
        /\ table' = TableRestoreFinish(table, x, Kept(t), Now)
        /\ slots' = [slots EXCEPT ![at[t]] =
                       [slot EXCEPT !.restore = NoTransfer, !.received = 0,
                                    !.restored = IF kept THEN x ELSE @,
                                    !.cached = IF kept THEN ZeroId ELSE @]]
        /\ slot_lock' = Unlocked(at[t])
        /\ Finish(t)
        /\ UNCHANGED <<quiet, sessions_lock, active, fault, at, spent>>

-----------------------------------------------------------------------------
(***************************************************************************)
(* CLOSE: under sessions_lock, with the slot's lock only tried.             *)
(***************************************************************************)
CloseEnter(t, c) ==
    /\ Serves(t)
    /\ sessions_lock = Nobody
    /\ sessions_lock' = t
    /\ Goto(t, "close")
    /\ job' = [job EXCEPT ![t] = [kind |-> "close", frame |-> c]]
    /\ UNCHANGED <<table, quiet, slots, slot_lock, active, fault, at, spent>>

\* A close that waits for the slot with sessions_lock in hand.
BugTryReturns(i) == slot_lock[i] = Nobody

TryReturns(i) == TRUE

Close(t) ==
    LET c == job[t].frame
        mine == Holding(c.session)
        closes == CloseStatus(table, c) = "OK" /\ \A i \in mine : slot_lock[i] = Nobody
    IN  /\ pc[t] = "close"
        /\ \A i \in mine : TryReturns(i)
        /\ table' = IF closes THEN TableClose(table, c) ELSE table
        /\ spent' = IF closes THEN spent \cup {c.session} ELSE spent
        /\ IF closes /\ mine # {}
           THEN \E i \in mine : SessionRelease(i)
           ELSE UNCHANGED <<slots, slot_lock, active>>
        /\ sessions_lock' = Nobody
        /\ Finish(t)
        /\ UNCHANGED <<quiet, fault, at>>

-----------------------------------------------------------------------------
(***************************************************************************)
(* The reaper.                                                              *)
(***************************************************************************)
\* A sweep that leaves uploads to their clients.
BugStale(slot) == FALSE

Stale(slot) == slot.restore # NoTransfer /\ Now - slot.updated >= RestoreIdle

\* One pass under sessions_lock: abandoned uploads in the slots it can lock.
Sweep ==
    LET swept == {i \in SlotIds : slots[i].used /\ slot_lock[i] = Nobody /\ Stale(slots[i])}
        of(s) == CHOOSE i \in swept : slots[i].id = s
    IN  /\ pc[Reaper] = "idle"
        /\ sessions_lock = Nobody
        /\ swept # {}
        /\ table' = [s \in Sessions |->
                       IF \E i \in swept : slots[i].id = s
                       THEN TableRestoreFinish(table, slots[of(s)].restore, FALSE, Now)[s]
                       ELSE table[s]]
        /\ slots' = [i \in SlotIds |->
                       IF i \in swept
                       THEN [slots[i] EXCEPT !.restore = NoTransfer, !.received = 0]
                       ELSE slots[i]]
        /\ UNCHANGED <<quiet, slot_lock, sessions_lock, active, fault, pc, job, at, spent>>

ReapExpired(s) ==
    /\ pc[Reaper] = "idle"
    /\ Reapable(table[s], Now)
    /\ table' = TableReap(table, s)
    /\ spent' = spent \cup {s}
    /\ Goto(Reaper, "find")
    /\ job' = [job EXCEPT ![Reaper] = [kind |-> "reap", frame |-> [session |-> s]]]
    /\ UNCHANGED <<quiet, slots, slot_lock, sessions_lock, active, fault, at>>

\* Holding the slot, the reaper waits for sessions_lock and looks again.
ReapRelease ==
    LET i == at[Reaper] IN
    /\ pc[Reaper] = "held"
    /\ sessions_lock = Nobody
    /\ IF StillIts(i, job[Reaper].frame.session)
       THEN SessionRelease(i)
       ELSE slot_lock' = Unlocked(i) /\ UNCHANGED <<slots, active>>
    /\ Finish(Reaper)
    /\ UNCHANGED <<table, quiet, sessions_lock, fault, at, spent>>

-----------------------------------------------------------------------------
Aged(moment) == IF moment > 0 THEN moment - 1 ELSE 0

\* Time passes: the present stays Now and every moment recedes from it.
Elapse ==
    /\ table' = [s \in Sessions |->
                   IF IsActive(table[s]) THEN [table[s] EXCEPT !.expires_at = Aged(@)]
                   ELSE table[s]]
    /\ slots' = [i \in SlotIds |-> [slots[i] EXCEPT !.updated = Aged(@)]]
    /\ UNCHANGED <<quiet, slot_lock, sessions_lock, active, fault, pc, job, at, spent>>

\* The clients go away, for the liveness property alone.
FallSilent ==
    /\ ~quiet
    /\ quiet' = TRUE
    /\ UNCHANGED <<table, slots, slot_lock, sessions_lock, active, fault, pc, job, at, spent>>

\* The governor worker's check finds the weights paged out.
ResidencyLost ==
    /\ ~fault
    /\ fault' = TRUE
    /\ UNCHANGED <<table, quiet, slots, slot_lock, sessions_lock, active, pc, job, at, spent>>

Init ==
    /\ table = [s \in Sessions |-> NoSlot]
    /\ quiet = FALSE
    /\ slots = [i \in SlotIds |-> EmptySlot]
    /\ slot_lock = [i \in SlotIds |-> Nobody]
    /\ sessions_lock = Nobody
    /\ active = 0
    /\ fault = FALSE
    /\ pc = [t \in Threads |-> "idle"]
    /\ job = [t \in Threads |-> NoJob]
    /\ at = [t \in Threads |-> CHOOSE i \in SlotIds : TRUE]
    /\ spent = {}

\* What a thread that has a frame does next.
Proceed(t) ==
    \/ Find(t) \/ LockSlot(t) \/ OpenInstall(t)
    \/ AnswerDuplicate(t) \/ RunAdmit(t) \/ RunExecute(t) \/ RunCommit(t) \/ RunAbort(t)
    \/ SnapshotServe(t)
    \/ RestoreIgnored(t) \/ RestoreBegin(t) \/ RestoreChunk(t) \/ RestoreEnd(t)
    \/ Close(t)

Frame(t) ==
    \/ \E o \in OpenFrames : OpenEnter(t, o)
    \/ \E run \in RunFrames : RunEnter(t, run)
    \/ \E x \in TransferFrames, k \in 0..(Chunks - 1) :
         SnapshotEnter(t, x, k) \/ RestoreEnter(t, x, k)
    \/ \E c \in CloseFrames : CloseEnter(t, c)

Reap == Sweep \/ (\E s \in Sessions : ReapExpired(s)) \/ ReapRelease

Next ==
    \/ Elapse
    \/ ResidencyLost
    \/ \E t \in Workers : Frame(t) \/ Proceed(t)
    \/ Find(Reaper) \/ LockSlot(Reaper)
    \/ Reap

Spec == Init /\ [][Next]_vars

\* The scheduler runs every thread that can run, and time passes.
\* Nothing makes a client send a frame.
Fairness ==
    /\ WF_vars(Elapse)
    /\ \A t \in Workers : WF_vars(Proceed(t))
    /\ WF_vars(Find(Reaper) \/ LockSlot(Reaper) \/ Reap)

FairSpec == Init /\ [][Next \/ FallSilent]_vars /\ Fairness

-----------------------------------------------------------------------------
(***************************************************************************)
(* Properties.                                                              *)
(***************************************************************************)
Labels == {"idle", "find", "wait", "held", "install", "execute", "commit", "abort",
           "restored", "refused", "close"}

\* Every variable has the type of its C counterpart.
TypeOK ==
    /\ table \in Tables /\ quiet \in BOOLEAN
    /\ slots \in [SlotIds -> NodeSlots]
    /\ slot_lock \in [SlotIds -> Threads \cup {Nobody}]
    /\ sessions_lock \in Threads \cup {Nobody}
    /\ active \in Nat /\ fault \in BOOLEAN
    /\ pc \in [Threads -> Labels]
    /\ job \in [Threads -> Jobs]
    /\ at \in [Threads -> SlotIds]
    /\ spent \subseteq Sessions

Installing(s) == \E t \in Workers : pc[t] = "install" /\ job[t].frame.session = s
Reaping(s) == pc[Reaper] # "idle" /\ job[Reaper].frame.session = s

\* The table and the slots name the same sessions: a session the table knows
\* has exactly one slot, unless handle_open is still installing it; a slot in
\* use is a session of the table, unless the reaper is about to release it;
\* and active_sessions, which the tracker and the retirement read, counts the
\* slots in use.
SlotsMatchTable ==
    /\ \A s \in Sessions :
         /\ IsActive(table[s]) =>
              Cardinality(Holding(s)) = (IF Installing(s) THEN 0 ELSE 1)
         /\ Holding(s) # {} => IsActive(table[s]) \/ Reaping(s)
    /\ active = Cardinality(SlotIds \ Empty)

\* The engine is at a point, as far as the node can know.
Stands(engine, point) == engine.astray \/ engine.point = point

\* An admitted run executes in the slot of its own session, with the slot's
\* lock held, on an engine that stands exactly where the run begins: no close,
\* reaper pass, accepted restore or faulted run has moved or freed it since
\* run_begin ("The same lock prevents a close from destroying adapter state
\* during a run", SEGMENT_V2.md).  Only a restore that was refused after the
\* engine took it leaves the engine elsewhere (TransactionalRestore).
RunsOnItsState ==
    \A t \in Workers :
        /\ job[t].kind = "run" =>
             Holding(job[t].frame.session) # {} \/ Installing(job[t].frame.session)
        /\ pc[t] = "execute" =>
             /\ slot_lock[at[t]] = t
             /\ slots[at[t]].used
             /\ Stands(slots[at[t]].engine, Point(job[t].frame))

\* Some worker is past the engine call and before the table's answer to it.
InFlight(s) ==
    \E t \in Workers : /\ job[t].kind \in {"run", "restore"}
                       /\ job[t].frame.session = s
                       /\ pc[t] \in {"commit", "restored"}

\* Between requests the engine stands where the table says the session is, so
\* the next RUN in order continues the committed transcript.  A residency
\* fault breaks it on purpose: the engine ran and the table did not follow,
\* and no later run is admitted.  A refused restore that moved the engine
\* breaks it and does not: the next accepted restore mends it.
EngineMatchesTable ==
    \A i \in SlotIds :
        LET s == slots[i].id IN
        slots[i].used /\ IsActive(table[s]) /\ ~fault /\ ~InFlight(s) =>
            Stands(slots[i].engine, [session |-> s, sequence |-> table[s].next_sequence,
                                     position |-> table[s].next_position])

\* sessions_lock is never held by a thread that waits for a slot whose holder
\* waits for sessions_lock: the reaper takes the two locks in one order, CLOSE
\* and the sweep in the other.
WaitsForTable(t) ==
    \/ pc[t] = "find"
    \/ t = Reaper /\ pc[t] = "held"
NoEmbrace ==
    \A t \in Threads :
        sessions_lock = t =>
            LET wanted == IF pc[t] = "install" THEN {at[t]}
                          ELSE {i \in Holding(job[t].frame.session) : ~TryReturns(i)}
            IN  \A i \in wanted :
                    slot_lock[i] # Nobody => ~WaitsForTable(slot_lock[i])

\* A snapshot kept in a slot was taken from the engine of the slot's own
\* session, never from the session that had or got the slot before or after.
SnapshotIsOwn ==
    \A i \in SlotIds :
        slots[i].snapshot # NoSnapshot =>
            /\ slots[i].used
            /\ slots[i].snapshot.label.session = slots[i].id
            /\ slots[i].snapshot.state.point.session = slots[i].id

\* "sequence and position name the committed state represented by the
\* snapshot" (lumabri_segment.h): what a snapshot is labelled is what it holds,
\* at least on a node whose weights stayed resident and in a session that no
\* refused restore moved.
HonestSnapshot ==
    \A i \in SlotIds :
        fault \/ Stands(slots[i].snapshot.state, slots[i].snapshot.label)

\* "transactional restore" (CHANGELOG.md): a restore takes effect as a whole or
\* not at all, so a RUN that the table admits finds the engine at the table's
\* point, whatever restores were refused before it.
TransactionalRestore ==
    \A t \in Workers :
        pc[t] = "execute" => slots[at[t]].engine.point = Point(job[t].frame)

\* Whatever the clients left behind (an open session, a half-uploaded restore,
\* a run in flight), once they are silent every slot, table entry and lock is
\* given back: handlers return, stale uploads are dropped, sessions expire.
Reclaimed ==
    /\ Empty = SlotIds /\ active = 0
    /\ \A s \in Sessions : ~IsActive(table[s])
    /\ \A t \in Threads : pc[t] = "idle"
Settled == quiet => Reclaimed
AbandonedIsReclaimed == <>[]Settled

\* The slots, the table, the engines and the snapshots speak of the same
\* sessions: SlotsMatchTable, EngineMatchesTable and SnapshotIsOwn.
SlotsSound == TypeOK /\ SlotsMatchTable /\ EngineMatchesTable /\ SnapshotIsOwn

-----------------------------------------------------------------------------
(* What small instances for TLC are made of. *)

SmallShapes == {[context |-> 2, max_rows |-> 1, ttl |-> 1, snapshot |-> TRUE]}

\* The request id of every first frame of a session.
FirstRequest == CHOOSE r \in Requests : TRUE

SmallOpens == {o \in Opens : o.request = FirstRequest}

\* One-row runs, so that position and sequence agree, as the client keeps them.
SmallRuns ==
    {run \in Runs : /\ run.position = run.sequence
                    /\ run.request = FirstRequest <=> run.sequence = 0}

\* An upload and a snapshot request each use a request id of their own.
SmallTransfers ==
    {x \in Transfers : /\ x.position = x.sequence /\ x.sequence < SeqMax
                       /\ x.request = FirstRequest}

\* The exchanges of two members of a set.
Swaps(S) == {[z \in S |-> IF z = x THEN y ELSE IF z = y THEN x ELSE z] : x, y \in S}
Symmetric == Swaps(Workers) \cup Swaps(Sessions)

-----------------------------------------------------------------------------
(***************************************************************************)
(* Proofs about SegmentNode for any number of workers, slots, sessions and  *)
(* owners, any frames and any snapshot length.                              *)
(*                                                                          *)
(* SlotsSound is not inductive: it says nothing of a thread between two of   *)
(* its steps.  AllNodeInv adds what each thread relies on there: who holds   *)
(* which lock (LockInv), which reservation of the table it serves (RunInv,   *)
(* UploadInv), where the engine stands for it (PointInv), which session each *)
(* slot and each entry belongs to while one of the two is missing (HoldInv,  *)
(* InstallInv), and that an id that has ended does not come back (HoldInv).  *)
(*                                                                          *)
(* A step is one of four kinds, and a lemma stands for each: a thread that   *)
(* walks on (WalkStep), one that changes the entry of a session (TableStep), *)
(* one that works on the slot it holds (SlotStep), one that gives a slot     *)
(* back (ReleaseStep).  OPEN, the reaper's first step and the passing of     *)
(* time are proved on their own.                                            *)
(***************************************************************************)

\* The session of the frame a thread serves.
Of(t) == job[t].frame.session

\* The program points at which a thread holds the lock of its slot.
Holders == {"held", "execute", "commit", "restored", "refused"}

\* The frame a thread serves fits the place it has reached.
JobInv ==
    \A t \in Threads :
        /\ pc[t] = "idle" => job[t] = NoJob
        /\ t = Reaper => pc[t] \in {"idle", "find", "wait", "held"}
        /\ pc[t] \in {"find", "wait", "held"} =>
             job[t].kind \in IF t = Reaper THEN {"reap"}
                             ELSE {"run", "duplicate", "snapshot", "restore"}
        /\ pc[t] = "install" => job[t].kind = "open"
        /\ pc[t] \in {"execute", "commit", "abort"} => job[t].kind = "run"
        /\ pc[t] \in {"restored", "refused"} => job[t].kind = "restore"
        /\ pc[t] = "close" => job[t].kind = "close"

\* sessions_lock and the slots' locks are held where the code holds them, and
\* the slot held is still that of the thread's session.
LockInv ==
    /\ \A t \in Threads :
         /\ pc[t] \in {"install", "close"} <=> sessions_lock = t
         /\ pc[t] \in Holders =>
              slot_lock[at[t]] = t /\ StillIts(at[t], Of(t))
    /\ \A i \in SlotIds, t \in Threads :
         slot_lock[i] = t => at[t] = i /\ pc[t] \in Holders \cup {"abort"}
    /\ pc[Reaper] = "wait" => StillIts(at[Reaper], Of(Reaper))

\* A run between run_begin and its end is the one its entry is reserved for.
RunInv ==
    /\ \A t \in Threads :
         job[t].kind = "run" =>
             IsActive(table[Of(t)]) /\ table[Of(t)].pending = job[t].frame
    /\ \A t, u \in Threads :
         job[t].kind = "run" /\ job[u].kind = "run" /\ Of(t) = Of(u) => t = u

\* Slots and entries belong together; what has only one of the two is being
\* installed or reaped, and an ended id stays ended.
HoldInv ==
    /\ \A i \in SlotIds :
         IF slots[i].used
         THEN /\ slots[i].id \in Sessions
              /\ IsActive(table[slots[i].id]) \/ Reaping(slots[i].id)
         ELSE slots[i] = EmptySlot
    /\ \A i, j \in SlotIds :
         slots[i].used /\ slots[j].used /\ slots[i].id = slots[j].id => i = j
    /\ \A s \in Sessions :
         /\ IsActive(table[s]) =>
              Installing(s) \/ \E i \in SlotIds : StillIts(i, s)
         /\ IsActive(table[s]) => s \notin spent
         /\ Reaping(s) => s \in spent

\* handle_open installs into an empty slot a session that nobody has touched
\* yet; at worst the reaper has already taken its entry away.
InstallInv ==
    \A t \in Threads :
        pc[t] = "install" =>
            /\ ~slots[at[t]].used
            /\ \A i \in SlotIds : ~StillIts(i, Of(t))
            /\ IF IsActive(table[Of(t)])
               THEN /\ table[Of(t)].next_sequence = 0
                    /\ table[Of(t)].next_position = 0
                    /\ table[Of(t)].pending_restore = NoTransfer
               ELSE Reaping(Of(t))

\* active_sessions counts the slots in use.
CountInv == active = Cardinality({i \in SlotIds : slots[i].used})

\* An upload in a slot is the restore its entry is reserved for, and back.
UploadInv ==
    /\ \A i \in SlotIds :
         slots[i].restore # NoTransfer =>
             /\ slots[i].restore \in TransferFrames
             /\ IsActive(table[slots[i].id])
             /\ table[slots[i].id].pending_restore = slots[i].restore
    /\ \A s \in Sessions :
         IsActive(table[s]) /\ table[s].pending_restore # NoTransfer =>
             \E i \in SlotIds : StillIts(i, s) /\ slots[i].restore = table[s].pending_restore

\* Where the engine stands for a thread in the middle of a handler.
PointInv ==
    /\ \A t \in Threads :
         /\ pc[t] \in {"restored", "refused"} =>
              SameUpload(slots[at[t]].restore, job[t].frame)
         /\ pc[t] \in {"execute", "restored"} =>
              Stands(slots[at[t]].engine, Point(job[t].frame))
         /\ pc[t] = "commit" =>
              Stands(slots[at[t]].engine, Advanced(Point(job[t].frame), job[t].frame))
    /\ \A i \in SlotIds : slots[i].used => slots[i].engine.point.session = slots[i].id

\* The inductive invariant.
AllNodeInv ==
    /\ TypeOK /\ WellKept(table) /\ JobInv /\ LockInv /\ RunInv /\ HoldInv
    /\ InstallInv /\ CountInv /\ UploadInv /\ PointInv
    /\ EngineMatchesTable /\ SnapshotIsOwn

-----------------------------------------------------------------------------
(* Reading the invariant. *)

\* What a job says by its kind.
LEMMA JobFields ==
    ASSUME NEW j \in Jobs
    PROVE  /\ j.kind = "none" <=> j = NoJob
           /\ j # NoJob => j.frame.session \in Sessions
           /\ j.kind = "open" => j.frame \in OpenFrames /\ j.frame \in Opens
           /\ j.kind \in {"run", "duplicate"} => j.frame \in RunFrames /\ j.frame \in Runs
           /\ j.kind \in {"snapshot", "restore"} =>
                /\ j.frame \in TransferFrames /\ j.frame \in Transfers
                /\ j.offset \in 0..(Chunks - 1)
           /\ j.kind = "close" => j.frame \in CloseFrames /\ j.frame \in Controls
           /\ j.kind \in {"none", "open", "run", "duplicate", "snapshot", "restore",
                          "close", "reap"}
<1>1. /\ OpenFrames \subseteq Opens /\ RunFrames \subseteq Runs
      /\ TransferFrames \subseteq Transfers /\ CloseFrames \subseteq Controls
    BY NodeConstants
<1>2. /\ \A f \in Opens \cup Runs \cup Transfers \cup Controls : f.session \in Sessions
    BY DEF Opens, Runs, Transfers, Controls
<1>3. CASE j = NoJob
    BY <1>3 DEF NoJob
<1>4. CASE j \in [kind : {"open"}, frame : OpenFrames]
    BY <1>1, <1>2, <1>4 DEF NoJob
<1>5. CASE j \in [kind : {"run", "duplicate"}, frame : RunFrames]
    BY <1>1, <1>2, <1>5 DEF NoJob
<1>6. CASE j \in [kind : {"snapshot"}, frame : TransferFrames, offset : 0..(Chunks - 1)]
    BY <1>1, <1>2, <1>6 DEF NoJob
<1>7. CASE j \in [kind : {"restore"}, frame : TransferFrames, offset : 0..(Chunks - 1)]
    BY <1>1, <1>2, <1>7 DEF NoJob
<1>8. CASE j \in [kind : {"close"}, frame : CloseFrames]
    BY <1>1, <1>2, <1>8 DEF NoJob
<1>9. CASE j \in [kind : {"reap"}, frame : [session : Sessions]]
    BY <1>9 DEF NoJob
<1> QED BY <1>3, <1>4, <1>5, <1>6, <1>7, <1>8, <1>9 DEF Jobs

\* The threads.
LEMMA ThreadSet ==
    /\ Reaper \in Threads /\ Workers \subseteq Threads
    /\ Reaper \notin Workers /\ Nobody \notin Threads
    /\ \A t \in Threads : t # Reaper => t \in Workers
BY NodeConstants DEF Threads

\* A busy thread serves a frame of some session.
LEMMA BusyThread ==
    ASSUME TypeOK, JobInv, NEW t \in Threads
    PROVE  /\ at[t] \in SlotIds /\ slots[at[t]] \in NodeSlots /\ job[t] \in Jobs
           /\ pc[t] = "idle" <=> job[t] = NoJob
           /\ pc[t] # "idle" => Of(t) \in Sessions
<1>1. /\ at[t] \in SlotIds /\ slots[at[t]] \in NodeSlots /\ job[t] \in Jobs
      /\ pc[t] \in Labels
    BY DEF TypeOK
<1>2. pc[t] # "idle" => job[t].kind # "none"
    BY <1>1 DEF JobInv, Labels
<1>3. pc[t] = "idle" => job[t] = NoJob
    BY DEF JobInv
<1> QED BY <1>1, <1>2, <1>3, JobFields DEF Of

\* A thread that holds a slot holds the slot of its session, alone.
LEMMA HolderOf ==
    ASSUME TypeOK, JobInv, LockInv, HoldInv, NEW t \in Threads, pc[t] \in Holders
    PROVE  /\ at[t] \in SlotIds /\ slots[at[t]].used /\ slots[at[t]].id = Of(t)
           /\ slot_lock[at[t]] = t
           /\ Of(t) \in Sessions
           /\ \A i \in SlotIds : StillIts(i, Of(t)) => i = at[t]
           /\ \A u \in Threads : u # t /\ pc[u] \in Holders =>
                                   at[u] # at[t] /\ Of(u) # Of(t)
<1>1. /\ at[t] \in SlotIds /\ slots[at[t]].used /\ slots[at[t]].id = Of(t)
      /\ slot_lock[at[t]] = t /\ Of(t) \in Sessions
    BY BusyThread DEF LockInv, StillIts, Holders
<1>2. \A i \in SlotIds : StillIts(i, Of(t)) => i = at[t]
    BY <1>1 DEF HoldInv, StillIts
<1>3. ASSUME NEW u \in Threads, u # t, pc[u] \in Holders
      PROVE  at[u] # at[t] /\ Of(u) # Of(t)
    <2>1. /\ at[u] \in SlotIds /\ slot_lock[at[u]] = u /\ StillIts(at[u], Of(u))
        BY <1>3, BusyThread DEF LockInv
    <2> QED BY <1>1, <1>2, <1>3, <2>1
<1> QED BY <1>1, <1>2, <1>3

\* The session a worker's call holds is the table's, with a slot or about to
\* have one.
LEMMA InFlightIs ==
    ASSUME JobInv, NEW s \in Sessions
    PROVE  InFlight(s) <=>
             \E t \in Threads : Of(t) = s /\ pc[t] \in {"commit", "restored"}
<1>1. \A t \in Threads : pc[t] \in {"commit", "restored"} =>
        t \in Workers /\ job[t].kind \in {"run", "restore"}
    BY ThreadSet DEF JobInv
<1> QED BY <1>1, ThreadSet DEF InFlight, Of

-----------------------------------------------------------------------------
(* Steps of one thread. *)

OthersKept(t) ==
    \A u \in Threads \ {t} : pc'[u] = pc[u] /\ job'[u] = job[u] /\ at'[u] = at[u]

\* A thread that neither installs nor ends a run or a restore takes nothing
\* away from the sets of sessions that are being installed or answered.
LEMMA FlightKept ==
    ASSUME JobInv, JobInv', NEW t \in Threads, OthersKept(t),
           pc[t] \notin {"install", "commit", "restored"},
           pc'[t] \notin {"install", "commit", "restored"}
    PROVE  \A s \in Sessions :
             /\ InFlight(s)' <=> InFlight(s)
             /\ Installing(s)' <=> Installing(s)
<1>1. ASSUME NEW s \in Sessions
      PROVE  InFlight(s)' <=> InFlight(s)
    <2>1. \A u \in Workers : u # t => pc'[u] = pc[u] /\ job'[u] = job[u]
        BY ThreadSet DEF OthersKept
    <2> QED BY <2>1 DEF InFlight
<1>2. ASSUME NEW s \in Sessions
      PROVE  Installing(s)' <=> Installing(s)
    <2>1. \A u \in Workers : u # t => pc'[u] = pc[u] /\ job'[u] = job[u]
        BY ThreadSet DEF OthersKept
    <2> QED BY <2>1 DEF Installing
<1> QED BY <1>1, <1>2

\* A worker's step leaves the reaper where it is.
LEMMA ReaperKept ==
    ASSUME NEW t \in Workers, OthersKept(t)
    PROVE  /\ pc'[Reaper] = pc[Reaper] /\ job'[Reaper] = job[Reaper]
           /\ at'[Reaper] = at[Reaper]
           /\ \A s \in Sessions : Reaping(s)' <=> Reaping(s)
<1>1. pc'[Reaper] = pc[Reaper] /\ job'[Reaper] = job[Reaper] /\ at'[Reaper] = at[Reaper]
    BY ThreadSet DEF OthersKept
<1> QED BY <1>1 DEF Reaping

\* A step of one thread that moves no session: only what the thread itself
\* relies on is to be shown again.
LEMMA WalkStep ==
    ASSUME AllNodeInv, NEW t \in Threads, OthersKept(t),
           UNCHANGED <<table, slots, active, spent>>, fault => fault',
           TypeOK', JobInv', LockInv',
           pc[t] \notin {"install", "commit", "restored"},
           pc'[t] \notin {"install", "commit", "restored", "refused"},
           pc'[t] = "execute" => Stands(slots[at'[t]].engine, Point(job'[t].frame)),
           job'[t].kind = "run" => job'[t] = job[t],
           \A s \in Sessions : Reaping(s)' => Reaping(s),
           \A s \in Sessions : Reaping(s) =>
               Reaping(s)' \/ (~Installing(s) /\ \A i \in SlotIds : ~StillIts(i, s))
    PROVE  AllNodeInv'
<1> USE DEF AllNodeInv
<1>1. \A s \in Sessions :
        /\ InFlight(s)' <=> InFlight(s)
        /\ Installing(s)' <=> Installing(s)
    BY FlightKept
<1>2. \A u \in Threads : u # t => pc'[u] = pc[u] /\ job'[u] = job[u] /\ at'[u] = at[u]
    BY DEF OthersKept
<1>3. RunInv'
    <2>1. \A u \in Threads : job'[u].kind = "run" => job'[u] = job[u]
        BY <1>2
    <2> QED BY <2>1 DEF RunInv, Of
<1>4. HoldInv'
    <2>1. ASSUME NEW i \in SlotIds
          PROVE  IF slots[i].used
                 THEN /\ slots[i].id \in Sessions
                      /\ IsActive(table[slots[i].id]) \/ Reaping(slots[i].id)'
                 ELSE slots[i] = EmptySlot
        BY DEF HoldInv, StillIts
    <2>2. ASSUME NEW s \in Sessions
          PROVE  /\ IsActive(table[s]) =>
                      Installing(s)' \/ \E i \in SlotIds : StillIts(i, s)
                 /\ IsActive(table[s]) => s \notin spent
                 /\ Reaping(s)' => s \in spent
        BY <1>1 DEF HoldInv
    <2>3. \A s, i : StillIts(i, s)' <=> StillIts(i, s)
        BY DEF StillIts
    <2>4. slots' = slots /\ table' = table /\ spent' = spent
        OBVIOUS
    <2> QED BY <2>1, <2>2, <2>3, <2>4 DEF HoldInv
<1>5. InstallInv'
    <2> SUFFICES ASSUME NEW u \in Threads, pc'[u] = "install"
                 PROVE  InstallInv!(u)'
        BY DEF InstallInv
    <2>1. u # t /\ pc[u] = "install" /\ job'[u] = job[u] /\ at'[u] = at[u]
        BY <1>2
    <2>2. u \in Workers /\ Of(u) \in Sessions
        BY <2>1, BusyThread, ThreadSet DEF JobInv
    <2>3. Installing(Of(u))
        BY <2>1, <2>2 DEF Installing, Of
    <2>4. Reaping(Of(u)) => Reaping(Of(u))'
        BY <2>1, <2>2, <2>3 DEF Of, Reaping
    <2>5. Of(u)' = Of(u) /\ \A i : StillIts(i, Of(u))' <=> StillIts(i, Of(u))
        BY <2>1 DEF Of, StillIts
    <2>6. slots' = slots /\ table' = table
        OBVIOUS
    <2> QED BY <2>1, <2>4, <2>5, <2>6 DEF InstallInv
<1>6. UploadInv' /\ CountInv' /\ WellKept(table)' /\ SnapshotIsOwn'
    BY DEF UploadInv, CountInv, SnapshotIsOwn, StillIts
<1>7. PointInv'
    <2>1. ASSUME NEW u \in Threads, u # t
          PROVE  pc'[u] = pc[u] /\ job'[u] = job[u] /\ at'[u] = at[u]
        BY <1>2, <2>1
    <2> QED BY <2>1 DEF PointInv
<1>8. EngineMatchesTable'
    <2>1. \A i \in SlotIds : slots[i].used => slots[i].id \in Sessions
        BY DEF HoldInv
    <2> QED BY <1>1, <2>1 DEF EngineMatchesTable
<1> QED BY <1>3, <1>4, <1>5, <1>6, <1>7, <1>8

\* Moving one thread keeps the other threads and the types.
LEMMA Moved ==
    ASSUME TypeOK, NEW t \in Threads, NEW l, pc' = [pc EXCEPT ![t] = l],
           l \in Labels,
           NEW j \in Jobs, job' = [job EXCEPT ![t] = j],
           NEW i \in SlotIds, at' = [at EXCEPT ![t] = i]
    PROVE  /\ OthersKept(t) /\ pc'[t] = l /\ job'[t] = j /\ at'[t] = i
           /\ pc' \in [Threads -> Labels]
           /\ job' \in [Threads -> Jobs] /\ at' \in [Threads -> SlotIds]
BY DEF TypeOK, OthersKept

\* A program point that is not idle and does not hold a slot holds no lock.
LEMMA NoLock ==
    ASSUME LockInv, NEW t \in Threads, pc[t] \notin Holders \cup {"abort"}
    PROVE  \A i \in SlotIds : slot_lock[i] # t
BY DEF LockInv

\* session_lock_id's lookup.
LEMMA FindStep ==
    ASSUME AllNodeInv, NEW t \in Threads, Find(t)
    PROVE  AllNodeInv'
<1> USE DEF AllNodeInv
<1> DEFINE s == job[t].frame.session
<1>1. /\ pc[t] = "find" /\ sessions_lock = Nobody
      /\ UNCHANGED <<table, quiet, slots, slot_lock, sessions_lock, active, fault, spent>>
      /\ s = Of(t) /\ s \in Sessions
    BY BusyThread DEF Find, Of
<1>2. /\ job[t] \in Jobs /\ at[t] \in SlotIds /\ NoJob \in Jobs
      /\ pc \in [Threads -> Labels]
      /\ job = [job EXCEPT ![t] = job[t]] /\ at = [at EXCEPT ![t] = at[t]]
    BY BusyThread DEF TypeOK, Jobs
<1>3. \A i \in SlotIds : slot_lock[i] # t
    BY <1>1, NoLock DEF Holders
<1>4. \A u \in Threads : pc[u] # "install"
    BY <1>1, ThreadSet DEF LockInv
<1>5. CASE \E i \in Holding(s) : /\ pc' = [pc EXCEPT ![t] = "wait"]
                                 /\ at' = [at EXCEPT ![t] = i]
                                 /\ UNCHANGED job
    <2>1. PICK i \in SlotIds : /\ StillIts(i, s)
                               /\ pc' = [pc EXCEPT ![t] = "wait"]
                               /\ at' = [at EXCEPT ![t] = i]
                               /\ UNCHANGED job
        BY <1>5 DEF Holding, StillIts
    <2>2. /\ OthersKept(t) /\ pc'[t] = "wait" /\ job'[t] = job[t] /\ at'[t] = i
          /\ pc' \in [Threads -> Labels]
          /\ job' \in [Threads -> Jobs] /\ at' \in [Threads -> SlotIds]
        BY <1>2, <2>1, Moved DEF Labels
    <2>3. TypeOK'
        BY <1>1, <2>2 DEF TypeOK
    <2>4. JobInv'
        BY <1>1, <2>2 DEF JobInv, OthersKept
    <2>5. LockInv'
        BY <1>1, <1>3, <2>1, <2>2 DEF LockInv, OthersKept, Holders, StillIts, Of
    <2>6. \A r \in Sessions : Reaping(r)' <=> Reaping(r)
        BY <1>1, <2>1, <2>2, ThreadSet DEF Reaping, OthersKept
    <2> QED BY <1>1, <2>2, <2>3, <2>4, <2>5, <2>6, WalkStep
<1>6. CASE Holding(s) = {} /\ job[t].kind = "run" /\ Goto(t, "abort") /\ UNCHANGED <<job, at>>
    <2>1. /\ OthersKept(t) /\ pc'[t] = "abort" /\ job'[t] = job[t] /\ at'[t] = at[t]
          /\ pc' \in [Threads -> Labels]
          /\ job' \in [Threads -> Jobs] /\ at' \in [Threads -> SlotIds]
        BY <1>2, <1>6, Moved DEF Goto, Labels
    <2>2. t \in Workers
        BY <1>1, <1>6, ThreadSet DEF JobInv
    <2>3. TypeOK'
        BY <1>1, <2>1 DEF TypeOK
    <2>4. JobInv'
        BY <1>1, <1>6, <2>1, <2>2, ThreadSet DEF JobInv, OthersKept
    <2>5. LockInv'
        BY <1>1, <1>3, <2>1, <2>2, ThreadSet DEF LockInv, OthersKept, Holders, StillIts, Of
    <2>6. \A r \in Sessions : Reaping(r)' <=> Reaping(r)
        BY <2>1, <2>2, ReaperKept
    <2> QED BY <1>1, <2>1, <2>3, <2>4, <2>5, <2>6, WalkStep
<1>7. CASE Holding(s) = {} /\ job[t].kind # "run" /\ Finish(t) /\ UNCHANGED at
    <2>1. /\ OthersKept(t) /\ pc'[t] = "idle" /\ job'[t] = NoJob /\ at'[t] = at[t]
          /\ pc' \in [Threads -> Labels]
          /\ job' \in [Threads -> Jobs] /\ at' \in [Threads -> SlotIds]
        BY <1>2, <1>7, Moved DEF Finish, Goto, Labels
    <2>2. TypeOK'
        BY <1>1, <2>1 DEF TypeOK
    <2>3. JobInv'
        BY <1>1, <2>1 DEF JobInv, OthersKept
    <2>4. LockInv'
        BY <1>1, <1>3, <2>1, ThreadSet DEF LockInv, OthersKept, Holders, StillIts, Of
    <2>5. \A r \in Sessions : Reaping(r)' => Reaping(r)
        BY <1>1, <2>1, ThreadSet DEF Reaping, OthersKept
    <2>6. \A i \in SlotIds : ~StillIts(i, s)
        BY <1>7 DEF Holding, StillIts
    <2>7. \A r \in Sessions : ~Installing(r)
        BY <1>4, ThreadSet DEF Installing
    <2>8. \A r \in Sessions : Reaping(r) =>
             Reaping(r)' \/ (~Installing(r) /\ \A i \in SlotIds : ~StillIts(i, r))
        BY <1>1, <2>1, <2>6, <2>7, ThreadSet DEF Reaping, OthersKept, Of
    <2>9. job'[t].kind # "run"
        BY <2>1 DEF NoJob
    <2> QED BY <1>1, <2>1, <2>2, <2>3, <2>4, <2>5, <2>8, <2>9, WalkStep
<1> QED BY <1>5, <1>6, <1>7 DEF Find, Goto

\* The slot's lock, and the second look at the slot.
LEMMA LockSlotStep ==
    ASSUME AllNodeInv, NEW t \in Threads, LockSlot(t)
    PROVE  AllNodeInv'
<1> USE DEF AllNodeInv
<1>1. /\ pc[t] = "wait" /\ slot_lock[at[t]] = Nobody
      /\ UNCHANGED <<table, quiet, slots, sessions_lock, active, fault, at, spent>>
      /\ job[t].frame.session = Of(t)
    BY DEF LockSlot, Of
<1>2. /\ job[t] \in Jobs /\ at[t] \in SlotIds /\ NoJob \in Jobs
      /\ job = [job EXCEPT ![t] = job[t]] /\ at' = [at EXCEPT ![t] = at[t]]
    BY <1>1, BusyThread DEF TypeOK, Jobs
<1>3. \A i \in SlotIds : slot_lock[i] # t
    BY <1>1, NoLock DEF Holders
<1>4. CASE /\ StillIts(at[t], Of(t)) /\ slot_lock' = [slot_lock EXCEPT ![at[t]] = t]
           /\ Goto(t, "held") /\ UNCHANGED job
    <2>1. /\ OthersKept(t) /\ pc'[t] = "held" /\ job'[t] = job[t] /\ at'[t] = at[t]
          /\ pc' \in [Threads -> Labels]
          /\ job' \in [Threads -> Jobs] /\ at' \in [Threads -> SlotIds]
        BY <1>2, <1>4, Moved DEF Goto, Labels
    <2>2. /\ slot_lock'[at[t]] = t
          /\ \A i \in SlotIds : i # at[t] => slot_lock'[i] = slot_lock[i]
          /\ slot_lock' \in [SlotIds -> Threads \cup {Nobody}]
        BY <1>2, <1>4 DEF TypeOK
    <2>3. TypeOK'
        BY <1>1, <2>1, <2>2 DEF TypeOK
    <2>4. JobInv'
        BY <1>1, <2>1 DEF JobInv, OthersKept
    <2>5. LockInv'
        <3>1. ASSUME NEW u \in Threads
              PROVE  /\ pc'[u] \in {"install", "close"} <=> sessions_lock' = u
                     /\ pc'[u] \in Holders =>
                          slot_lock'[at'[u]] = u /\ StillIts(at[u], Of(u))'
            <4>1. CASE u = t
                BY <1>1, <1>4, <2>1, <2>2, <4>1 DEF LockInv, Holders, StillIts, Of
            <4>2. CASE u # t
                <5>1. pc'[u] = pc[u] /\ job'[u] = job[u] /\ at'[u] = at[u]
                      /\ at[u] \in SlotIds
                    BY <2>1, <4>2, BusyThread DEF OthersKept
                <5>2. pc[u] \in Holders => at[u] # at[t]
                    BY <1>1, ThreadSet DEF LockInv
                <5> QED BY <1>1, <2>2, <5>1, <5>2 DEF LockInv, StillIts, Of
            <4> QED BY <4>1, <4>2
        <3>2. ASSUME NEW i \in SlotIds, NEW u \in Threads, slot_lock'[i] = u
              PROVE  at'[u] = i /\ pc'[u] \in Holders \cup {"abort"}
            <4>1. CASE i = at[t]
                BY <1>1, <2>1, <2>2, <3>2, <4>1 DEF Holders
            <4>2. CASE i # at[t]
                BY <1>1, <1>3, <2>1, <2>2, <3>2, <4>2 DEF LockInv, OthersKept
            <4> QED BY <4>1, <4>2
        <3>3. (pc[Reaper] = "wait" => StillIts(at[Reaper], Of(Reaper)))'
            BY <1>1, <2>1, ThreadSet DEF LockInv, OthersKept, StillIts, Of
        <3> QED BY <1>1, <3>1, <3>2, <3>3 DEF LockInv, StillIts, Of
    <2>6. \A r \in Sessions : Reaping(r)' <=> Reaping(r)
        BY <1>1, <2>1, ThreadSet DEF Reaping, OthersKept
    <2> QED BY <1>1, <2>1, <2>3, <2>4, <2>5, <2>6, WalkStep
<1>5. CASE ~StillIts(at[t], Of(t)) /\ UNCHANGED slot_lock /\ Finish(t)
    <2>1. /\ OthersKept(t) /\ pc'[t] = "idle" /\ job'[t] = NoJob /\ at'[t] = at[t]
          /\ pc' \in [Threads -> Labels]
          /\ job' \in [Threads -> Jobs] /\ at' \in [Threads -> SlotIds]
        BY <1>2, <1>5, Moved DEF Finish, Goto, Labels
    <2>2. t \in Workers
        BY <1>1, <1>5, ThreadSet DEF LockInv
    <2>3. TypeOK'
        BY <1>1, <1>5, <2>1 DEF TypeOK
    <2>4. JobInv'
        BY <1>1, <2>1 DEF JobInv, OthersKept
    <2>5. LockInv'
        BY <1>1, <1>3, <1>5, <2>1, <2>2, ThreadSet DEF LockInv, OthersKept, Holders, StillIts, Of
    <2>6. \A r \in Sessions : Reaping(r)' <=> Reaping(r)
        BY <2>1, <2>2, ReaperKept
    <2>7. job'[t].kind # "run"
        BY <2>1 DEF NoJob
    <2> QED BY <1>1, <2>1, <2>3, <2>4, <2>5, <2>6, <2>7, WalkStep
<1> QED BY <1>1, <1>4, <1>5 DEF LockSlot

-----------------------------------------------------------------------------
(* Steps at one slot and at one entry of the table. *)

\* The lock given back at the end of a handler.
LEMMA DropLock ==
    ASSUME TypeOK, LockInv, NEW t \in Threads, OthersKept(t), pc[t] \in Holders,
           pc'[t] = "idle", at' = at, sessions_lock' = sessions_lock,
           slot_lock' = [slot_lock EXCEPT ![at[t]] = Nobody],
           \A i \in SlotIds :
               slots'[i].used = slots[i].used /\ slots'[i].id = slots[i].id
    PROVE  LockInv' /\ slot_lock' \in [SlotIds -> Threads \cup {Nobody}]
<1>1. /\ at[t] \in SlotIds /\ slot_lock[at[t]] = t
      /\ \A u \in Threads : at[u] \in SlotIds
    BY DEF TypeOK, LockInv
<1>2. /\ slot_lock' \in [SlotIds -> Threads \cup {Nobody}]
      /\ slot_lock'[at[t]] = Nobody
      /\ \A i \in SlotIds : i # at[t] => slot_lock'[i] = slot_lock[i]
    BY <1>1 DEF TypeOK
<1>3. \A i \in SlotIds, r \in Sessions \cup {Of(Reaper)} : StillIts(i, r)' <=> StillIts(i, r')
    BY DEF StillIts
<1>4. ASSUME NEW u \in Threads
      PROVE  /\ pc'[u] \in {"install", "close"} <=> sessions_lock' = u
             /\ pc'[u] \in Holders =>
                  slot_lock'[at'[u]] = u /\ StillIts(at[u], Of(u))'
    <2>1. CASE u = t
        BY <2>1 DEF LockInv, Holders
    <2>2. CASE u # t
        <3>1. pc'[u] = pc[u] /\ job'[u] = job[u] /\ at'[u] = at[u]
            BY <2>2 DEF OthersKept
        <3>2. pc[u] \in Holders => at[u] # at[t]
            BY <1>1, <2>2 DEF LockInv
        <3> QED BY <1>1, <1>2, <3>1, <3>2 DEF LockInv, StillIts, Of
    <2> QED BY <2>1, <2>2
<1>5. ASSUME NEW i \in SlotIds, NEW u \in Threads, slot_lock'[i] = u
      PROVE  at'[u] = i /\ pc'[u] \in Holders \cup {"abort"}
    <2>1. i # at[t] /\ slot_lock[i] = u
        BY <1>2, <1>5, ThreadSet
    <2>2. u # t
        BY <2>1 DEF LockInv
    <2> QED BY <2>1, <2>2 DEF LockInv, OthersKept
<1>6. (pc[Reaper] = "wait" => StillIts(at[Reaper], Of(Reaper)))'
    BY <1>1, ThreadSet DEF LockInv, OthersKept, StillIts, Of
<1> QED BY <1>2, <1>4, <1>5, <1>6 DEF LockInv, StillIts, Of

\* The lock kept from one step of a handler to the next.
LEMMA KeepLock ==
    ASSUME TypeOK, LockInv, NEW t \in Threads, OthersKept(t), pc[t] \in Holders,
           \/ pc'[t] \in Holders /\ job'[t] = job[t]
           \/ pc'[t] = "abort",
           at' = at, sessions_lock' = sessions_lock, slot_lock' = slot_lock,
           \A i \in SlotIds :
               slots'[i].used = slots[i].used /\ slots'[i].id = slots[i].id
    PROVE  LockInv'
<1>1. \A u \in Threads : at[u] \in SlotIds
    BY DEF TypeOK
<1>2. ASSUME NEW u \in Threads
      PROVE  /\ pc'[u] \in {"install", "close"} <=> sessions_lock' = u
             /\ pc'[u] \in Holders =>
                  slot_lock'[at'[u]] = u /\ StillIts(at[u], Of(u))'
    BY <1>1 DEF LockInv, OthersKept, StillIts, Of, Holders
<1>3. \A i \in SlotIds, u \in Threads :
        slot_lock'[i] = u => at'[u] = i /\ pc'[u] \in Holders \cup {"abort"}
    BY DEF LockInv, OthersKept
<1>4. (pc[Reaper] = "wait" => StillIts(at[Reaper], Of(Reaper)))'
    BY <1>1, ThreadSet DEF LockInv, OthersKept, StillIts, Of, Holders
<1> QED BY <1>2, <1>3, <1>4 DEF LockInv, StillIts, Of

\* A session whose slot is held is not being installed, nor has it ended, and
\* nobody else runs on its entry.
LEMMA HeldSession ==
    ASSUME AllNodeInv, NEW t \in Threads, pc[t] \in Holders
    PROVE  ~Installing(Of(t))
<1>1. at[t] \in SlotIds /\ StillIts(at[t], Of(t))
    BY HolderOf DEF AllNodeInv, StillIts
<1>2. \A u \in Workers : pc[u] = "install" => ~StillIts(at[t], Of(u))
    BY <1>1, ThreadSet DEF AllNodeInv, InstallInv
<1> QED BY <1>1, <1>2 DEF Installing, Of

\* A worker that works on the slot it holds, and on the entry of its session.
LEMMA SlotStep ==
    ASSUME AllNodeInv, NEW t \in Workers, OthersKept(t), pc[t] \in Holders,
           at' = at, spent' = spent, active' = active, fault => fault',
           NEW new \in NodeSlots, new.used, new.id = Of(t),
           slots' = [slots EXCEPT ![at[t]] = new],
           WellKept(table'), OnlyAt(Of(t), table, table'),
           IsActive(table'[Of(t)]) <=> IsActive(table[Of(t)]),
           TypeOK', JobInv', LockInv', RunInv',
           pc'[t] # "install", job'[t] = job[t] \/ pc'[t] = "idle",
           IF IsActive(table[Of(t)])
           THEN /\ new.restore \in TransferFrames \cup {NoTransfer}
                /\ table'[Of(t)].pending_restore = new.restore
           ELSE new.restore = NoTransfer,
           pc'[t] \in {"restored", "refused"} => SameUpload(new.restore, job[t].frame),
           pc'[t] \in {"execute", "restored"} => Stands(new.engine, Point(job[t].frame)),
           pc'[t] = "commit" => Stands(new.engine, Advanced(Point(job[t].frame), job[t].frame)),
           new.engine.point.session = Of(t),
           IsActive(table'[Of(t)]) /\ ~fault' /\ pc'[t] \notin {"commit", "restored"} =>
               Stands(new.engine, [session |-> Of(t),
                                   sequence |-> table'[Of(t)].next_sequence,
                                   position |-> table'[Of(t)].next_position]),
           new.snapshot # NoSnapshot =>
               new.snapshot.label.session = Of(t) /\ new.snapshot.state.point.session = Of(t)
    PROVE  AllNodeInv'
<1> DEFINE k == at[t]
           s == Of(t)
<1>1. /\ k \in SlotIds /\ slots[k].used /\ slots[k].id = s /\ s \in Sessions
      /\ \A i \in SlotIds : StillIts(i, s) => i = k
      /\ \A u \in Threads : u # t /\ pc[u] \in Holders => at[u] # k /\ Of(u) # s
      /\ t \in Threads
    BY HolderOf, ThreadSet DEF AllNodeInv
<1>2. /\ slots'[k] = new /\ \A i \in SlotIds : i # k => slots'[i] = slots[i]
      /\ \A i \in SlotIds : slots'[i].used = slots[i].used /\ slots'[i].id = slots[i].id
    BY <1>1 DEF AllNodeInv, TypeOK
<1>3. \A r \in Sessions : r # s => table'[r] = table[r]
    BY DEF OnlyAt
<1>4. \A u \in Threads : u # t => pc'[u] = pc[u] /\ job'[u] = job[u] /\ at'[u] = at[u]
    BY DEF OthersKept
<1>5. \A r \in Sessions : Reaping(r)' <=> Reaping(r)
    BY ReaperKept
<1>6. \A r \in Sessions : Installing(r)' <=> Installing(r)
    BY <1>4, ThreadSet DEF Installing, Holders
<1>7. ~Installing(s)
    BY <1>1, HeldSession
<1>8. \A r \in Sessions : IsActive(table'[r]) <=> IsActive(table[r])
    BY <1>1, <1>3
<1>9. \A i \in SlotIds, r \in Sessions : StillIts(i, r)' <=> StillIts(i, r)
    BY <1>2 DEF StillIts
<1>10. HoldInv'
    <2>1. ASSUME NEW i \in SlotIds
          PROVE  (IF slots[i].used
                  THEN /\ slots[i].id \in Sessions
                       /\ IsActive(table[slots[i].id]) \/ Reaping(slots[i].id)
                  ELSE slots[i] = EmptySlot)'
        <3>1. CASE slots[i].used
            <4>1. slots'[i].used /\ slots'[i].id = slots[i].id
                BY <1>2, <3>1
            <4>2. slots[i].id \in Sessions
                  /\ (IsActive(table[slots[i].id]) \/ Reaping(slots[i].id))
                BY <3>1 DEF AllNodeInv, HoldInv
            <4>3. IsActive(table'[slots[i].id]) \/ Reaping(slots[i].id)
                BY <1>8, <4>2
            <4>4. pc'[Reaper] = pc[Reaper] /\ job'[Reaper] = job[Reaper]
                BY ReaperKept
            <4>5. Reaping(slots[i].id) => Reaping(slots[i].id)'
                BY <4>1, <4>4 DEF Reaping
            <4>6. IsActive(table'[slots[i].id]) => IsActive(table[slots[i].id])'
                BY <4>1
            <4> QED BY <4>1, <4>2, <4>3, <4>5, <4>6
        <3>2. CASE ~slots[i].used
            <4>1. i # k /\ slots'[i] = slots[i]
                BY <1>1, <1>2, <3>2
            <4> QED BY <3>2, <4>1 DEF AllNodeInv, HoldInv
        <3> QED BY <3>1, <3>2
    <2>2. \A i, j \in SlotIds :
            slots'[i].used /\ slots'[j].used /\ slots'[i].id = slots'[j].id => i = j
        BY <1>2 DEF AllNodeInv, HoldInv
    <2>3. ASSUME NEW r \in Sessions
          PROVE  (/\ IsActive(table[r]) =>
                       Installing(r) \/ \E i \in SlotIds : StillIts(i, r)
                  /\ IsActive(table[r]) => r \notin spent
                  /\ Reaping(r) => r \in spent)'
        BY <1>5, <1>6, <1>8, <1>9 DEF AllNodeInv, HoldInv
    <2> QED BY <2>1, <2>2, <2>3 DEF HoldInv
<1>11. InstallInv'
    <2> SUFFICES ASSUME NEW u \in Threads, pc'[u] = "install"
                 PROVE  InstallInv!(u)'
        BY DEF InstallInv
    <2>1. u # t /\ pc[u] = "install" /\ job'[u] = job[u] /\ at'[u] = at[u]
        BY <1>4
    <2>2. u \in Workers /\ Of(u) \in Sessions /\ at[u] \in SlotIds
        BY <2>1, BusyThread, ThreadSet DEF AllNodeInv, JobInv
    <2>3. Installing(Of(u))
        BY <2>1, <2>2 DEF Installing, Of
    <2>4. Of(u) # s
        BY <1>7, <2>3
    <2>5. table'[Of(u)] = table[Of(u)] /\ (Reaping(Of(u)) <=> Reaping(Of(u))')
        BY <1>3, <1>5, <2>1, <2>2, <2>4 DEF Of, Reaping
    <2>6. Of(u)' = Of(u) /\ \A i \in SlotIds : StillIts(i, Of(u))' <=> StillIts(i, Of(u))
        BY <1>2, <2>1 DEF Of, StillIts
    <2>7. slots'[at'[u]].used = slots[at[u]].used
        BY <1>2, <2>1, <2>2
    <2> QED BY <2>1, <2>5, <2>6, <2>7 DEF AllNodeInv, InstallInv
<1>12. CountInv'
    <2>1. {i \in SlotIds : slots'[i].used} = {i \in SlotIds : slots[i].used}
        BY <1>2
    <2> QED BY <2>1 DEF AllNodeInv, CountInv
<1>13. UploadInv'
    <2>1. ASSUME NEW i \in SlotIds, slots'[i].restore # NoTransfer
          PROVE  /\ slots'[i].restore \in TransferFrames
                 /\ IsActive(table'[slots'[i].id])
                 /\ table'[slots'[i].id].pending_restore = slots'[i].restore
        <3>1. CASE i = k
            BY <1>1, <1>2, <2>1, <3>1
        <3>2. CASE i # k
            <4>1. slots'[i] = slots[i]
                BY <1>2, <3>2
            <4>2. slots[i].used
                BY <2>1, <4>1 DEF AllNodeInv, HoldInv, EmptySlot
            <4>3. slots[i].id \in Sessions /\ slots[i].id # s
                BY <1>1, <3>2, <4>2 DEF AllNodeInv, HoldInv
            <4> QED BY <1>3, <2>1, <4>1, <4>3 DEF AllNodeInv, UploadInv
        <3> QED BY <3>1, <3>2
    <2>2. ASSUME NEW r \in Sessions, IsActive(table'[r]),
                 table'[r].pending_restore # NoTransfer
          PROVE  \E i \in SlotIds : StillIts(i, r)'
                                    /\ slots'[i].restore = table'[r].pending_restore
        <3>1. CASE r = s
            BY <1>1, <1>2, <1>8, <2>2, <3>1 DEF StillIts
        <3>2. CASE r # s
            <4>1. table'[r] = table[r]
                BY <1>3, <3>2
            <4>2. PICK i \in SlotIds : StillIts(i, r)
                                       /\ slots[i].restore = table[r].pending_restore
                BY <2>2, <4>1 DEF AllNodeInv, UploadInv
            <4>3. i # k
                BY <1>1, <3>2, <4>2 DEF StillIts
            <4> QED BY <1>2, <1>9, <4>1, <4>2, <4>3
        <3> QED BY <3>1, <3>2
    <2> QED BY <2>1, <2>2 DEF UploadInv, StillIts
<1>14. PointInv'
    <2>1. ASSUME NEW u \in Threads
          PROVE  /\ pc'[u] \in {"restored", "refused"} =>
                      SameUpload(slots'[at'[u]].restore, job'[u].frame)
                 /\ pc'[u] \in {"execute", "restored"} =>
                      Stands(slots'[at'[u]].engine, Point(job'[u].frame))
                 /\ pc'[u] = "commit" =>
                      Stands(slots'[at'[u]].engine, Advanced(Point(job'[u].frame), job'[u].frame))
        <3>1. CASE u = t
            BY <1>1, <1>2, <3>1
        <3>2. CASE u # t
            <4>1. pc'[u] = pc[u] /\ job'[u] = job[u] /\ at'[u] = at[u] /\ at[u] \in SlotIds
                BY <1>4, <3>2, BusyThread DEF AllNodeInv
            <4>2. pc[u] \in Holders => slots'[at[u]] = slots[at[u]]
                BY <1>1, <1>2, <3>2, <4>1
            <4> QED BY <4>1, <4>2 DEF AllNodeInv, PointInv, Holders
        <3> QED BY <3>1, <3>2
    <2>2. \A i \in SlotIds : slots'[i].used => slots'[i].engine.point.session = slots'[i].id
        BY <1>1, <1>2 DEF AllNodeInv, PointInv
    <2> QED BY <2>1, <2>2 DEF PointInv
<1>15. EngineMatchesTable'
    <2> SUFFICES ASSUME NEW i \in SlotIds, slots'[i].used, IsActive(table'[slots'[i].id]),
                        ~fault', ~InFlight(slots[i].id)'
                 PROVE  Stands(slots'[i].engine,
                          [session |-> slots'[i].id,
                           sequence |-> table'[slots'[i].id].next_sequence,
                           position |-> table'[slots'[i].id].next_position])
        BY DEF EngineMatchesTable
    <2>1. CASE i = k
        <3>1. slots'[i].id = s /\ slots'[i] = new
            BY <1>1, <1>2, <2>1
        <3>2. pc'[t] \notin {"commit", "restored"}
            <4>1. SUFFICES ASSUME pc'[t] \in {"commit", "restored"} PROVE FALSE
                OBVIOUS
            <4>2. job'[t].kind \in {"run", "restore"} /\ job'[t].frame.session = s
                BY <1>1, <4>1 DEF JobInv, Of, AllNodeInv
            <4> QED BY <3>1, <4>1, <4>2 DEF InFlight
        <3> QED BY <3>1, <3>2
    <2>2. CASE i # k
        <3>1. slots'[i] = slots[i]
            BY <1>2, <2>2
        <3>2. slots[i].id \in Sessions /\ slots[i].id # s
            BY <1>1, <2>2, <3>1 DEF AllNodeInv, HoldInv
        <3>3. table'[slots[i].id] = table[slots[i].id]
            BY <1>3, <3>2
        <3>4. ~InFlight(slots[i].id)
            <4>1. \A u \in Workers : u # t => pc'[u] = pc[u] /\ job'[u] = job[u]
                BY <1>4, ThreadSet
            <4> QED BY <3>1, <3>2, <4>1 DEF InFlight, Of
        <3> QED BY <3>1, <3>3, <3>4 DEF AllNodeInv, EngineMatchesTable
    <2> QED BY <2>1, <2>2
<1>16. SnapshotIsOwn'
    BY <1>1, <1>2 DEF AllNodeInv, SnapshotIsOwn
<1>17. WellKept(table)'
    OBVIOUS
<1> QED BY <1>10, <1>11, <1>12, <1>13, <1>14, <1>15, <1>16, <1>17 DEF AllNodeInv

\* A worker's call on the table that leaves the slots alone and keeps the
\* entry's point and its transfer.
LEMMA TableStep ==
    ASSUME AllNodeInv, NEW t \in Workers, OthersKept(t), NEW s \in Sessions,
           pc[t] \in {"idle", "abort"}, pc'[t] \in {"idle", "find"},
           at' = at, slots' = slots, spent' = spent, active' = active, fault' = fault,
           WellKept(table'), OnlyAt(s, table, table'),
           IsActive(table'[s]) <=> IsActive(table[s]),
           table'[s].next_sequence = table[s].next_sequence,
           table'[s].next_position = table[s].next_position,
           table'[s].pending_restore = table[s].pending_restore,
           TypeOK', JobInv', LockInv', RunInv'
    PROVE  AllNodeInv'
<1>1. \A r \in Sessions :
        /\ IsActive(table'[r]) <=> IsActive(table[r])
        /\ table'[r].next_sequence = table[r].next_sequence
        /\ table'[r].next_position = table[r].next_position
        /\ table'[r].pending_restore = table[r].pending_restore
    BY DEF OnlyAt
<1>2. \A u \in Threads : u # t => pc'[u] = pc[u] /\ job'[u] = job[u]
    BY DEF OthersKept
<1>3. pc'[Reaper] = pc[Reaper] /\ job'[Reaper] = job[Reaper]
    BY ReaperKept
<1>4. \A r \in Sessions : /\ InFlight(r)' <=> InFlight(r)
                          /\ Installing(r)' <=> Installing(r)
    BY FlightKept, ThreadSet DEF AllNodeInv
<1>5. \A i \in SlotIds : slots[i].used => slots[i].id \in Sessions
    BY DEF AllNodeInv, HoldInv
<1>6. HoldInv'
    <2>1. ASSUME NEW i \in SlotIds
          PROVE  (IF slots[i].used
                  THEN /\ slots[i].id \in Sessions
                       /\ IsActive(table[slots[i].id]) \/ Reaping(slots[i].id)
                  ELSE slots[i] = EmptySlot)'
        BY <1>1, <1>3 DEF AllNodeInv, HoldInv, Reaping
    <2>2. ASSUME NEW r \in Sessions
          PROVE  (/\ IsActive(table[r]) =>
                       Installing(r) \/ \E i \in SlotIds : StillIts(i, r)
                  /\ IsActive(table[r]) => r \notin spent
                  /\ Reaping(r) => r \in spent)'
        BY <1>1, <1>3, <1>4 DEF AllNodeInv, HoldInv, StillIts, Reaping
    <2>3. (\A i, j \in SlotIds :
             slots[i].used /\ slots[j].used /\ slots[i].id = slots[j].id => i = j)'
        BY DEF AllNodeInv, HoldInv
    <2> QED BY <2>1, <2>2, <2>3 DEF HoldInv
<1>7. InstallInv'
    <2> SUFFICES ASSUME NEW u \in Threads, pc'[u] = "install"
                 PROVE  InstallInv!(u)'
        BY DEF InstallInv
    <2>1. pc[u] = "install" /\ job'[u] = job[u] /\ Of(u) \in Sessions
        BY <1>2, BusyThread DEF AllNodeInv
    <2> QED BY <1>1, <1>3, <2>1 DEF AllNodeInv, InstallInv, Of, StillIts, Reaping
<1>8. CountInv' /\ SnapshotIsOwn'
    BY DEF AllNodeInv, CountInv, SnapshotIsOwn
<1>9. UploadInv'
    <2>1. \A i \in SlotIds : slots[i].restore # NoTransfer => slots[i].used
        BY DEF AllNodeInv, HoldInv, EmptySlot
    <2> QED BY <1>1, <1>5, <2>1 DEF AllNodeInv, UploadInv, StillIts
<1>10. PointInv'
    <2>1. \A u \in Threads : u # t => pc'[u] = pc[u] /\ job'[u] = job[u]
        BY <1>2
    <2> QED BY <2>1 DEF AllNodeInv, PointInv
<1>11. EngineMatchesTable'
    BY <1>1, <1>4, <1>5 DEF AllNodeInv, EngineMatchesTable
<1>12. WellKept(table)'
    OBVIOUS
<1> QED BY <1>6, <1>7, <1>8, <1>9, <1>10, <1>11, <1>12 DEF AllNodeInv

\* A run that is begun finds no other run on its session.
LEMMA OneRun ==
    ASSUME AllNodeInv, NEW t \in Threads, job[t].kind = "run"
    PROVE  /\ Of(t) \in Sessions /\ job[t].frame \in Runs
           /\ table[Of(t)].pending # NoRun
<1>1. job[t] \in Jobs
    BY BusyThread DEF AllNodeInv
<1>2. job[t].frame \in Runs /\ Of(t) \in Sessions
    BY <1>1, JobFields DEF Of, Runs
<1> QED BY <1>2, ZeroPending DEF AllNodeInv, RunInv

\* The locks when a worker takes up a frame that waits for its slot.
LEMMA TakeUp ==
    ASSUME TypeOK, LockInv, NEW t \in Workers, OthersKept(t), pc[t] = "idle",
           pc'[t] \in {"idle", "find"}, at' = at, slots' = slots,
           slot_lock' = slot_lock, sessions_lock' = sessions_lock
    PROVE  LockInv'
<1>1. \A u \in Threads : at[u] \in SlotIds
    BY DEF TypeOK
<1>2. \A u \in Threads :
        /\ pc'[u] \in {"install", "close"} <=> sessions_lock' = u
        /\ (pc[u] \in Holders => slot_lock[at[u]] = u /\ StillIts(at[u], Of(u)))'
    BY ThreadSet DEF LockInv, OthersKept, Holders, StillIts, Of
<1>3. \A i \in SlotIds, u \in Threads :
        slot_lock'[i] = u => at'[u] = i /\ pc'[u] \in Holders \cup {"abort"}
    BY ThreadSet DEF LockInv, OthersKept, Holders
<1>4. (pc[Reaper] = "wait" => StillIts(at[Reaper], Of(Reaper)))'
    BY <1>1, ThreadSet DEF LockInv, OthersKept, StillIts, Of
<1> QED BY <1>2, <1>3, <1>4 DEF LockInv

-----------------------------------------------------------------------------
(* RUN. *)

LEMMA RunEnterStep ==
    ASSUME AllNodeInv, NEW t \in Workers, NEW run \in RunFrames, RunEnter(t, run)
    PROVE  AllNodeInv'
<1> DEFINE s == run.session
           status == RunBeginStatus(table, run, Now)
           kind == IF status = "OK" THEN "run" ELSE "duplicate"
           taken == [kind |-> kind, frame |-> run]
<1>1. /\ pc[t] = "idle" /\ table' = TableRunBegin(table, run, Now)
      /\ UNCHANGED <<quiet, slots, slot_lock, sessions_lock, active, fault, at, spent>>
      /\ IF status \in {"OK", "DUPLICATE"}
         THEN Goto(t, "find") /\ job' = [job EXCEPT ![t] = taken]
         ELSE UNCHANGED <<pc, job>>
    BY DEF RunEnter, Serves
<1>2. run \in Runs /\ s \in Sessions /\ Now \in Nat /\ t \in Threads
    BY NodeConstants, ThreadSet DEF Runs
<1>3. job[t] = NoJob /\ job[t] \in Jobs /\ at[t] \in SlotIds
    BY <1>1, <1>2, BusyThread DEF AllNodeInv
<1>4. taken \in Jobs
    BY DEF Jobs
<1>5. /\ OthersKept(t) /\ job' \in [Threads -> Jobs] /\ pc' \in [Threads -> Labels]
      /\ IF status \in {"OK", "DUPLICATE"}
         THEN pc'[t] = "find" /\ job'[t] = taken
         ELSE pc'[t] = "idle" /\ job'[t] = NoJob
    <2> HIDE DEF taken, status
    <2>1. CASE status \in {"OK", "DUPLICATE"}
        <3>1. /\ pc' = [pc EXCEPT ![t] = "find"] /\ job' = [job EXCEPT ![t] = taken]
              /\ at' = [at EXCEPT ![t] = at[t]]
            BY <1>1, <2>1 DEF Goto, AllNodeInv, TypeOK
        <3> QED BY <1>2, <1>3, <1>4, <2>1, <3>1, Moved DEF AllNodeInv, Labels
    <2>2. CASE status \notin {"OK", "DUPLICATE"}
        BY <1>1, <1>3, <2>2 DEF OthersKept, AllNodeInv, TypeOK
    <2> QED BY <2>1, <2>2
<1>6. /\ WellKept(table') /\ OnlyAt(s, table, table')
      /\ status = "OK" =>
           /\ IsActive(table[s]) /\ IsActive(table'[s])
           /\ table[s].pending = NoRun /\ table'[s].pending = run
           /\ table'[s].pending_restore = table[s].pending_restore
           /\ table'[s].next_sequence = table[s].next_sequence
           /\ table'[s].next_position = table[s].next_position
      /\ status # "OK" => Alike(table[s], table'[s])
    BY <1>1, <1>2, RunBeginCall DEF AllNodeInv
<1> HIDE DEF status
<1>7. TypeOK'
    BY <1>1, <1>5, <1>6 DEF AllNodeInv, TypeOK, WellKept
<1>8. JobInv'
    BY <1>1, <1>2, <1>5, ThreadSet DEF AllNodeInv, JobInv, OthersKept
<1>9. LockInv'
    BY <1>1, <1>5, TakeUp DEF AllNodeInv
<1>10. RunInv'
    <2>1. ASSUME NEW u \in Threads, u # t
          PROVE  job'[u] = job[u] /\ (job[u].kind = "run" => Of(u) \in Sessions
                                        /\ table[Of(u)].pending # NoRun)
        BY <1>5, <2>1, OneRun DEF OthersKept
    <2>2. CASE status = "OK"
        <3>1. job'[t].kind = "run" /\ job'[t].frame = run
            BY <1>5, <2>2
        <3>2. \A u \in Threads : u # t /\ job[u].kind = "run" => Of(u) # s
            BY <1>6, <2>1, <2>2
        <3>3. \A r \in Sessions : r # s => table'[r] = table[r]
            BY <1>6 DEF OnlyAt
        <3> QED BY <1>6, <2>1, <2>2, <3>1, <3>2, <3>3 DEF AllNodeInv, RunInv, Of
    <2>3. CASE status # "OK"
        <3>1. job'[t].kind # "run"
            BY <1>5, <2>3 DEF NoJob
        <3>2. \A r \in Sessions : /\ IsActive(table[r]) => IsActive(table'[r])
                                  /\ table'[r].pending = table[r].pending
            BY <1>6, <2>3 DEF OnlyAt, Alike
        <3> QED BY <2>1, <3>1, <3>2 DEF AllNodeInv, RunInv, Of
    <2> QED BY <2>2, <2>3
<1>11. /\ IsActive(table'[s]) <=> IsActive(table[s])
       /\ table'[s].next_sequence = table[s].next_sequence
       /\ table'[s].next_position = table[s].next_position
       /\ table'[s].pending_restore = table[s].pending_restore
    BY <1>6 DEF Alike
<1>12. pc'[t] \in {"idle", "find"}
    BY <1>5
<1> QED BY <1>1, <1>2, <1>5, <1>6, <1>7, <1>8, <1>9, <1>10, <1>11, <1>12, TableStep

\* A handler that ends: the thread is idle, and its lock is given back.
LEMMA Ended ==
    ASSUME TypeOK, NEW t \in Threads, Finish(t), at' = at
    PROVE  /\ OthersKept(t) /\ pc'[t] = "idle" /\ job'[t] = NoJob
           /\ pc' \in [Threads -> Labels] /\ job' \in [Threads -> Jobs]
<1>1. /\ pc' = [pc EXCEPT ![t] = "idle"] /\ job' = [job EXCEPT ![t] = NoJob]
      /\ at' = [at EXCEPT ![t] = at[t]] /\ at[t] \in SlotIds /\ NoJob \in Jobs
    BY DEF Finish, Goto, TypeOK, Jobs
<1> QED BY <1>1, Moved DEF Labels

\* A handler that answers from what it finds, and changes nothing.
LEMMA AnswerStep ==
    ASSUME AllNodeInv, NEW t \in Workers, pc[t] = "held", slot_lock' = Unlocked(at[t]),
           Finish(t),
           UNCHANGED <<table, quiet, slots, sessions_lock, active, fault, at, spent>>
    PROVE  AllNodeInv'
<1> USE DEF AllNodeInv
<1>1. t \in Threads
    BY ThreadSet
<1>2. /\ OthersKept(t) /\ pc'[t] = "idle" /\ job'[t] = NoJob
      /\ pc' \in [Threads -> Labels] /\ job' \in [Threads -> Jobs]
    BY <1>1, Ended
<1>3. LockInv' /\ slot_lock' \in [SlotIds -> Threads \cup {Nobody}]
    BY <1>1, <1>2, DropLock DEF Unlocked, Holders
<1>4. TypeOK'
    BY <1>2, <1>3 DEF TypeOK
<1>5. JobInv'
    BY <1>2 DEF JobInv, OthersKept
<1>6. \A r \in Sessions : Reaping(r)' <=> Reaping(r)
    BY <1>2, ReaperKept
<1>7. job'[t].kind # "run"
    BY <1>2 DEF NoJob
<1> QED BY <1>1, <1>2, <1>3, <1>4, <1>5, <1>6, <1>7, WalkStep

\* The entry a run works on: it stands where the run begins.
LEMMA RunPoint ==
    ASSUME AllNodeInv, NEW t \in Threads, job[t].kind = "run"
    PROVE  /\ Of(t) \in Sessions /\ IsActive(table[Of(t)])
           /\ table[Of(t)].pending = job[t].frame
           /\ table[Of(t)].pending_restore = NoTransfer
           /\ job[t].frame.sequence = table[Of(t)].next_sequence
           /\ job[t].frame.position = table[Of(t)].next_position
           /\ job[t].frame \in Runs
<1>1. /\ Of(t) \in Sessions /\ job[t].frame \in Runs /\ table[Of(t)].pending # NoRun
    BY OneRun
<1>2. IsActive(table[Of(t)]) /\ table[Of(t)].pending = job[t].frame
    BY DEF AllNodeInv, RunInv
<1> QED BY <1>1, <1>2, OneHolder DEF AllNodeInv

\* A residency fault is never cleared.
LEMMA FaultStands ==
    ASSUME TypeOK, NEW lost \in {fault, TRUE}, fault' = lost
    PROVE  (fault => fault') /\ fault' \in BOOLEAN
<1>1. fault \in BOOLEAN
    BY DEF TypeOK
<1>2. CASE lost = fault
    <2>1. fault' = fault
        BY <1>2
    <2> QED BY <1>1, <2>1
<1>3. CASE lost = TRUE
    <2>1. fault' = TRUE
        BY <1>3
    <2> QED BY <2>1
<1> QED BY <1>2, <1>3

\* What the holder of a slot finds in it.
LEMMA HeldSlot ==
    ASSUME AllNodeInv, NEW t \in Threads, pc[t] \in Holders
    PROVE  LET slot == slots[at[t]]  s == Of(t) IN
           /\ slot \in NodeSlots /\ slot.used /\ slot.id = s /\ slot.engine.point.session = s
           /\ IF IsActive(table[s])
              THEN /\ slot.restore \in TransferFrames \cup {NoTransfer}
                   /\ table[s].pending_restore = slot.restore
              ELSE slot.restore = NoTransfer
           /\ slot.snapshot # NoSnapshot =>
                slot.snapshot.label.session = s /\ slot.snapshot.state.point.session = s
           /\ IsActive(table[s]) /\ ~fault /\ pc[t] \notin {"commit", "restored"} =>
                Stands(slot.engine, [session |-> s, sequence |-> table[s].next_sequence,
                                     position |-> table[s].next_position])
<1> USE DEF AllNodeInv
<1> DEFINE k == at[t]
           s == Of(t)
<1>1. /\ k \in SlotIds /\ slots[k].used /\ slots[k].id = s /\ s \in Sessions
      /\ \A i \in SlotIds : StillIts(i, s) => i = k
      /\ \A u \in Threads : u # t /\ pc[u] \in Holders => Of(u) # s
    BY HolderOf
<1>2. slots[k] \in NodeSlots /\ slots[k].engine.point.session = s
    BY <1>1 DEF TypeOK, PointInv
<1>3. slots[k].restore # NoTransfer =>
        /\ slots[k].restore \in TransferFrames /\ IsActive(table[s])
        /\ table[s].pending_restore = slots[k].restore
    BY <1>1 DEF UploadInv
<1>4. IsActive(table[s]) /\ table[s].pending_restore # NoTransfer =>
        slots[k].restore = table[s].pending_restore
    BY <1>1 DEF UploadInv
<1>5. slots[k].snapshot # NoSnapshot =>
        slots[k].snapshot.label.session = s /\ slots[k].snapshot.state.point.session = s
    BY <1>1 DEF SnapshotIsOwn
<1>6. pc[t] \notin {"commit", "restored"} => ~InFlight(s)
    BY <1>1, ThreadSet DEF InFlight, Holders, Of
<1>7. IsActive(table[s]) /\ ~fault /\ pc[t] \notin {"commit", "restored"} =>
        Stands(slots[k].engine, [session |-> s, sequence |-> table[s].next_sequence,
                                 position |-> table[s].next_position])
    BY <1>1, <1>6 DEF EngineMatchesTable
<1> HIDE DEF k, s
<1> QED BY <1>1, <1>2, <1>3, <1>4, <1>5, <1>7 DEF k, s

\* Admission: with the weights resident, the engine of the slot stands where
\* the run begins, because nobody else is past the engine on this session.
LEMMA RunAdmitStep ==
    ASSUME AllNodeInv, NEW t \in Workers, RunAdmit(t)
    PROVE  AllNodeInv'
<1> USE DEF AllNodeInv
<1>1. /\ pc[t] = "held" /\ job[t].kind = "run" /\ t \in Threads
      /\ UNCHANGED <<table, quiet, slots, slot_lock, sessions_lock, active, job, at, spent>>
    BY ThreadSet DEF RunAdmit
<1>2. PICK lost \in {fault, TRUE} :
        /\ fault' = lost
        /\ \/ ~lost /\ Goto(t, "execute")
           \/ Goto(t, "abort")
    BY DEF RunAdmit, Admits
<1>3. (fault => fault') /\ fault' \in BOOLEAN
    BY <1>2, FaultStands
<1>4. \/ ~fault' /\ Goto(t, "execute")
      \/ Goto(t, "abort")
    BY <1>2, Zenon
<1>5. /\ OthersKept(t) /\ pc'[t] \in {"execute", "abort"} /\ job'[t] = job[t]
      /\ pc' \in [Threads -> Labels] /\ job' \in [Threads -> Jobs]
      /\ pc'[t] = "execute" => ~fault'
    BY <1>1, <1>4 DEF Goto, TypeOK, OthersKept, Labels
<1>6. pc'[t] = "execute" => Stands(slots[at[t]].engine, Point(job[t].frame))
    <2>1. /\ IsActive(table[Of(t)]) /\ Of(t) = job[t].frame.session
          /\ job[t].frame.sequence = table[Of(t)].next_sequence
          /\ job[t].frame.position = table[Of(t)].next_position
        BY <1>1, RunPoint DEF Of
    <2>2. ~fault =>
             Stands(slots[at[t]].engine, [session |-> Of(t), sequence |-> table[Of(t)].next_sequence,
                                          position |-> table[Of(t)].next_position])
        BY <1>1, <2>1, HeldSlot DEF Holders
    <2> QED BY <1>3, <1>5, <2>1, <2>2 DEF Point
<1>7. TypeOK'
    BY <1>1, <1>3, <1>5 DEF TypeOK
<1>8. JobInv'
    BY <1>1, <1>5, ThreadSet DEF JobInv, OthersKept
<1>9. LockInv'
    BY <1>1, <1>5, KeepLock DEF Holders
<1>10. \A r \in Sessions : Reaping(r)' <=> Reaping(r)
    BY <1>5, ReaperKept
<1> QED BY <1>1, <1>3, <1>5, <1>6, <1>7, <1>8, <1>9, <1>10, WalkStep

\* coli_segment_run: the engine advances past the run, or stays.
LEMMA RunExecuteStep ==
    ASSUME AllNodeInv, NEW t \in Workers, RunExecute(t)
    PROVE  AllNodeInv'
<1> USE DEF AllNodeInv
<1> DEFINE k == at[t]
           s == Of(t)
           run == job[t].frame
<1>1. /\ pc[t] = "execute" /\ t \in Threads /\ pc[t] \in Holders
      /\ UNCHANGED <<table, quiet, slot_lock, sessions_lock, active, job, at, spent>>
    BY ThreadSet DEF RunExecute, Holders
<1>2. PICK lost \in {fault, TRUE}, failed \in BOOLEAN :
        /\ fault' = lost
        /\ slots' = IF failed THEN slots
                    ELSE [slots EXCEPT ![k].engine.point = Advanced(@, run)]
        /\ Goto(t, IF failed \/ lost THEN "abort" ELSE "commit")
    BY DEF RunExecute
<1>3. (fault => fault') /\ fault' \in BOOLEAN
    BY <1>2, FaultStands
<1>4. /\ OthersKept(t) /\ job'[t] = job[t] /\ pc' \in [Threads -> Labels]
      /\ pc'[t] \in {"abort", "commit"}
      /\ pc'[t] = "commit" => ~failed
      /\ pc'[t] = "abort" /\ ~fault' => failed
    <2>1. pc' = [pc EXCEPT ![t] = IF failed \/ lost THEN "abort" ELSE "commit"]
        BY <1>2 DEF Goto
    <2>2. CASE failed \/ lost
        BY <1>1, <1>2, <2>1, <2>2 DEF OthersKept, TypeOK, Labels
    <2>3. CASE ~failed /\ ~lost
        BY <1>1, <1>2, <2>1, <2>3 DEF OthersKept, TypeOK, Labels
    <2> QED BY <2>2, <2>3
<1>5. /\ k \in SlotIds /\ slots[k] \in NodeSlots /\ slots[k].used /\ slots[k].id = s
      /\ slots[k].engine.point.session = s
      /\ IF IsActive(table[s])
         THEN /\ slots[k].restore \in TransferFrames \cup {NoTransfer}
              /\ table[s].pending_restore = slots[k].restore
         ELSE slots[k].restore = NoTransfer
      /\ slots[k].snapshot # NoSnapshot =>
           slots[k].snapshot.label.session = s /\ slots[k].snapshot.state.point.session = s
    BY <1>1, HeldSlot, HolderOf
<1>6. /\ s = run.session /\ run \in Runs /\ job[t].kind = "run"
      /\ run.sequence = table[s].next_sequence /\ run.position = table[s].next_position
      /\ Stands(slots[k].engine, Point(run))
      /\ run.sequence + 1 \in Nat /\ run.position + run.rows \in Nat /\ s \in Sessions
    BY <1>1, RunPoint, RunFields DEF JobInv, Of, PointInv
<1> DEFINE engine == slots[k].engine
           ran == [engine EXCEPT !.point = Advanced(@, run)]
           new == IF failed THEN slots[k] ELSE [slots[k] EXCEPT !.engine = ran]
<1>7. slots' = [slots EXCEPT ![k] = new]
    <2>1. CASE failed
        BY <1>2, <1>5, <2>1 DEF TypeOK
    <2>2. CASE ~failed
        BY <1>2, <1>5, <2>2
    <2> QED BY <2>1, <2>2
<1>8. /\ new \in NodeSlots /\ new.used /\ new.id = s /\ new.restore = slots[k].restore
      /\ new.snapshot = slots[k].snapshot
      /\ Stands(new.engine, IF failed THEN Point(run) ELSE Advanced(Point(run), run))
      /\ new.engine.point.session = s
    <2>1. CASE failed
        BY <1>5, <1>6, <2>1
    <2>2. CASE ~failed
        <3>1. engine \in Engines /\ engine.point \in Points
            BY <1>5 DEF NodeSlots, Engines
        <3>2. /\ Advanced(engine.point, run) \in Points
              /\ Advanced(engine.point, run).session = s
            BY <1>5, <1>6, <3>1 DEF Advanced, Points
        <3>3. /\ ran \in Engines /\ ran.point = Advanced(engine.point, run)
              /\ ran.astray = engine.astray
            <4> HIDE DEF engine
            <4> QED BY <3>1, <3>2 DEF Engines
        <3>4. Stands(ran, Advanced(Point(run), run))
            <4>1. engine.astray \/ engine.point = Point(run)
                BY <1>6 DEF Stands
            <4> HIDE DEF ran, engine
            <4> QED BY <3>3, <4>1 DEF Stands
        <3> HIDE DEF ran, engine, run, k
        <3> QED BY <1>5, <2>2, <3>2, <3>3, <3>4 DEF NodeSlots
    <2> QED BY <2>1, <2>2
<1> HIDE DEF new, k
<1>9. \A i \in SlotIds : slots'[i].used = slots[i].used /\ slots'[i].id = slots[i].id
    BY <1>5, <1>7, <1>8 DEF TypeOK
<1>10. TypeOK'
    BY <1>1, <1>3, <1>4, <1>5, <1>7, <1>8 DEF TypeOK
<1>11. JobInv'
    BY <1>1, <1>4, <1>6, ThreadSet DEF JobInv, OthersKept
<1>12. LockInv'
    BY <1>1, <1>4, <1>9, KeepLock DEF Holders
<1>13. RunInv'
    BY <1>1 DEF RunInv, Of
<1>14. pc'[t] \notin {"commit"} /\ ~fault' =>
         Stands(new.engine, [session |-> s, sequence |-> table[s].next_sequence,
                             position |-> table[s].next_position])
    BY <1>4, <1>6, <1>8 DEF Point
<1>15. OnlyAt(s, table, table') /\ WellKept(table') /\ table'[s] = table[s]
    BY <1>1 DEF OnlyAt
<1>16. pc'[t] = "commit" => Stands(new.engine, Advanced(Point(run), run))
    BY <1>4, <1>8
<1> HIDE DEF run, s
<1> QED BY <1>1, <1>3, <1>4, <1>5, <1>7, <1>8, <1>10, <1>11, <1>12, <1>13, <1>14, <1>15,
           <1>16, SlotStep DEF k, s, run

\* Where a run leaves the engine.
LEMMA AdvancedPoint ==
    ASSUME NEW run, NEW point, point = Advanced(Point(run), run)
    PROVE  point =
             [session |-> run.session, sequence |-> run.sequence + 1,
              position |-> run.position + run.rows]
BY DEF Advanced, Point

\* run_commit and the reply cache: the table follows the engine.
LEMMA RunCommitStep ==
    ASSUME AllNodeInv, NEW t \in Workers, RunCommit(t)
    PROVE  AllNodeInv'
<1> USE DEF AllNodeInv
<1> DEFINE k == at[t]
           s == Of(t)
           run == job[t].frame
           new == Committed(slots[k], run)
<1>1. /\ pc[t] = "commit" /\ t \in Threads /\ pc[t] \in Holders
      /\ UNCHANGED <<quiet, sessions_lock, active, fault, at, spent>>
      /\ table' = TableRunCommit(table, run, Now) /\ Finish(t)
      /\ slot_lock' = [slot_lock EXCEPT ![k] = Nobody]
    BY ThreadSet DEF RunCommit, Holders, Unlocked
<1>2. /\ s = run.session /\ run \in Runs /\ job[t].kind = "run" /\ s \in Sessions
      /\ IsActive(table[s]) /\ table[s].pending = run
      /\ table[s].pending_restore = NoTransfer
      /\ Stands(slots[k].engine, Advanced(Point(run), run))
      /\ run.request \in Requests
    BY <1>1, RunPoint DEF JobInv, Of, PointInv, Runs
<1>3. /\ RunEndStatus(table, run) = "OK"
      /\ WellKept(table') /\ OnlyAt(s, table, table') /\ IsActive(table'[s])
      /\ table'[s].pending_restore = NoTransfer
      /\ table'[s].next_sequence = run.sequence + 1
      /\ table'[s].next_position = run.position + run.rows
    <2>1. Now \in Nat
        BY NodeConstants
    <2> HIDE DEF run
    <2> QED BY <1>1, <1>2, <2>1, RunCommitCall
<1>4. slots' = [slots EXCEPT ![k] = new]
    BY <1>3 DEF RunCommit
<1>5. /\ k \in SlotIds /\ slots[k] \in NodeSlots /\ slots[k].used /\ slots[k].id = s
      /\ slots[k].restore = NoTransfer /\ slots[k].engine.point.session = s
    BY <1>1, <1>2, HeldSlot, HolderOf
<1>6. /\ OthersKept(t) /\ pc'[t] = "idle" /\ job'[t] = NoJob
      /\ pc' \in [Threads -> Labels] /\ job' \in [Threads -> Jobs]
    BY <1>1, Ended
<1>7. /\ new \in NodeSlots /\ new.used /\ new.id = s /\ new.restore = NoTransfer
      /\ Stands(new.engine, Advanced(Point(run), run)) /\ new.engine.point.session = s
      /\ new.snapshot = NoSnapshot
    <2>1. NoSnapshot \in [label : Points, state : Engines]
        BY DEF NoSnapshot, NoEngine, NoPoint, Points, Engines
    <2> HIDE DEF run
    <2> QED BY <1>2, <1>5, <2>1 DEF Committed, NodeSlots
<1>8. Stands(new.engine, [session |-> s, sequence |-> table'[s].next_sequence,
                          position |-> table'[s].next_position])
    <2>1. [session |-> s, sequence |-> table'[s].next_sequence,
           position |-> table'[s].next_position] = Advanced(Point(run), run)
        <3>1. Advanced(Point(run), run) =
                [session |-> s, sequence |-> run.sequence + 1, position |-> run.position + run.rows]
            BY <1>2, AdvancedPoint
        <3> HIDE DEF run, s, new
        <3> QED BY <1>3, <3>1
    <2> HIDE DEF new
    <2> QED BY <1>7, <2>1
<1> HIDE DEF new, k
<1>9. \A i \in SlotIds : slots'[i].used = slots[i].used /\ slots'[i].id = slots[i].id
    BY <1>4, <1>5, <1>7 DEF TypeOK
<1>10. LockInv' /\ slot_lock' \in [SlotIds -> Threads \cup {Nobody}]
    BY <1>1, <1>6, <1>9, DropLock DEF k
<1>11. TypeOK'
    BY <1>1, <1>3, <1>4, <1>5, <1>6, <1>7, <1>10 DEF TypeOK, WellKept
<1>12. JobInv'
    BY <1>6 DEF JobInv, OthersKept
<1>13. RunInv'
    <2>1. \A u \in Threads : u # t => job'[u] = job[u]
        BY <1>6 DEF OthersKept
    <2>2. ~(job'[t].kind = "run")
        BY <1>6 DEF NoJob
    <2>3. \A u \in Threads : u # t /\ job[u].kind = "run" => Of(u) # s /\ Of(u) \in Sessions
        BY <1>1, <1>2, OneRun DEF RunInv
    <2>4. \A r \in Sessions : r # s => table'[r] = table[r]
        BY <1>3 DEF OnlyAt
    <2> QED BY <2>1, <2>2, <2>3, <2>4 DEF RunInv, Of
<1> HIDE DEF run, s
<1> QED BY <1>1, <1>2, <1>3, <1>4, <1>5, <1>6, <1>7, <1>8, <1>10, <1>11, <1>12, <1>13,
           SlotStep DEF k, s, run

\* run_abort: the reservation and every lock of the thread are given back.
LEMMA RunAbortStep ==
    ASSUME AllNodeInv, NEW t \in Workers, RunAbort(t)
    PROVE  AllNodeInv'
<1> USE DEF AllNodeInv
<1> DEFINE s == Of(t)
           run == job[t].frame
<1>1. /\ pc[t] = "abort" /\ t \in Threads
      /\ UNCHANGED <<quiet, slots, sessions_lock, active, fault, at, spent>>
      /\ table' = TableRunAbort(table, run) /\ Finish(t)
      /\ slot_lock' = [i \in SlotIds |-> IF slot_lock[i] = t THEN Nobody ELSE slot_lock[i]]
    BY ThreadSet DEF RunAbort
<1>2. /\ s = run.session /\ run \in Runs /\ job[t].kind = "run" /\ s \in Sessions
      /\ IsActive(table[s]) /\ table[s].pending = run
    BY <1>1, RunPoint DEF JobInv, Of
<1>3. /\ WellKept(table') /\ OnlyAt(s, table, table') /\ IsActive(table'[s])
      /\ table'[s].pending_restore = table[s].pending_restore
      /\ table'[s].next_sequence = table[s].next_sequence
      /\ table'[s].next_position = table[s].next_position
    <2> HIDE DEF run
    <2> QED BY <1>1, <1>2, RunAbortCall
<1>4. /\ OthersKept(t) /\ pc'[t] = "idle" /\ job'[t] = NoJob
      /\ pc' \in [Threads -> Labels] /\ job' \in [Threads -> Jobs]
    BY <1>1, Ended
<1>5. /\ slot_lock' \in [SlotIds -> Threads \cup {Nobody}]
      /\ \A i \in SlotIds : IF slot_lock[i] = t THEN slot_lock'[i] = Nobody
                            ELSE slot_lock'[i] = slot_lock[i]
    BY <1>1 DEF TypeOK
<1>6. LockInv'
    <2>1. \A u \in Threads : at[u] \in SlotIds
        BY DEF TypeOK
    <2>2. ASSUME NEW u \in Threads
          PROVE  (/\ pc[u] \in {"install", "close"} <=> sessions_lock = u
                  /\ pc[u] \in Holders => slot_lock[at[u]] = u /\ StillIts(at[u], Of(u)))'
        <3>1. CASE u = t
            BY <1>1, <1>4, <3>1 DEF LockInv, Holders
        <3>2. CASE u # t
            BY <1>1, <1>4, <1>5, <2>1, <3>2 DEF LockInv, OthersKept, StillIts, Of
        <3> QED BY <3>1, <3>2
    <2>3. ASSUME NEW i \in SlotIds, NEW u \in Threads, slot_lock'[i] = u
          PROVE  at'[u] = i /\ pc'[u] \in Holders \cup {"abort"}
        BY <1>1, <1>4, <1>5, <2>3, ThreadSet DEF LockInv, OthersKept
    <2>4. (pc[Reaper] = "wait" => StillIts(at[Reaper], Of(Reaper)))'
        BY <1>1, <1>4, <2>1, ThreadSet DEF LockInv, OthersKept, StillIts, Of
    <2> QED BY <2>2, <2>3, <2>4 DEF LockInv
<1>7. TypeOK'
    BY <1>1, <1>3, <1>4, <1>5 DEF TypeOK, WellKept
<1>8. JobInv'
    BY <1>4 DEF JobInv, OthersKept
<1>9. RunInv'
    <2>1. \A u \in Threads : u # t => job'[u] = job[u]
        BY <1>4 DEF OthersKept
    <2>2. ~(job'[t].kind = "run")
        BY <1>4 DEF NoJob
    <2>3. \A u \in Threads : u # t /\ job[u].kind = "run" => Of(u) # s /\ Of(u) \in Sessions
        BY <1>1, <1>2, OneRun DEF RunInv
    <2>4. \A r \in Sessions : r # s => table'[r] = table[r]
        BY <1>3 DEF OnlyAt
    <2> QED BY <2>1, <2>2, <2>3, <2>4 DEF RunInv, Of
<1> HIDE DEF run, s
<1> QED BY <1>1, <1>2, <1>3, <1>4, <1>6, <1>7, <1>8, <1>9, TableStep

-----------------------------------------------------------------------------
(* SNAPSHOT. *)

LEMMA SnapshotEnterStep ==
    ASSUME AllNodeInv, NEW t \in Workers, NEW x \in TransferFrames,
           NEW offset \in 0..(Chunks - 1), SnapshotEnter(t, x, offset)
    PROVE  AllNodeInv'
<1> USE DEF AllNodeInv
<1> DEFINE s == x.session
           ok == SnapshotStatus(table, x, Now) = "OK"
           taken == [kind |-> "snapshot", frame |-> x, offset |-> offset]
<1>1. /\ pc[t] = "idle" /\ t \in Threads /\ table' = TableSnapshotCheck(table, x, Now)
      /\ UNCHANGED <<quiet, slots, slot_lock, sessions_lock, active, fault, at, spent>>
      /\ IF ok THEN Goto(t, "find") /\ job' = [job EXCEPT ![t] = taken]
         ELSE UNCHANGED <<pc, job>>
    BY ThreadSet DEF SnapshotEnter, Serves
<1>2. x \in Transfers /\ s \in Sessions /\ Now \in Nat
    BY NodeConstants DEF Transfers
<1>3. job[t] = NoJob /\ job[t] \in Jobs /\ at[t] \in SlotIds /\ taken \in Jobs
    BY <1>1, BusyThread DEF Jobs
<1>4. /\ WellKept(table') /\ OnlyAt(s, table, table') /\ Alike(table[s], table'[s])
    BY <1>1, <1>2, SnapshotCall
<1> HIDE DEF ok, taken
<1>5. /\ OthersKept(t) /\ job' \in [Threads -> Jobs] /\ pc' \in [Threads -> Labels]
      /\ \/ pc'[t] = "find" /\ job'[t] = taken
         \/ pc'[t] = "idle" /\ job'[t] = NoJob
    <2>1. CASE ok
        <3>1. /\ pc' = [pc EXCEPT ![t] = "find"] /\ job' = [job EXCEPT ![t] = taken]
              /\ at' = [at EXCEPT ![t] = at[t]]
            BY <1>1, <2>1 DEF Goto, TypeOK
        <3> QED BY <1>1, <1>3, <3>1, Moved DEF Labels
    <2>2. CASE ~ok
        BY <1>1, <1>3, <2>2 DEF OthersKept, TypeOK
    <2> QED BY <2>1, <2>2
<1>6. job'[t].kind \in {"snapshot", "none"} /\ (pc'[t] = "find" => job'[t].kind = "snapshot")
    BY <1>5 DEF taken, NoJob
<1>7. TypeOK'
    BY <1>1, <1>4, <1>5 DEF TypeOK, WellKept
<1>8. JobInv'
    BY <1>5, <1>6, ThreadSet DEF JobInv, OthersKept
<1>9. LockInv'
    BY <1>1, <1>5, TakeUp
<1>10. RunInv'
    <2>1. \A u \in Threads : job'[u].kind = "run" => job'[u] = job[u]
        BY <1>5, <1>6 DEF OthersKept
    <2>2. \A u \in Threads : job[u].kind = "run" => Of(u) \in Sessions
        BY OneRun
    <2>3. \A r \in Sessions : /\ IsActive(table[r]) => IsActive(table'[r])
                              /\ table'[r].pending = table[r].pending
        BY <1>4 DEF OnlyAt, Alike
    <2> QED BY <2>1, <2>2, <2>3 DEF RunInv, Of
<1> QED BY <1>1, <1>2, <1>4, <1>5, <1>7, <1>8, <1>9, <1>10, TableStep DEF Alike

\* The snapshot is taken from the engine of the slot that is held.
LEMMA SnapshotServeStep ==
    ASSUME AllNodeInv, NEW t \in Workers, SnapshotServe(t)
    PROVE  AllNodeInv'
<1> USE DEF AllNodeInv
<1> DEFINE k == at[t]
           s == Of(t)
           x == job[t].frame
           kept == [label |-> Point(x), state |-> slots[k].engine]
           new == [slots[k] EXCEPT !.snapshot = kept]
<1>1. /\ pc[t] = "held" /\ job[t].kind = "snapshot" /\ t \in Threads /\ pc[t] \in Holders
      /\ UNCHANGED <<table, quiet, sessions_lock, active, fault, at, spent>>
      /\ Finish(t) /\ slot_lock' = Unlocked(k)
    BY ThreadSet DEF SnapshotServe, Holders
<1>2. CASE UNCHANGED slots
    BY <1>1, <1>2, AnswerStep
<1>3. CASE slots' = [slots EXCEPT ![k].snapshot = kept]
    <2>1. /\ k \in SlotIds /\ slots[k] \in NodeSlots /\ slots[k].used /\ slots[k].id = s
          /\ slots[k].engine.point.session = s
          /\ IF IsActive(table[s])
             THEN /\ slots[k].restore \in TransferFrames \cup {NoTransfer}
                  /\ table[s].pending_restore = slots[k].restore
             ELSE slots[k].restore = NoTransfer
          /\ IsActive(table[s]) /\ ~fault =>
               Stands(slots[k].engine, [session |-> s, sequence |-> table[s].next_sequence,
                                        position |-> table[s].next_position])
        BY <1>1, HeldSlot, HolderOf
    <2>2. x.session = s /\ x \in Transfers /\ s \in Sessions
        BY <1>1, BusyThread, JobFields DEF Of
    <2>3. slots' = [slots EXCEPT ![k] = new]
        BY <1>3, <2>1
    <2>4. kept \in [label : Points, state : Engines]
          /\ kept.label.session = s /\ kept.state.point.session = s
        <3>1. Point(x) \in Points /\ Point(x).session = s
            BY <2>2, TransferFields DEF Point, Points
        <3>2. slots[k].engine \in Engines
            BY <2>1 DEF NodeSlots
        <3> QED BY <2>1, <3>1, <3>2
    <2> HIDE DEF x, kept
    <2>5. /\ new \in NodeSlots /\ new.used /\ new.id = s /\ new.restore = slots[k].restore
          /\ new.engine = slots[k].engine /\ new.snapshot = kept
        BY <2>1, <2>4 DEF NodeSlots
    <2> HIDE DEF new, k
    <2>6. \A i \in SlotIds : slots'[i].used = slots[i].used /\ slots'[i].id = slots[i].id
        BY <2>1, <2>3, <2>5 DEF TypeOK
    <2>7. /\ OthersKept(t) /\ pc'[t] = "idle" /\ job'[t] = NoJob
          /\ pc' \in [Threads -> Labels] /\ job' \in [Threads -> Jobs]
        BY <1>1, Ended
    <2>8. LockInv' /\ slot_lock' \in [SlotIds -> Threads \cup {Nobody}]
        BY <1>1, <2>6, <2>7, DropLock DEF k, Unlocked
    <2>9. TypeOK'
        BY <1>1, <2>1, <2>3, <2>5, <2>7, <2>8 DEF TypeOK
    <2>10. JobInv'
        BY <2>7 DEF JobInv, OthersKept
    <2>11. RunInv'
        BY <1>1, <2>7 DEF RunInv, Of, OthersKept, NoJob
    <2>12. OnlyAt(s, table, table') /\ WellKept(table') /\ table'[s] = table[s]
        BY <1>1 DEF OnlyAt
    <2> HIDE DEF s
    <2> QED BY <1>1, <2>1, <2>3, <2>4, <2>5, <2>7, <2>8, <2>9, <2>10, <2>11, <2>12,
               SlotStep DEF k, s
<1> QED BY <1>2, <1>3 DEF SnapshotServe

-----------------------------------------------------------------------------
(* RESTORE and the way into CLOSE. *)

LEMMA RestoreEnterStep ==
    ASSUME AllNodeInv, NEW t \in Workers, NEW x \in TransferFrames,
           NEW offset \in 0..(Chunks - 1), RestoreEnter(t, x, offset)
    PROVE  AllNodeInv'
<1> USE DEF AllNodeInv
<1> DEFINE taken == [kind |-> "restore", frame |-> x, offset |-> offset]
<1>1. /\ pc[t] = "idle" /\ t \in Threads
      /\ pc' = [pc EXCEPT ![t] = "find"] /\ job' = [job EXCEPT ![t] = taken]
      /\ UNCHANGED <<table, quiet, slots, slot_lock, sessions_lock, active, fault, at, spent>>
    BY ThreadSet DEF RestoreEnter, Serves, Goto
<1>2. taken \in Jobs /\ at[t] \in SlotIds /\ at' = [at EXCEPT ![t] = at[t]]
      /\ taken.kind = "restore"
    BY <1>1, BusyThread DEF Jobs, TypeOK
<1> HIDE DEF taken
<1>3. /\ OthersKept(t) /\ pc'[t] = "find" /\ job'[t] = taken
      /\ pc' \in [Threads -> Labels] /\ job' \in [Threads -> Jobs]
    BY <1>1, <1>2, Moved DEF Labels
<1>4. TypeOK'
    BY <1>1, <1>3 DEF TypeOK
<1>5. JobInv'
    BY <1>2, <1>3, ThreadSet DEF JobInv, OthersKept
<1>6. LockInv'
    BY <1>1, <1>3, TakeUp
<1>7. \A r \in Sessions : Reaping(r)' <=> Reaping(r)
    BY <1>3, ReaperKept
<1> QED BY <1>1, <1>2, <1>3, <1>4, <1>5, <1>6, <1>7, WalkStep

LEMMA CloseEnterStep ==
    ASSUME AllNodeInv, NEW t \in Workers, NEW c \in CloseFrames, CloseEnter(t, c)
    PROVE  AllNodeInv'
<1> USE DEF AllNodeInv
<1> DEFINE taken == [kind |-> "close", frame |-> c]
<1>1. /\ pc[t] = "idle" /\ t \in Threads /\ sessions_lock = Nobody /\ sessions_lock' = t
      /\ pc' = [pc EXCEPT ![t] = "close"] /\ job' = [job EXCEPT ![t] = taken]
      /\ UNCHANGED <<table, quiet, slots, slot_lock, active, fault, at, spent>>
    BY ThreadSet DEF CloseEnter, Serves, Goto
<1>2. taken \in Jobs /\ at[t] \in SlotIds /\ at' = [at EXCEPT ![t] = at[t]]
      /\ taken.kind = "close"
    BY <1>1, BusyThread DEF Jobs, TypeOK
<1> HIDE DEF taken
<1>3. /\ OthersKept(t) /\ pc'[t] = "close" /\ job'[t] = taken
      /\ pc' \in [Threads -> Labels] /\ job' \in [Threads -> Jobs]
    BY <1>1, <1>2, Moved DEF Labels
<1>4. TypeOK'
    BY <1>1, <1>3 DEF TypeOK
<1>5. JobInv'
    BY <1>2, <1>3, ThreadSet DEF JobInv, OthersKept
<1>6. LockInv'
    <2>1. ASSUME NEW u \in Threads
          PROVE  (/\ pc[u] \in {"install", "close"} <=> sessions_lock = u
                  /\ pc[u] \in Holders => slot_lock[at[u]] = u /\ StillIts(at[u], Of(u)))'
        BY <1>1, <1>3, ThreadSet DEF LockInv, OthersKept, Holders, StillIts, Of
    <2>2. \A i \in SlotIds, u \in Threads :
            slot_lock'[i] = u => at'[u] = i /\ pc'[u] \in Holders \cup {"abort"}
        BY <1>1, <1>3 DEF LockInv, OthersKept, Holders
    <2>3. (pc[Reaper] = "wait" => StillIts(at[Reaper], Of(Reaper)))'
        BY <1>1, <1>3, ThreadSet DEF LockInv, OthersKept, StillIts, Of
    <2> QED BY <2>1, <2>2, <2>3 DEF LockInv
<1>7. \A r \in Sessions : Reaping(r)' <=> Reaping(r)
    BY <1>3, ReaperKept
<1> QED BY <1>1, <1>2, <1>3, <1>4, <1>5, <1>6, <1>7, WalkStep

\* The frame of an upload under way names what the slot holds: by UploadsNamed
\* it is of the reservation's owner, so the table will know it again.
LEMMA SameTransfer ==
    ASSUME NEW x \in TransferFrames, NEW upload \in TransferFrames \cup {NoTransfer},
           SameUpload(upload, x), upload # NoTransfer => upload.session = x.session
    PROVE  upload # NoTransfer /\ upload \in TransferFrames /\ RestoreSame(upload, x)
<1>1. x \in Transfers /\ x.request # ZeroId /\ TransferFrames \subseteq Transfers
    BY NodeConstants, SegConstants, TransferFields
<1>2. upload # NoTransfer /\ upload \in TransferFrames
    BY <1>1 DEF SameUpload, NoTransfer
<1>3. upload.owner = x.owner
    BY <1>2, UploadsNamed DEF SameUpload
<1>4. OwnerRelation(x.owner, upload.owner) = 0
    BY <1>1, <1>3, SameOwner, TransferFields
<1> QED BY <1>2, <1>4 DEF SameUpload, RestoreSame

\* Every RESTORE step writes one slot: what it changes of the slot and of the
\* table's entry decides the rest.
LEMMA RestoreStep ==
    ASSUME AllNodeInv, NEW t \in Workers, pc[t] \in {"held", "restored", "refused"},
           job[t].kind = "restore",
           UNCHANGED <<quiet, sessions_lock, active, fault, at, spent>>,
           \/ /\ slot_lock' = slot_lock /\ UNCHANGED job
              /\ pc'[t] \in {"held", "restored", "refused"}
              /\ \E l \in {"held", "restored", "refused"} : pc' = [pc EXCEPT ![t] = l]
           \/ slot_lock' = Unlocked(at[t]) /\ Finish(t),
           NEW new \in NodeSlots, slots' = [slots EXCEPT ![at[t]] = new],
           new.used, new.id = Of(t), new.snapshot = slots[at[t]].snapshot,
           WellKept(table'), OnlyAt(Of(t), table, table'),
           IsActive(table'[Of(t)]) <=> IsActive(table[Of(t)]),
           table'[Of(t)] = table[Of(t)] \/ table[Of(t)].pending = NoRun,
           IF IsActive(table[Of(t)])
           THEN /\ new.restore \in TransferFrames \cup {NoTransfer}
                /\ table'[Of(t)].pending_restore = new.restore
           ELSE new.restore = NoTransfer,
           pc'[t] \in {"restored", "refused"} => SameUpload(new.restore, job[t].frame),
           pc'[t] = "restored" => Stands(new.engine, Point(job[t].frame)),
           new.engine.point.session = Of(t),
           IsActive(table'[Of(t)]) /\ ~fault /\ pc'[t] # "restored" =>
               Stands(new.engine, [session |-> Of(t),
                                   sequence |-> table'[Of(t)].next_sequence,
                                   position |-> table'[Of(t)].next_position])
    PROVE  AllNodeInv'
<1> USE DEF AllNodeInv
<1> DEFINE k == at[t]
           s == Of(t)
<1>1. /\ t \in Threads /\ pc[t] \in Holders /\ k \in SlotIds /\ slots[k].used
      /\ slots[k].id = s /\ s \in Sessions
    BY ThreadSet, HolderOf DEF Holders
<1>2. /\ OthersKept(t) /\ pc' \in [Threads -> Labels] /\ job' \in [Threads -> Jobs]
      /\ \/ /\ pc'[t] \in {"held", "restored", "refused"} /\ job' = job
            /\ slot_lock' = slot_lock
         \/ /\ pc'[t] = "idle" /\ job'[t] = NoJob
            /\ slot_lock' = [slot_lock EXCEPT ![k] = Nobody]
    <2>1. CASE Finish(t) /\ slot_lock' = Unlocked(k)
        BY <1>1, <2>1, Ended DEF Unlocked
    <2>2. CASE \E l \in {"held", "restored", "refused"} : pc' = [pc EXCEPT ![t] = l]
               /\ job' = job /\ slot_lock' = slot_lock
        BY <1>1, <2>2 DEF OthersKept, TypeOK, Labels
    <2> QED BY <2>1, <2>2
<1>3. \A i \in SlotIds : slots'[i].used = slots[i].used /\ slots'[i].id = slots[i].id
    BY <1>1 DEF TypeOK
<1>4. LockInv' /\ slot_lock' \in [SlotIds -> Threads \cup {Nobody}]
    <2>1. CASE pc'[t] \in {"held", "restored", "refused"} /\ job' = job
               /\ slot_lock' = slot_lock
        BY <1>1, <1>2, <1>3, <2>1, KeepLock DEF Holders, TypeOK
    <2>2. CASE pc'[t] = "idle" /\ slot_lock' = [slot_lock EXCEPT ![k] = Nobody]
        BY <1>1, <1>2, <1>3, <2>2, DropLock
    <2> QED BY <1>2, <2>1, <2>2
<1>5. TypeOK'
    BY <1>1, <1>2, <1>4 DEF TypeOK, WellKept
<1>6. JobInv'
    BY <1>1, <1>2, ThreadSet DEF JobInv, OthersKept
<1>7. RunInv'
    <2>1. \A u \in Threads : job'[u].kind = "run" => job'[u] = job[u]
        BY <1>2 DEF OthersKept, NoJob
    <2>2. ASSUME NEW u \in Threads, job[u].kind = "run"
          PROVE  table'[Of(u)] = table[Of(u)]
        <3>1. Of(u) \in Sessions /\ table[Of(u)].pending # NoRun
            BY <2>2, OneRun
        <3> QED BY <3>1 DEF OnlyAt
    <2> QED BY <2>1, <2>2 DEF RunInv, Of
<1>8. new.snapshot # NoSnapshot =>
        new.snapshot.label.session = s /\ new.snapshot.state.point.session = s
    BY <1>1, HeldSlot
<1>9. /\ pc'[t] # "install" /\ pc'[t] # "execute" /\ pc'[t] # "commit"
      /\ job'[t] = job[t] \/ pc'[t] = "idle"
    BY <1>2
<1> HIDE DEF k, s
<1> QED BY <1>1, <1>2, <1>4, <1>5, <1>6, <1>7, <1>8, <1>9, SlotStep DEF k, s

\* What a RESTORE handler finds in the slot it holds.
LEMMA RestoreHolder ==
    ASSUME AllNodeInv, NEW t \in Workers, pc[t] \in {"held", "restored", "refused"},
           job[t].kind = "restore"
    PROVE  LET k == at[t]  s == Of(t)  x == job[t].frame IN
           /\ t \in Threads /\ pc[t] \in Holders
           /\ k \in SlotIds /\ slots[k] \in NodeSlots /\ slots[k].used /\ slots[k].id = s
           /\ slots[k].engine.point.session = s
           /\ x \in TransferFrames /\ x \in Transfers /\ x.session = s /\ s \in Sessions
           /\ job[t].offset \in 0..(Chunks - 1)
           /\ IF IsActive(table[s])
              THEN /\ slots[k].restore \in TransferFrames \cup {NoTransfer}
                   /\ table[s].pending_restore = slots[k].restore
              ELSE slots[k].restore = NoTransfer
           /\ slots[k].restore # NoTransfer => slots[k].restore.session = s
           /\ IsActive(table[s]) /\ ~fault /\ pc[t] # "restored" =>
                Stands(slots[k].engine, [session |-> s, sequence |-> table[s].next_sequence,
                                         position |-> table[s].next_position])
<1> DEFINE k == at[t]
           s == Of(t)
<1>1. t \in Threads /\ pc[t] \in Holders
    BY ThreadSet DEF Holders
<1>2. k \in SlotIds /\ s \in Sessions
    BY <1>1, HolderOf DEF AllNodeInv
<1>3. /\ slots[k] \in NodeSlots /\ slots[k].used /\ slots[k].id = s
      /\ slots[k].engine.point.session = s
      /\ IF IsActive(table[s])
         THEN /\ slots[k].restore \in TransferFrames \cup {NoTransfer}
              /\ table[s].pending_restore = slots[k].restore
         ELSE slots[k].restore = NoTransfer
      /\ IsActive(table[s]) /\ ~fault /\ pc[t] \notin {"commit", "restored"} =>
           Stands(slots[k].engine, [session |-> s, sequence |-> table[s].next_sequence,
                                    position |-> table[s].next_position])
    BY <1>1, HeldSlot
<1>4. /\ job[t].frame \in TransferFrames /\ job[t].frame \in Transfers
      /\ job[t].offset \in 0..(Chunks - 1) /\ job[t].frame.session = s
    BY <1>1, BusyThread, JobFields DEF AllNodeInv, Of
<1>5. slots[k].restore # NoTransfer => slots[k].restore.session = s
    BY <1>2, <1>3, OneHolder DEF AllNodeInv
<1> HIDE DEF k, s
<1> QED BY <1>1, <1>2, <1>3, <1>4, <1>5 DEF k, s

LEMMA RestoreIgnoredStep ==
    ASSUME AllNodeInv, NEW t \in Workers, RestoreIgnored(t)
    PROVE  AllNodeInv'
BY AnswerStep DEF RestoreIgnored, Restores

\* BEGIN: the reservation and the slot's upload appear together, or neither.
LEMMA RestoreBeginStep ==
    ASSUME AllNodeInv, NEW t \in Workers, RestoreBegin(t)
    PROVE  AllNodeInv'
<1> DEFINE k == at[t]
           s == Of(t)
           x == job[t].frame
           begun == TableRestoreBegin(table, x, Now)
           status == RestoreStatus(table, x, Now)
<1>1. /\ pc[t] = "held" /\ job[t].kind = "restore" /\ pc \in [Threads -> Labels]
      /\ ~SameUpload(slots[k].restore, x)
      /\ UNCHANGED <<quiet, sessions_lock, active, fault, at, spent>>
    BY DEF RestoreBegin, Restores, AllNodeInv, TypeOK
<1>2. /\ t \in Threads /\ k \in SlotIds /\ slots[k] \in NodeSlots /\ slots[k].used
      /\ slots[k].id = s /\ slots[k].engine.point.session = s
      /\ x \in TransferFrames /\ x \in Transfers /\ x.session = s /\ s \in Sessions
      /\ IF IsActive(table[s])
         THEN /\ slots[k].restore \in TransferFrames \cup {NoTransfer}
              /\ table[s].pending_restore = slots[k].restore
         ELSE slots[k].restore = NoTransfer
      /\ IsActive(table[s]) /\ ~fault =>
           Stands(slots[k].engine, [session |-> s, sequence |-> table[s].next_sequence,
                                    position |-> table[s].next_position])
    BY <1>1, RestoreHolder
<1>3. Now \in Nat /\ WellKept(table)
    BY NodeConstants DEF AllNodeInv
<1>4. /\ WellKept(begun) /\ OnlyAt(s, table, begun)
      /\ status = "OK" =>
           /\ IsActive(table[s]) /\ IsActive(begun[s])
           /\ table[s].pending = NoRun /\ table[s].pending_restore = NoTransfer
           /\ begun[s].pending = NoRun /\ begun[s].pending_restore = x
           /\ begun[s].next_sequence = table[s].next_sequence
           /\ begun[s].next_position = table[s].next_position
      /\ status # "OK" => begun = table
    <2> HIDE DEF x
    <2> QED BY <1>2, <1>3, RestoreBeginCall
<1>5. CASE /\ status = "OK" /\ table' = begun
           /\ slots' = [slots EXCEPT ![k] = [@ EXCEPT !.restore = x, !.received = 0]]
           /\ UNCHANGED <<slot_lock, pc, job>>
    <2> DEFINE new == [slots[k] EXCEPT !.restore = x, !.received = 0]
    <2>1. slots' = [slots EXCEPT ![k] = new]
        BY <1>5
    <2>2. /\ new \in NodeSlots /\ new.used /\ new.id = s /\ new.engine = slots[k].engine
          /\ new.snapshot = slots[k].snapshot /\ new.restore = x
        <3>1. 0 \in 0..Chunks
            BY NodeConstants
        <3> HIDE DEF x, k
        <3> QED BY <1>2, <3>1 DEF NodeSlots
    <2> HIDE DEF new, k, begun, status, x, s
    <2>3. pc' = [pc EXCEPT ![t] = "held"] /\ pc'[t] = "held"
        BY <1>1, <1>2, <1>5
    <2>4. slots' = [slots EXCEPT ![at[t]] = new] /\ new.snapshot = slots[at[t]].snapshot
        BY <2>1, <2>2 DEF k
    <2>5. new.engine.point.session = s /\ (IsActive(table'[s]) /\ ~fault =>
                Stands(new.engine, [session |-> s, sequence |-> table'[s].next_sequence,
                                    position |-> table'[s].next_position]))
        BY <1>2, <1>4, <1>5, <2>2
    <2> QED BY <1>1, <1>2, <1>4, <1>5, <2>2, <2>3, <2>4, <2>5, RestoreStep DEF s, x
<1>6. CASE /\ table' = IF status = "BUSY" THEN table
                       ELSE TableRestoreFinish(begun, x, FALSE, Now)
           /\ UNCHANGED slots /\ slot_lock' = Unlocked(k) /\ Finish(t)
    <2> DEFINE ended == TableRestoreFinish(begun, x, FALSE, Now)
    <2>1. /\ WellKept(ended) /\ OnlyAt(s, begun, ended)
          /\ RestoreFinishStatus(begun, x) # "OK" => ended = begun
          /\ RestoreFinishStatus(begun, x) = "OK" =>
               /\ IsActive(begun[s]) /\ IsActive(ended[s])
               /\ RestoreSame(begun[s].pending_restore, x)
               /\ ended[s].pending_restore = NoTransfer
               /\ ended[s].next_sequence = begun[s].next_sequence
               /\ ended[s].next_position = begun[s].next_position
        <3>1. \A y \in Transfers, b \in BOOLEAN :
                LET after == TableRestoreFinish(begun, y, b, Now) IN
                /\ WellKept(after) /\ OnlyAt(y.session, begun, after)
                /\ RestoreFinishStatus(begun, y) # "OK" => after = begun
                /\ RestoreFinishStatus(begun, y) = "OK" =>
                     /\ IsActive(begun[y.session]) /\ IsActive(after[y.session])
                     /\ RestoreSame(begun[y.session].pending_restore, y)
                     /\ after[y.session].pending_restore = NoTransfer
                     /\ ~b =>
                       /\ after[y.session].next_sequence = begun[y.session].next_sequence
                       /\ after[y.session].next_position = begun[y.session].next_position
            <4> HIDE DEF begun
            <4> QED BY <1>3, <1>4, RestoreFinishCall
        <3> HIDE DEF begun, x
        <3> QED BY <1>2, <3>1
    <2>2. /\ WellKept(table') /\ OnlyAt(s, table, table')
          /\ IsActive(table'[s]) <=> IsActive(table[s])
          /\ IsActive(table[s]) =>
               /\ table'[s].pending_restore = slots[k].restore
               /\ table'[s].next_sequence = table[s].next_sequence
               /\ table'[s].next_position = table[s].next_position
          /\ table'[s] = table[s] \/ table[s].pending = NoRun
        <3>1. CASE status = "OK"
            <4>1. begun[s].busy
                BY <1>2, <1>4, <3>1, ZeroPending, OneHolder
            <4>2. RestoreSame(x, x)
                BY <1>2, SameOwner, TransferFields DEF RestoreSame
            <4>3. RestoreFinishStatus(begun, x) = "OK"
                <5> HIDE DEF begun
                <5> QED BY <1>2, <1>4, <3>1, <4>1, <4>2 DEF RestoreFinishStatus
            <4>4. table' = ended
                BY <1>6, <3>1
            <4> HIDE DEF begun, ended, status, k
            <4> QED BY <1>2, <1>4, <2>1, <3>1, <4>3, <4>4 DEF OnlyAt
        <3>2. CASE status # "OK"
            <4>1. begun = table
                BY <1>4, <3>2
            <4>2. RestoreFinishStatus(table, x) # "OK"
                <5>1. RestoreFinishStatus(table, x) = "OK" =>
                         IsActive(table[s]) /\ RestoreSame(table[s].pending_restore, x)
                    BY <2>1, <4>1
                <5> QED BY <1>1, <1>2, <5>1 DEF RestoreSame, SameUpload
            <4>3. ended = table
                BY <2>1, <4>1, <4>2
            <4>4. table' = table
                BY <1>6, <4>3
            <4> QED BY <1>2, <1>3, <4>4 DEF OnlyAt
        <3> QED BY <3>1, <3>2
    <2> HIDE DEF ended, begun, status
    <2>3. slots' = [slots EXCEPT ![k] = slots[k]]
        BY <1>2, <1>6 DEF AllNodeInv, TypeOK
    <2>4. pc'[t] = "idle"
        BY <1>1, <1>2, <1>6 DEF Finish, Goto
    <2> HIDE DEF k, s, x
    <2>5. IsActive(table'[s]) /\ ~fault =>
                Stands(slots[k].engine, [session |-> s, sequence |-> table'[s].next_sequence,
                                         position |-> table'[s].next_position])
        BY <1>2, <2>2
    <2>6. IF IsActive(table[s])
          THEN /\ slots[k].restore \in TransferFrames \cup {NoTransfer}
               /\ table'[s].pending_restore = slots[k].restore
          ELSE slots[k].restore = NoTransfer
        BY <1>2, <2>2
    <2> QED BY <1>1, <1>2, <1>6, <2>2, <2>3, <2>4, <2>5, <2>6, RestoreStep DEF k, s, x
<1> QED BY <1>5, <1>6 DEF RestoreBegin

\* A chunk of the upload; the last one goes to the engine.
LEMMA RestoreChunkStep ==
    ASSUME AllNodeInv, NEW t \in Workers, RestoreChunk(t)
    PROVE  AllNodeInv'
<1> DEFINE k == at[t]
           s == Of(t)
           x == job[t].frame
           got == [slots[k] EXCEPT !.received = @ + 1, !.updated = Now]
<1>1. /\ pc[t] = "held" /\ job[t].kind = "restore" /\ pc \in [Threads -> Labels]
      /\ SameUpload(slots[k].restore, x) /\ job[t].offset = slots[k].received
      /\ UNCHANGED <<table, quiet, sessions_lock, active, fault, at, spent>>
    BY DEF RestoreChunk, Restores, ChunkFits, AllNodeInv, TypeOK
<1>2. /\ t \in Threads /\ k \in SlotIds /\ slots[k] \in NodeSlots /\ slots[k].used
      /\ slots[k].id = s /\ slots[k].engine.point.session = s
      /\ x \in TransferFrames /\ x \in Transfers /\ x.session = s /\ s \in Sessions
      /\ job[t].offset \in 0..(Chunks - 1)
      /\ IF IsActive(table[s])
         THEN /\ slots[k].restore \in TransferFrames \cup {NoTransfer}
              /\ table[s].pending_restore = slots[k].restore
         ELSE slots[k].restore = NoTransfer
      /\ IsActive(table[s]) /\ ~fault =>
           Stands(slots[k].engine, [session |-> s, sequence |-> table[s].next_sequence,
                                    position |-> table[s].next_position])
    BY <1>1, RestoreHolder
<1>3. WellKept(table') /\ OnlyAt(s, table, table') /\ table'[s] = table[s]
    BY <1>1 DEF OnlyAt, AllNodeInv
<1>4. /\ got \in NodeSlots /\ got.used /\ got.id = s /\ got.engine = slots[k].engine
      /\ got.snapshot = slots[k].snapshot /\ got.restore = slots[k].restore
    <2>1. slots[k].received + 1 \in 0..Chunks /\ Now \in Nat
        BY <1>1, <1>2, NodeConstants
    <2> HIDE DEF k
    <2> QED BY <1>2, <2>1 DEF NodeSlots
<1> HIDE DEF got
<1>5. CASE slots' = [slots EXCEPT ![k] = got] /\ slot_lock' = Unlocked(k) /\ Finish(t)
    <2>1. pc'[t] = "idle"
        BY <1>1, <1>2, <1>5 DEF Finish, Goto
    <2> HIDE DEF k, s, x
    <2> QED BY <1>1, <1>2, <1>3, <1>4, <1>5, <2>1, RestoreStep DEF k, s, x
<1>6. ASSUME NEW outcome \in Outcomes,
             slots' = [slots EXCEPT ![k] = [got EXCEPT !.engine = Restored(@, x, outcome)]],
             Goto(t, IF outcome = "restored" THEN "restored" ELSE "refused"),
             UNCHANGED <<slot_lock, job>>
      PROVE  AllNodeInv'
    <2> DEFINE engine == Restored(got.engine, x, outcome)
               new == [got EXCEPT !.engine = engine]
    <2>1. slots' = [slots EXCEPT ![k] = new]
        BY <1>6
    <2>2. /\ engine \in Engines /\ engine.point.session = s
          /\ outcome = "restored" => Stands(engine, Point(x))
          /\ outcome # "restored" => engine.astray \/ engine = slots[k].engine
        <3>1. Point(x) \in Points /\ Point(x).session = s
            BY <1>2, TransferFields DEF Point, Points
        <3>2. slots[k].engine \in Engines
            BY <1>2 DEF NodeSlots
        <3> HIDE DEF k, x, s
        <3> QED BY <1>2, <1>4, <1>6, <3>1, <3>2 DEF Restored, Outcomes, Engines, Stands
    <2> HIDE DEF engine
    <2>3. /\ new \in NodeSlots /\ new.used /\ new.id = s /\ new.engine = engine
          /\ new.snapshot = slots[k].snapshot /\ new.restore = slots[k].restore
        <3> HIDE DEF k, x, s
        <3> QED BY <1>4, <2>2 DEF NodeSlots
    <2> DEFINE restored == outcome = "restored"
    <2>4. \E l \in {"held", "restored", "refused"} :
            pc' = [pc EXCEPT ![t] = l] /\ (l = "restored" <=> restored)
            /\ l \in {"restored", "refused"}
        <3>1. pc' = [pc EXCEPT ![t] = IF restored THEN "restored" ELSE "refused"]
            BY <1>6 DEF Goto
        <3> QED BY <3>1
    <2>5. pc'[t] \in {"restored", "refused"} /\ (pc'[t] = "restored" <=> restored)
        BY <1>1, <1>2, <2>4
    <2> HIDE DEF new, k, s, x
    <2>6. pc'[t] = "restored" => Stands(new.engine, Point(x))
        BY <2>2, <2>3, <2>5
    <2>7. IsActive(table'[s]) /\ ~fault /\ pc'[t] # "restored" =>
            Stands(new.engine, [session |-> s, sequence |-> table'[s].next_sequence,
                                position |-> table'[s].next_position])
        <3>1. engine.astray \/ engine = slots[k].engine
              => new.engine.astray \/ new.engine = slots[k].engine
            BY <2>3
        <3> QED BY <1>2, <1>3, <2>2, <2>5, <3>1 DEF Stands
    <2>8. IF IsActive(table[s])
          THEN /\ new.restore \in TransferFrames \cup {NoTransfer}
               /\ table'[s].pending_restore = new.restore
          ELSE new.restore = NoTransfer
        BY <1>2, <1>3, <2>3
    <2>9. SameUpload(new.restore, x)
        BY <1>1, <2>3
    <2>10. new.engine.point.session = s
        BY <2>2, <2>3
    <2> QED BY <1>1, <1>2, <1>3, <1>6, <2>1, <2>3, <2>4, <2>5, <2>6, <2>7, <2>8, <2>9,
               <2>10, RestoreStep DEF k, s, x
<1>7. IF job[t].offset < Chunks - 1
      THEN slots' = [slots EXCEPT ![k] = got] /\ slot_lock' = Unlocked(k) /\ Finish(t)
      ELSE \E outcome \in Outcomes :
             /\ slots' = [slots EXCEPT ![k] = [got EXCEPT !.engine = Restored(@, x, outcome)]]
             /\ Goto(t, IF outcome = "restored" THEN "restored" ELSE "refused")
             /\ UNCHANGED <<slot_lock, job>>
    BY DEF RestoreChunk, Outcomes, got, k, x
<1> QED BY <1>5, <1>6, <1>7

\* The end of an upload: the table knows the reservation, whoever finishes it.
LEMMA RestoreEndStep ==
    ASSUME AllNodeInv, NEW t \in Workers, RestoreEnd(t)
    PROVE  AllNodeInv'
<1> DEFINE k == at[t]
           s == Of(t)
           x == job[t].frame
           kept == Kept(t) /\ RestoreFinishStatus(table, x) = "OK"
           new == [slots[k] EXCEPT !.restore = NoTransfer, !.received = 0,
                                   !.restored = IF kept THEN x ELSE @,
                                   !.cached = IF kept THEN ZeroId ELSE @]
<1>1. /\ pc[t] \in {"restored", "refused"} /\ t \in Threads
      /\ table' = TableRestoreFinish(table, x, Kept(t), Now)
      /\ slots' = [slots EXCEPT ![k] = new]
      /\ slot_lock' = Unlocked(k) /\ Finish(t)
      /\ UNCHANGED <<quiet, sessions_lock, active, fault, at, spent>>
    BY ThreadSet DEF RestoreEnd
<1>2. job[t].kind = "restore" /\ SameUpload(slots[k].restore, x)
      /\ (pc[t] = "restored" => Stands(slots[k].engine, Point(x)))
    BY <1>1 DEF AllNodeInv, JobInv, PointInv
<1>3. /\ k \in SlotIds /\ slots[k] \in NodeSlots /\ slots[k].used
      /\ slots[k].id = s /\ slots[k].engine.point.session = s
      /\ x \in TransferFrames /\ x \in Transfers /\ x.session = s /\ s \in Sessions
      /\ IF IsActive(table[s])
         THEN /\ slots[k].restore \in TransferFrames \cup {NoTransfer}
              /\ table[s].pending_restore = slots[k].restore
         ELSE slots[k].restore = NoTransfer
      /\ slots[k].restore # NoTransfer => slots[k].restore.session = s
      /\ IsActive(table[s]) /\ ~fault /\ pc[t] # "restored" =>
           Stands(slots[k].engine, [session |-> s, sequence |-> table[s].next_sequence,
                                    position |-> table[s].next_position])
    BY <1>1, <1>2, RestoreHolder
<1>4. slots[k].restore # NoTransfer /\ RestoreSame(slots[k].restore, x)
    BY <1>2, <1>3, SameTransfer
<1>5. IsActive(table[s]) /\ table[s].pending_restore = slots[k].restore
    BY <1>3, <1>4
<1>6. Now \in Nat /\ WellKept(table) /\ Kept(t) \in BOOLEAN
      /\ (Kept(t) <=> pc[t] = "restored")
    BY NodeConstants DEF AllNodeInv, Kept
<1>7. RestoreFinishStatus(table, x) = "OK"
    <2>1. table[s].busy
        BY <1>3, <1>4, <1>5, <1>6, OneHolder
    <2> QED BY <1>3, <1>4, <1>5, <2>1 DEF RestoreFinishStatus
<1>8. /\ WellKept(table') /\ OnlyAt(s, table, table') /\ IsActive(table'[s])
      /\ table[s].pending = NoRun /\ table'[s].pending_restore = NoTransfer
      /\ Kept(t) => /\ table'[s].next_sequence = x.sequence
                    /\ table'[s].next_position = x.position
      /\ ~Kept(t) => /\ table'[s].next_sequence = table[s].next_sequence
                     /\ table'[s].next_position = table[s].next_position
    <2>1. \A y \in Transfers, b \in BOOLEAN :
            LET after == TableRestoreFinish(table, y, b, Now)  r == y.session IN
            RestoreFinishStatus(table, y) = "OK" =>
                /\ WellKept(after) /\ OnlyAt(r, table, after) /\ IsActive(after[r])
                /\ table[r].pending = NoRun /\ after[r].pending_restore = NoTransfer
                /\ b => /\ after[r].next_sequence = y.sequence
                        /\ after[r].next_position = y.position
                /\ ~b => /\ after[r].next_sequence = table[r].next_sequence
                         /\ after[r].next_position = table[r].next_position
        BY <1>6, RestoreFinishCall
    <2> HIDE DEF x
    <2> QED BY <1>1, <1>3, <1>6, <1>7, <2>1
<1>9. /\ new \in NodeSlots /\ new.used /\ new.id = s /\ new.engine = slots[k].engine
      /\ new.snapshot = slots[k].snapshot /\ new.restore = NoTransfer
    <2>1. 0 \in 0..Chunks
        BY NodeConstants
    <2> HIDE DEF k, x, kept
    <2>2. CASE kept
        BY <1>3, <2>1, <2>2 DEF NodeSlots
    <2>3. CASE ~kept
        BY <1>3, <2>1, <2>3 DEF NodeSlots
    <2> QED BY <2>2, <2>3
<1>10. pc'[t] = "idle"
    BY <1>1 DEF Finish, Goto, AllNodeInv, TypeOK
<1> HIDE DEF new, kept
<1>11. ~fault => Stands(new.engine, [session |-> s, sequence |-> table'[s].next_sequence,
                                     position |-> table'[s].next_position])
    <2>1. CASE Kept(t)
        BY <1>2, <1>3, <1>6, <1>8, <1>9, <2>1 DEF Point
    <2>2. CASE ~Kept(t)
        BY <1>3, <1>5, <1>6, <1>8, <1>9, <2>2
    <2> QED BY <2>1, <2>2
<1>12. new.engine.point.session = s
    BY <1>3, <1>9
<1> HIDE DEF k, s, x
<1> QED BY <1>1, <1>2, <1>3, <1>5, <1>8, <1>9, <1>10, <1>11, <1>12, RestoreStep DEF k, s, x

-----------------------------------------------------------------------------
(* Time, residency and the sweep: no thread moves. *)

\* No thread moves and no session comes or goes: engines, snapshots and points
\* stay, and what happens to the uploads is shown by the step.
LEMMA StillStep ==
    ASSUME AllNodeInv, TypeOK', UploadInv',
           UNCHANGED <<slot_lock, sessions_lock, active, fault, pc, job, at, spent>>,
           WellKept(table'),
           \A i \in SlotIds :
               /\ slots'[i].used = slots[i].used /\ slots'[i].id = slots[i].id
               /\ slots'[i].engine = slots[i].engine
               /\ slots'[i].snapshot = slots[i].snapshot
               /\ ~slots[i].used => slots'[i] = slots[i],
           \A s \in Sessions :
               /\ IsActive(table'[s]) <=> IsActive(table[s])
               /\ IsActive(table[s]) =>
                    /\ table'[s].pending = table[s].pending
                    /\ table'[s].next_sequence = table[s].next_sequence
                    /\ table'[s].next_position = table[s].next_position,
           \A s \in Sessions : Installing(s) /\ IsActive(table[s]) =>
               table'[s].pending_restore = table[s].pending_restore,
           \A t \in Threads : pc[t] \in {"restored", "refused"} =>
               slots'[at[t]].restore = slots[at[t]].restore
    PROVE  AllNodeInv'
<1> USE DEF AllNodeInv
<1>1. \A s \in Sessions : /\ Installing(s)' <=> Installing(s)
                          /\ Reaping(s)' <=> Reaping(s)
                          /\ InFlight(s)' <=> InFlight(s)
    BY DEF Installing, Reaping, InFlight
<1>2. \A t \in Threads : at[t] \in SlotIds
    BY DEF TypeOK
<1>3. JobInv'
    BY DEF JobInv
<1>4. LockInv'
    <2>1. ASSUME NEW t \in Threads
          PROVE  (/\ pc[t] \in {"install", "close"} <=> sessions_lock = t
                  /\ pc[t] \in Holders => slot_lock[at[t]] = t /\ StillIts(at[t], Of(t)))'
        BY <1>2 DEF LockInv, StillIts, Of
    <2>2. (\A i \in SlotIds, t \in Threads :
             slot_lock[i] = t => at[t] = i /\ pc[t] \in Holders \cup {"abort"})'
        BY DEF LockInv
    <2>3. (pc[Reaper] = "wait" => StillIts(at[Reaper], Of(Reaper)))'
        BY <1>2, ThreadSet DEF LockInv, StillIts, Of
    <2> QED BY <2>1, <2>2, <2>3 DEF LockInv
<1>5. RunInv'
    <2>1. \A t \in Threads : job[t].kind = "run" => Of(t) \in Sessions
        BY OneRun
    <2> QED BY <2>1 DEF RunInv, Of
<1>6. HoldInv'
    <2>1. ASSUME NEW i \in SlotIds
          PROVE  (IF slots[i].used
                  THEN /\ slots[i].id \in Sessions
                       /\ IsActive(table[slots[i].id]) \/ Reaping(slots[i].id)
                  ELSE slots[i] = EmptySlot)'
        <3>1. CASE slots[i].used
            <4>1. slots'[i].used /\ slots'[i].id = slots[i].id /\ slots[i].id \in Sessions
                BY <3>1 DEF HoldInv
            <4>2. IsActive(table[slots[i].id]) => IsActive(table[slots[i].id])'
                BY <4>1
            <4>3. Reaping(slots[i].id) => Reaping(slots[i].id)'
                BY <4>1 DEF Reaping
            <4> QED BY <3>1, <4>1, <4>2, <4>3 DEF HoldInv
        <3>2. CASE ~slots[i].used
            BY <3>2 DEF HoldInv
        <3> QED BY <3>1, <3>2
    <2>2. (\A i, j \in SlotIds :
             slots[i].used /\ slots[j].used /\ slots[i].id = slots[j].id => i = j)'
        BY DEF HoldInv
    <2>3. \A i \in SlotIds, s \in Sessions : StillIts(i, s)' <=> StillIts(i, s)
        BY DEF StillIts
    <2>4. ASSUME NEW s \in Sessions
          PROVE  (/\ IsActive(table[s]) =>
                       Installing(s) \/ \E i \in SlotIds : StillIts(i, s)
                  /\ IsActive(table[s]) => s \notin spent
                  /\ Reaping(s) => s \in spent)'
        BY <1>1, <2>3 DEF HoldInv
    <2> QED BY <2>1, <2>2, <2>4 DEF HoldInv
<1>7. InstallInv'
    <2> SUFFICES ASSUME NEW t \in Threads, pc[t] = "install"
                 PROVE  InstallInv!(t)'
        BY DEF InstallInv
    <2>1. t \in Workers /\ Of(t) \in Sessions /\ at[t] \in SlotIds
        BY BusyThread, ThreadSet DEF JobInv
    <2>2. Installing(Of(t))
        BY <2>1 DEF Installing, Of
    <2>3. Of(t)' = Of(t) /\ (Reaping(Of(t))' <=> Reaping(Of(t)))
        BY DEF Of, Reaping
    <2>4. \A i \in SlotIds : StillIts(i, Of(t))' <=> StillIts(i, Of(t))
        BY DEF StillIts, Of
    <2>5. slots'[at[t]].used = slots[at[t]].used /\ at' = at
        BY <2>1
    <2> QED BY <2>1, <2>2, <2>3, <2>4, <2>5 DEF InstallInv
<1>8. CountInv'
    <2>1. {i \in SlotIds : slots'[i].used} = {i \in SlotIds : slots[i].used}
        OBVIOUS
    <2> QED BY <2>1 DEF CountInv
<1>9. PointInv'
    BY <1>2 DEF PointInv
<1>10. EngineMatchesTable'
    <2> SUFFICES ASSUME NEW i \in SlotIds, slots'[i].used, IsActive(table'[slots'[i].id]),
                        ~fault', ~InFlight(slots[i].id)'
                 PROVE  Stands(slots'[i].engine,
                          [session |-> slots'[i].id,
                           sequence |-> table'[slots'[i].id].next_sequence,
                           position |-> table'[slots'[i].id].next_position])
        BY DEF EngineMatchesTable
    <2>1. slots[i].used /\ slots'[i].id = slots[i].id /\ slots[i].id \in Sessions
        BY DEF HoldInv
    <2>2. ~InFlight(slots[i].id)
        BY <2>1 DEF InFlight
    <2> QED BY <2>1, <2>2 DEF EngineMatchesTable
<1>11. SnapshotIsOwn'
    BY DEF SnapshotIsOwn
<1>12. WellKept(table)'
    OBVIOUS
<1> QED BY <1>3, <1>4, <1>5, <1>6, <1>7, <1>8, <1>9, <1>10, <1>11, <1>12

\* A deadline that comes nearer.
LEMMA AgedInv ==
    ASSUME NEW s \in Sessions, NEW slot, SlotInv(s, slot)
    PROVE  LET new == [slot EXCEPT !.expires_at = Aged(@)] IN
           /\ SlotInv(s, new) /\ IsActive(new) /\ new.pending = slot.pending
           /\ new.pending_restore = slot.pending_restore
           /\ new.next_sequence = slot.next_sequence
           /\ new.next_position = slot.next_position
<1> DEFINE new == [slot EXCEPT !.expires_at = Aged(@)]
<1>1. slot \in Slots
    BY DEF SlotInv
<1>2. Aged(slot.expires_at) \in Nat
    BY <1>1 DEF Aged, Slots
<1>3. /\ new \in Slots /\ new.pending = slot.pending /\ new.busy = slot.busy
      /\ new.pending_restore = slot.pending_restore
      /\ new.next_sequence = slot.next_sequence
      /\ new.next_position = slot.next_position
      /\ new.owner = slot.owner /\ new.shape = slot.shape
      /\ new.needs_restore = slot.needs_restore
    BY <1>1, <1>2 DEF Slots
<1> HIDE DEF new
<1>4. SlotSound(s, new)
    BY <1>3 DEF SlotInv, SlotSound, HeldByRun, HeldByRestore, InOrder, RestorePointOk,
                RestoreRewinds
<1> QED BY <1>3, <1>4, SlotFields DEF SlotInv, new

LEMMA ElapseStep ==
    ASSUME AllNodeInv, Elapse
    PROVE  AllNodeInv'
<1> USE DEF AllNodeInv
<1>1. /\ table' = [s \in Sessions |->
                     IF IsActive(table[s]) THEN [table[s] EXCEPT !.expires_at = Aged(@)]
                     ELSE table[s]]
      /\ slots' = [i \in SlotIds |-> [slots[i] EXCEPT !.updated = Aged(@)]]
      /\ UNCHANGED <<quiet, slot_lock, sessions_lock, active, fault, pc, job, at, spent>>
    BY DEF Elapse
<1>2. ASSUME NEW s \in Sessions
      PROVE  /\ table'[s] = NoSlot \/ SlotInv(s, table'[s])
             /\ IsActive(table'[s]) <=> IsActive(table[s])
             /\ IsActive(table[s]) => Alike(table[s], table'[s])
             /\ ~IsActive(table[s]) => table'[s] = table[s]
    <2>1. CASE IsActive(table[s])
        <3>1. SlotInv(s, table[s])
            BY <2>1, KeptEntry
        <3>2. table'[s] = [table[s] EXCEPT !.expires_at = Aged(@)]
            BY <1>1, <2>1
        <3> QED BY <2>1, <3>1, <3>2, AgedInv DEF Alike
    <2>2. CASE ~IsActive(table[s])
        BY <1>1, <2>2 DEF WellKept
    <2> QED BY <2>1, <2>2
<1>3. WellKept(table')
    <2>1. \A s \in Sessions : table'[s] \in Slots \cup {NoSlot}
        BY <1>2 DEF SlotInv
    <2>2. table' = [s \in Sessions |-> table'[s]]
        BY <1>1
    <2> QED BY <1>2, <2>1, <2>2 DEF WellKept, Tables
<1>4. ASSUME NEW i \in SlotIds
      PROVE  /\ slots'[i] \in NodeSlots
             /\ slots'[i].used = slots[i].used /\ slots'[i].id = slots[i].id
             /\ slots'[i].engine = slots[i].engine
             /\ slots'[i].snapshot = slots[i].snapshot
             /\ slots'[i].restore = slots[i].restore
             /\ ~slots[i].used => slots'[i] = slots[i]
    <2>1. slots[i] \in NodeSlots /\ slots'[i] = [slots[i] EXCEPT !.updated = Aged(@)]
        BY <1>1 DEF TypeOK
    <2>2. Aged(slots[i].updated) \in Nat
        BY <2>1 DEF Aged, NodeSlots
    <2>3. ~slots[i].used => slots'[i] = slots[i]
        BY <2>1 DEF HoldInv, EmptySlot, Aged
    <2> QED BY <2>1, <2>2, <2>3 DEF NodeSlots
<1>5. TypeOK'
    <2>1. slots' \in [SlotIds -> NodeSlots]
        BY <1>1, <1>4
    <2> QED BY <1>1, <1>3, <2>1 DEF TypeOK, WellKept
<1>6. UploadInv'
    <2>1. \A i \in SlotIds : slots[i].restore # NoTransfer =>
                                slots[i].used /\ slots[i].id \in Sessions
        BY DEF HoldInv, EmptySlot
    <2>2. \A s \in Sessions : IsActive(table[s]) =>
            table'[s].pending_restore = table[s].pending_restore
        BY <1>2 DEF Alike
    <2>3. ASSUME NEW i \in SlotIds, slots'[i].restore # NoTransfer
          PROVE  (/\ slots[i].restore \in TransferFrames
                  /\ IsActive(table[slots[i].id])
                  /\ table[slots[i].id].pending_restore = slots[i].restore)'
        BY <1>2, <1>4, <2>1, <2>2, <2>3 DEF UploadInv
    <2>4. ASSUME NEW s \in Sessions, IsActive(table'[s]), table'[s].pending_restore # NoTransfer
          PROVE  (\E i \in SlotIds : StillIts(i, s)
                                     /\ slots[i].restore = table[s].pending_restore)'
        <3>1. PICK i \in SlotIds : StillIts(i, s)
                                   /\ slots[i].restore = table[s].pending_restore
            BY <1>2, <2>2, <2>4 DEF UploadInv
        <3> QED BY <1>2, <1>4, <2>2, <2>4, <3>1 DEF StillIts
    <2> QED BY <2>3, <2>4 DEF UploadInv
<1>7. \A t \in Threads : at[t] \in SlotIds
    BY DEF TypeOK
<1>8. \A s \in Sessions :
        /\ IsActive(table'[s]) <=> IsActive(table[s])
        /\ IsActive(table[s]) =>
             /\ table'[s].pending = table[s].pending
             /\ table'[s].next_sequence = table[s].next_sequence
             /\ table'[s].next_position = table[s].next_position
             /\ table'[s].pending_restore = table[s].pending_restore
    BY <1>2 DEF Alike
<1> QED BY <1>1, <1>3, <1>4, <1>5, <1>6, <1>7, <1>8, StillStep

LEMMA ResidencyLostStep ==
    ASSUME AllNodeInv, ResidencyLost
    PROVE  AllNodeInv'
<1> USE DEF AllNodeInv
<1>1. /\ fault'
      /\ UNCHANGED <<table, quiet, slots, slot_lock, sessions_lock, active, pc, job, at, spent>>
    BY DEF ResidencyLost
<1>2. TypeOK' /\ WellKept(table)' /\ JobInv' /\ LockInv' /\ RunInv' /\ CountInv'
    <2>1. fault' \in BOOLEAN
        BY DEF ResidencyLost
    <2> QED BY <1>1, <2>1 DEF TypeOK, JobInv, LockInv, RunInv, CountInv, Of, StillIts
<1>3. HoldInv' /\ InstallInv'
    BY <1>1 DEF HoldInv, InstallInv, Of, StillIts, Reaping, Installing
<1>4. UploadInv' /\ PointInv' /\ SnapshotIsOwn'
    BY <1>1 DEF UploadInv, PointInv, SnapshotIsOwn, StillIts
<1>5. EngineMatchesTable'
    BY <1>1 DEF EngineMatchesTable
<1> QED BY <1>2, <1>3, <1>4, <1>5

\* The sweep gives back the reservations of the uploads it drops, and no other.
LEMMA SweepStep ==
    ASSUME AllNodeInv, Sweep
    PROVE  AllNodeInv'
<1> USE DEF AllNodeInv
<1> DEFINE swept == {i \in SlotIds : slots[i].used /\ slot_lock[i] = Nobody /\ Stale(slots[i])}
           of(s) == CHOOSE i \in swept : slots[i].id = s
<1>1. /\ table' = [s \in Sessions |->
                     IF \E i \in swept : slots[i].id = s
                     THEN TableRestoreFinish(table, slots[of(s)].restore, FALSE, Now)[s]
                     ELSE table[s]]
      /\ slots' = [i \in SlotIds |->
                     IF i \in swept
                     THEN [slots[i] EXCEPT !.restore = NoTransfer, !.received = 0]
                     ELSE slots[i]]
      /\ UNCHANGED <<quiet, slot_lock, sessions_lock, active, fault, pc, job, at, spent>>
    BY DEF Sweep
<1>2. Now \in Nat /\ 0 \in 0..Chunks /\ TransferFrames \subseteq Transfers
    BY NodeConstants
<1>3. ASSUME NEW i \in swept
      PROVE  LET s == slots[i].id  x == slots[i].restore
                 new == TableRestoreFinish(table, x, FALSE, Now)
             IN  /\ s \in Sessions /\ of(s) = i /\ IsActive(table[s])
                 /\ WellKept(new) /\ IsActive(new[s])
                 /\ table[s].pending = NoRun /\ new[s].pending = NoRun
                 /\ new[s].pending_restore = NoTransfer
                 /\ new[s].next_sequence = table[s].next_sequence
                 /\ new[s].next_position = table[s].next_position
    <2> DEFINE s == slots[i].id
               x == slots[i].restore
    <2>1. /\ i \in SlotIds /\ slots[i].used /\ s \in Sessions
          /\ x \in TransferFrames /\ x \in Transfers /\ IsActive(table[s])
          /\ table[s].pending_restore = x /\ x # NoTransfer
        BY <1>2 DEF Stale, HoldInv, UploadInv
    <2>2. of(s) = i
        BY <2>1 DEF HoldInv
    <2>3. x.session = s /\ table[s].busy
        BY <2>1, OneHolder
    <2>4. RestoreSame(x, x)
        BY <2>1, TransferFields, SameOwner DEF RestoreSame
    <2> HIDE DEF s, x, of, swept
    <2>5. RestoreFinishStatus(table, x) = "OK"
        BY <2>1, <2>3, <2>4 DEF RestoreFinishStatus
    <2>6. \A y \in Transfers, b \in BOOLEAN :
            LET after == TableRestoreFinish(table, y, b, Now)  r == y.session IN
            RestoreFinishStatus(table, y) = "OK" =>
                /\ WellKept(after) /\ IsActive(after[r])
                /\ table[r].pending = NoRun /\ after[r].pending = NoRun
                /\ after[r].pending_restore = NoTransfer
                /\ ~b => /\ after[r].next_sequence = table[r].next_sequence
                         /\ after[r].next_position = table[r].next_position
        BY <1>2, RestoreFinishCall
    <2>7. LET after == TableRestoreFinish(table, x, FALSE, Now) IN
            /\ WellKept(after) /\ IsActive(after[s])
            /\ table[s].pending = NoRun /\ after[s].pending = NoRun
            /\ after[s].pending_restore = NoTransfer
            /\ after[s].next_sequence = table[s].next_sequence
            /\ after[s].next_position = table[s].next_position
        BY <2>1, <2>3, <2>5, <2>6
    <2> QED BY <2>1, <2>2, <2>7 DEF s, x
<1>4. ASSUME NEW s \in Sessions
      PROVE  /\ table'[s] = NoSlot \/ SlotInv(s, table'[s])
             /\ IsActive(table'[s]) <=> IsActive(table[s])
             /\ IsActive(table[s]) =>
                  /\ table'[s].pending = table[s].pending
                  /\ table'[s].next_sequence = table[s].next_sequence
                  /\ table'[s].next_position = table[s].next_position
             /\ IF \E i \in swept : slots[i].id = s
                THEN table'[s].pending_restore = NoTransfer
                ELSE table'[s] = table[s]
    <2>1. CASE \E i \in swept : slots[i].id = s
        <3> HIDE DEF swept, of
        <3>1. PICK i \in swept : slots[i].id = s
            BY <2>1
        <3>5. of(s) = i
            BY <1>3, <3>1
        <3>2. table'[s] = TableRestoreFinish(table, slots[i].restore, FALSE, Now)[s]
            BY <1>1, <2>1, <3>5
        <3>3. /\ IsActive(table[s]) /\ IsActive(table'[s])
              /\ table[s].pending = NoRun /\ table'[s].pending = NoRun
              /\ table'[s].pending_restore = NoTransfer
              /\ table'[s].next_sequence = table[s].next_sequence
              /\ table'[s].next_position = table[s].next_position
              /\ WellKept(TableRestoreFinish(table, slots[i].restore, FALSE, Now))
            BY <1>3, <3>1, <3>2
        <3>4. SlotInv(s, table'[s])
            BY <3>2, <3>3, KeptEntry
        <3> QED BY <2>1, <3>3, <3>4
    <2>2. CASE ~\E i \in swept : slots[i].id = s
        <3>1. table'[s] = table[s]
            BY <1>1, <2>2
        <3> HIDE DEF swept
        <3> QED BY <2>2, <3>1 DEF WellKept
    <2> QED BY <2>1, <2>2
<1>5. WellKept(table')
    <2>1. \A s \in Sessions : table'[s] \in Slots \cup {NoSlot}
        BY <1>4 DEF SlotInv
    <2>2. table' = [s \in Sessions |-> table'[s]]
        BY <1>1
    <2> QED BY <1>4, <2>1, <2>2 DEF WellKept, Tables
<1>6. ASSUME NEW i \in SlotIds
      PROVE  /\ slots'[i] \in NodeSlots
             /\ slots'[i].used = slots[i].used /\ slots'[i].id = slots[i].id
             /\ slots'[i].engine = slots[i].engine
             /\ slots'[i].snapshot = slots[i].snapshot
             /\ IF i \in swept THEN slots'[i].restore = NoTransfer ELSE slots'[i] = slots[i]
             /\ i \in swept => slots[i].used
    <2>1. slots[i] \in NodeSlots
        BY DEF TypeOK
    <2>2. CASE i \in swept
        <3>1. slots'[i] = [slots[i] EXCEPT !.restore = NoTransfer, !.received = 0]
              /\ slots[i].used
            BY <1>1, <2>2
        <3> HIDE DEF swept
        <3>2. /\ slots'[i].used = slots[i].used /\ slots'[i].id = slots[i].id
              /\ slots'[i].engine = slots[i].engine
              /\ slots'[i].snapshot = slots[i].snapshot
              /\ slots'[i].restore = NoTransfer
            BY <2>1, <3>1 DEF NodeSlots
        <3>3. slots'[i] \in NodeSlots
            BY <1>2, <2>1, <3>1 DEF NodeSlots
        <3> QED BY <2>2, <3>1, <3>2, <3>3
    <2>3. CASE i \notin swept
        <3>1. slots'[i] = slots[i]
            BY <1>1, <2>3
        <3> QED BY <2>1, <2>3, <3>1
    <2> QED BY <2>2, <2>3
<1>7. TypeOK'
    <2>1. slots' \in [SlotIds -> NodeSlots]
        BY <1>1, <1>6
    <2> QED BY <1>1, <1>5, <2>1 DEF TypeOK, WellKept
<1>8. \A i \in SlotIds : i \in swept => slot_lock[i] = Nobody
    OBVIOUS
<1> HIDE DEF swept, of
<1>9. UploadInv'
    <2>1. ASSUME NEW i \in SlotIds, slots'[i].restore # NoTransfer
          PROVE  (/\ slots[i].restore \in TransferFrames
                  /\ IsActive(table[slots[i].id])
                  /\ table[slots[i].id].pending_restore = slots[i].restore)'
        <3>1. i \notin swept /\ slots'[i] = slots[i]
            BY <1>6, <2>1
        <3>2. slots[i].used /\ slots[i].id \in Sessions
            BY <2>1, <3>1 DEF HoldInv, EmptySlot
        <3>3. ~\E j \in swept : slots[j].id = slots[i].id
            <4> SUFFICES ASSUME NEW j \in swept, slots[j].id = slots[i].id PROVE FALSE
                OBVIOUS
            <4>1. j \in SlotIds /\ slots[j].used
                BY DEF swept
            <4> QED BY <3>1, <3>2, <4>1 DEF HoldInv
        <3>4. table'[slots[i].id] = table[slots[i].id]
            BY <1>4, <3>2, <3>3
        <3> QED BY <2>1, <3>1, <3>4 DEF UploadInv
    <2>2. ASSUME NEW s \in Sessions, IsActive(table'[s]), table'[s].pending_restore # NoTransfer
          PROVE  (\E i \in SlotIds : StillIts(i, s)
                                     /\ slots[i].restore = table[s].pending_restore)'
        <3>1. table'[s] = table[s] /\ ~\E i \in swept : slots[i].id = s
            BY <1>4, <2>2
        <3>2. PICK i \in SlotIds : StillIts(i, s)
                                   /\ slots[i].restore = table[s].pending_restore
            BY <2>2, <3>1 DEF UploadInv
        <3>3. i \notin swept
            BY <3>1, <3>2 DEF StillIts
        <3> QED BY <1>6, <3>1, <3>2, <3>3 DEF StillIts
    <2> QED BY <2>1, <2>2 DEF UploadInv
<1>10. ASSUME NEW s \in Sessions, Installing(s)
       PROVE  table'[s] = table[s]
    <2>1. PICK t \in Workers : pc[t] = "install" /\ Of(t) = s
        BY <1>10 DEF Installing, Of
    <2>2. \A i \in SlotIds : ~StillIts(i, s)
        BY <2>1, ThreadSet DEF InstallInv
    <2>3. ~\E i \in swept : slots[i].id = s
        BY <2>2 DEF swept, StillIts
    <2> QED BY <1>4, <2>3
<1>11. ASSUME NEW t \in Threads, pc[t] \in {"restored", "refused"}
       PROVE  slots'[at[t]].restore = slots[at[t]].restore
    <2>1. at[t] \in SlotIds /\ slot_lock[at[t]] = t
        BY <1>11, HolderOf DEF Holders
    <2> QED BY <1>6, <1>8, <2>1, ThreadSet
<1>12. \A i \in SlotIds :
         /\ slots'[i].used = slots[i].used /\ slots'[i].id = slots[i].id
         /\ slots'[i].engine = slots[i].engine
         /\ slots'[i].snapshot = slots[i].snapshot
         /\ ~slots[i].used => slots'[i] = slots[i]
    BY <1>6
<1>13. \A s \in Sessions :
         /\ IsActive(table'[s]) <=> IsActive(table[s])
         /\ IsActive(table[s]) =>
              /\ table'[s].pending = table[s].pending
              /\ table'[s].next_sequence = table[s].next_sequence
              /\ table'[s].next_position = table[s].next_position
    BY <1>4
<1> QED BY <1>1, <1>5, <1>7, <1>9, <1>10, <1>11, <1>12, <1>13, StillStep

-----------------------------------------------------------------------------
(* OPEN. *)

\* A session in the table has not ended, and what has a slot but no entry has.
LEMMA EntryOrEnded ==
    ASSUME AllNodeInv, NEW s \in Sessions
    PROVE  /\ IsActive(table[s]) => s \notin spent /\ ~Reaping(s)
           /\ ~IsActive(table[s]) /\ Holding(s) # {} => s \in spent
<1> USE DEF AllNodeInv
<1>1. IsActive(table[s]) => s \notin spent /\ ~Reaping(s)
    BY DEF HoldInv
<1>2. ASSUME NEW i \in Holding(s), ~IsActive(table[s])
      PROVE  s \in spent
    BY <1>2 DEF Holding, HoldInv
<1> QED BY <1>1, <1>2

\* The part of handle_open before the slot's lock: the table has the session,
\* and the worker keeps sessions_lock.
LEMMA OpenEnterStep ==
    ASSUME AllNodeInv, NEW t \in Workers, NEW o \in OpenFrames, OpenEnter(t, o)
    PROVE  AllNodeInv'
<1> USE DEF AllNodeInv
<1> DEFINE s == o.session
           status == OpenStatus(table, o, Now)
           taken == [kind |-> "open", frame |-> o]
<1>1. /\ pc[t] = "idle" /\ sessions_lock = Nobody /\ s \notin spent
      /\ table' = TableOpen(table, o, Now)
      /\ IF Holding(s) = {} /\ status = "OK"
         THEN /\ sessions_lock' = t /\ Goto(t, "install")
              /\ job' = [job EXCEPT ![t] = taken]
              /\ \E i \in Empty : at' = [at EXCEPT ![t] = i]
         ELSE UNCHANGED <<sessions_lock, pc, job, at>>
      /\ UNCHANGED <<quiet, slots, slot_lock, active, fault, spent>>
    BY DEF OpenEnter, Serves
<1>2. o \in Opens /\ s \in Sessions /\ Now \in Nat /\ t \in Threads
    BY NodeConstants, ThreadSet DEF Opens
<1>3. job[t] = NoJob /\ job[t] \in Jobs /\ at[t] \in SlotIds
    BY <1>1, <1>2, BusyThread
<1>4. taken \in Jobs /\ taken.kind = "open" /\ taken.frame.session = s
    BY DEF Jobs
<1>5. /\ WellKept(table') /\ OnlyAt(s, table, table')
      /\ status = "OK" =>
           /\ ~IsActive(table[s]) /\ IsActive(table'[s])
           /\ table'[s].pending_restore = NoTransfer
           /\ table'[s].next_sequence = 0 /\ table'[s].next_position = 0
      /\ status # "OK" => Alike(table[s], table'[s])
    BY <1>1, <1>2, OpenCall
<1> HIDE DEF status, taken
<1>6. \A u \in Threads : pc[u] \notin {"install", "close"}
    BY <1>1, ThreadSet DEF LockInv
<1>7. CASE ~(Holding(s) = {} /\ status = "OK")
    <2>1. UNCHANGED <<sessions_lock, pc, job, at>> /\ OthersKept(t)
        BY <1>1, <1>7 DEF OthersKept
    <2>2. Alike(table[s], table'[s])
        BY <1>1, <1>2, <1>5, <1>7, EntryOrEnded
    <2>3. TypeOK' /\ JobInv' /\ LockInv'
        BY <1>1, <1>5, <2>1 DEF TypeOK, WellKept, JobInv, LockInv, StillIts, Of
    <2>4. RunInv'
        <3>1. \A u \in Threads : job[u].kind = "run" => Of(u) \in Sessions
            BY OneRun
        <3>2. \A r \in Sessions : /\ IsActive(table[r]) => IsActive(table'[r])
                                  /\ table'[r].pending = table[r].pending
            BY <1>5, <2>2 DEF OnlyAt, Alike
        <3> QED BY <2>1, <3>1, <3>2 DEF RunInv, Of
    <2> QED BY <1>1, <1>2, <1>5, <2>1, <2>2, <2>3, <2>4, TableStep DEF Alike
<1>8. CASE Holding(s) = {} /\ status = "OK"
    <2>1. PICK k \in Empty : at' = [at EXCEPT ![t] = k]
        BY <1>1, <1>8
    <2>2. k \in SlotIds /\ ~slots[k].used
        BY DEF Empty
    <2>3. /\ OthersKept(t) /\ pc'[t] = "install" /\ job'[t] = taken /\ at'[t] = k
          /\ pc' \in [Threads -> Labels]
          /\ job' \in [Threads -> Jobs] /\ at' \in [Threads -> SlotIds]
          /\ sessions_lock' = t
        BY <1>1, <1>2, <1>4, <1>8, <2>1, <2>2, Moved DEF Goto, Labels
    <2>4. \A i \in SlotIds : ~StillIts(i, s)
        BY <1>8 DEF Holding, StillIts
    <2>5. \A r \in Sessions : r # s => table'[r] = table[r]
        BY <1>5 DEF OnlyAt
    <2>6. \A u \in Threads : u # t => pc'[u] = pc[u] /\ job'[u] = job[u] /\ at'[u] = at[u]
        BY <2>3 DEF OthersKept
    <2>7. \A r \in Sessions : Reaping(r)' <=> Reaping(r)
        BY <2>3, ReaperKept
    <2>8. /\ ~IsActive(table[s]) /\ IsActive(table'[s])
          /\ table'[s].pending_restore = NoTransfer
          /\ table'[s].next_sequence = 0 /\ table'[s].next_position = 0
        BY <1>5, <1>8
    <2>9. \A i \in SlotIds, r \in Sessions : StillIts(i, r)' <=> StillIts(i, r)
        BY <1>1 DEF StillIts
    <2>10. \A i \in SlotIds : slots[i].used => slots[i].id \in Sessions /\ slots[i].id # s
        BY <2>4 DEF HoldInv, StillIts
    <2>11. TypeOK'
        BY <1>1, <1>2, <1>5, <2>3 DEF TypeOK, WellKept
    <2>12. JobInv'
        BY <1>2, <1>4, <2>3, <2>6, ThreadSet DEF JobInv
    <2>13. LockInv'
        <3>1. \A i \in SlotIds : slot_lock[i] # t
            BY <1>1, <1>2, NoLock DEF Holders
        <3>2. \A u \in Threads : at[u] \in SlotIds
            BY DEF TypeOK
        <3>3. ASSUME NEW u \in Threads
              PROVE  (/\ pc[u] \in {"install", "close"} <=> sessions_lock = u
                      /\ pc[u] \in Holders => slot_lock[at[u]] = u /\ StillIts(at[u], Of(u)))'
            <4>1. CASE u = t
                BY <1>1, <2>3, <4>1 DEF Holders
            <4>2. CASE u # t
                BY <1>1, <1>6, <2>3, <2>6, <3>2, <4>2 DEF LockInv, StillIts, Of
            <4> QED BY <4>1, <4>2
        <3>4. (\A i \in SlotIds, u \in Threads :
                 slot_lock[i] = u => at[u] = i /\ pc[u] \in Holders \cup {"abort"})'
            BY <1>1, <2>6, <3>1 DEF LockInv
        <3>5. (pc[Reaper] = "wait" => StillIts(at[Reaper], Of(Reaper)))'
            BY <1>1, <2>6, <3>2, ThreadSet DEF LockInv, StillIts, Of
        <3> QED BY <3>3, <3>4, <3>5 DEF LockInv
    <2>14. RunInv'
        <3>1. ASSUME NEW u \in Threads, job'[u].kind = "run"
              PROVE  /\ u # t /\ job'[u] = job[u] /\ Of(u) \in Sessions
                     /\ table'[Of(u)] = table[Of(u)]
            <4>1. u # t /\ job'[u] = job[u]
                BY <1>4, <2>3, <2>6, <3>1
            <4>2. Of(u) \in Sessions /\ IsActive(table[Of(u)])
                BY <3>1, <4>1, OneRun DEF RunInv
            <4> QED BY <2>5, <2>8, <4>1, <4>2
        <3> QED BY <3>1 DEF RunInv, Of
    <2>15. HoldInv'
        <3>1. Installing(s)'
            BY <1>4, <2>3 DEF Installing
        <3>2. ASSUME NEW i \in SlotIds
              PROVE  (IF slots[i].used
                      THEN /\ slots[i].id \in Sessions
                           /\ IsActive(table[slots[i].id]) \/ Reaping(slots[i].id)
                      ELSE slots[i] = EmptySlot)'
            <4>1. CASE slots[i].used
                <5>1. slots'[i] = slots[i] /\ table'[slots[i].id] = table[slots[i].id]
                    BY <1>1, <2>5, <2>10, <4>1
                <5>2. Reaping(slots[i].id) => Reaping(slots[i].id)'
                    BY <2>6, <5>1, ThreadSet DEF Reaping
                <5> QED BY <4>1, <5>1, <5>2 DEF HoldInv
            <4>2. CASE ~slots[i].used
                BY <1>1, <4>2 DEF HoldInv
            <4> QED BY <4>1, <4>2
        <3>3. (\A i, j \in SlotIds :
                 slots[i].used /\ slots[j].used /\ slots[i].id = slots[j].id => i = j)'
            BY <1>1 DEF HoldInv
        <3>4. ASSUME NEW r \in Sessions
              PROVE  (/\ IsActive(table[r]) =>
                           Installing(r) \/ \E i \in SlotIds : StillIts(i, r)
                      /\ IsActive(table[r]) => r \notin spent
                      /\ Reaping(r) => r \in spent)'
            <4>1. Reaping(r)' => r \in spent'
                BY <1>1, <2>7 DEF HoldInv
            <4>2. CASE r = s
                BY <1>1, <3>1, <4>1, <4>2
            <4>3. CASE r # s
                <5>1. ~Installing(r)
                    BY <1>6, ThreadSet DEF Installing
                <5>2. table'[r] = table[r]
                    BY <2>5, <4>3
                <5> QED BY <1>1, <2>9, <4>1, <5>1, <5>2 DEF HoldInv
            <4> QED BY <4>2, <4>3
        <3> QED BY <3>2, <3>3, <3>4 DEF HoldInv
    <2>16. InstallInv'
        <3> SUFFICES ASSUME NEW u \in Threads, pc'[u] = "install"
                     PROVE  InstallInv!(u)'
            BY DEF InstallInv
        <3>1. u = t
            BY <1>6, <2>6
        <3>2. Of(t)' = s
            BY <1>4, <2>3 DEF Of
        <3>3. slots' = slots
            BY <1>1
        <3> QED BY <2>2, <2>3, <2>4, <2>8, <3>1, <3>2, <3>3 DEF StillIts
    <2>17. CountInv'
        BY <1>1 DEF CountInv
    <2>18. UploadInv'
        <3>1. ASSUME NEW i \in SlotIds, slots'[i].restore # NoTransfer
              PROVE  (/\ slots[i].restore \in TransferFrames
                      /\ IsActive(table[slots[i].id])
                      /\ table[slots[i].id].pending_restore = slots[i].restore)'
            <4>1. slots'[i] = slots[i] /\ slots[i].used
                BY <1>1, <3>1 DEF HoldInv, EmptySlot
            <4>2. table'[slots[i].id] = table[slots[i].id]
                BY <2>5, <2>10, <4>1
            <4> QED BY <3>1, <4>1, <4>2 DEF UploadInv
        <3>2. ASSUME NEW r \in Sessions, IsActive(table'[r]),
                     table'[r].pending_restore # NoTransfer
              PROVE  (\E i \in SlotIds : StillIts(i, r)
                                         /\ slots[i].restore = table[r].pending_restore)'
            <4>1. table'[r] = table[r]
                BY <2>5, <2>8, <3>2
            <4> QED BY <1>1, <3>2, <4>1 DEF UploadInv, StillIts
        <3> QED BY <3>1, <3>2 DEF UploadInv
    <2>19. PointInv'
        BY <1>1, <2>3, <2>6 DEF PointInv
    <2>20. EngineMatchesTable'
        <3> SUFFICES ASSUME NEW i \in SlotIds, slots'[i].used, IsActive(table'[slots'[i].id]),
                            ~fault', ~InFlight(slots[i].id)'
                     PROVE  Stands(slots'[i].engine,
                              [session |-> slots'[i].id,
                               sequence |-> table'[slots'[i].id].next_sequence,
                               position |-> table'[slots'[i].id].next_position])
            BY DEF EngineMatchesTable
        <3>1. slots'[i] = slots[i] /\ table'[slots[i].id] = table[slots[i].id]
            BY <1>1, <2>5, <2>10
        <3>2. ~InFlight(slots[i].id)
            <4>1. \A u \in Workers : u # t => pc'[u] = pc[u] /\ job'[u] = job[u]
                BY <2>6, ThreadSet
            <4> QED BY <1>1, <3>1, <4>1 DEF InFlight
        <3> QED BY <1>1, <3>1, <3>2 DEF EngineMatchesTable
    <2>21. SnapshotIsOwn'
        BY <1>1 DEF SnapshotIsOwn
    <2> QED BY <1>5, <2>11, <2>12, <2>13, <2>14, <2>15, <2>16, <2>17, <2>18, <2>19, <2>20, <2>21
<1> QED BY <1>7, <1>8

\* The rest of handle_open: the slot is the session's, and counted.
LEMMA OpenInstallStep ==
    ASSUME AllNodeInv, NEW t \in Workers, OpenInstall(t)
    PROVE  AllNodeInv'
<1> USE DEF AllNodeInv
<1> DEFINE k == at[t]
           s == Of(t)
           new == [slots[k] EXCEPT !.used = TRUE, !.id = s,
                                   !.engine = NewEngine(s)]
<1>1. /\ pc[t] = "install" /\ t \in Threads /\ slot_lock[k] = Nobody
      /\ slots' = [slots EXCEPT ![k] = new]
      /\ active' = active + 1 /\ sessions_lock' = Nobody /\ Finish(t)
      /\ UNCHANGED <<table, quiet, slot_lock, fault, at, spent>>
    BY ThreadSet DEF OpenInstall, Of
<1>2. /\ k \in SlotIds /\ s \in Sessions /\ sessions_lock = t
    BY <1>1, BusyThread DEF LockInv
<1>3. /\ ~slots[k].used /\ slots[k] = EmptySlot
      /\ \A i \in SlotIds : ~StillIts(i, s)
      /\ IF IsActive(table[s])
         THEN /\ table[s].next_sequence = 0 /\ table[s].next_position = 0
              /\ table[s].pending_restore = NoTransfer
         ELSE Reaping(s)
    BY <1>1, <1>2 DEF InstallInv, HoldInv
<1>4. /\ OthersKept(t) /\ pc'[t] = "idle" /\ job'[t] = NoJob
      /\ pc' \in [Threads -> Labels] /\ job' \in [Threads -> Jobs]
    BY <1>1, Ended
<1>5. \A u \in Threads : u # t => pc'[u] = pc[u] /\ job'[u] = job[u] /\ at'[u] = at[u]
    BY <1>4 DEF OthersKept
<1>6. /\ new \in NodeSlots /\ new.used /\ new.id = s
      /\ new.engine.point = [session |-> s, sequence |-> 0, position |-> 0]
      /\ new.snapshot = NoSnapshot /\ new.restore = NoTransfer
    <2>1. slots[k] \in NodeSlots
        BY <1>2 DEF TypeOK
    <2>2. [NoPoint EXCEPT !.session = s] = [session |-> s, sequence |-> 0, position |-> 0]
        BY DEF NoPoint
    <2>3. [session |-> s, sequence |-> 0, position |-> 0] \in Points
        BY <1>2 DEF Points
    <2>4. slots[k].snapshot = NoSnapshot /\ slots[k].restore = NoTransfer
        BY <1>3 DEF EmptySlot
    <2>5. /\ NewEngine(s) \in Engines
          /\ NewEngine(s).point = [session |-> s, sequence |-> 0, position |-> 0]
        <3> HIDE DEF k, s
        <3> QED BY <2>2, <2>3 DEF NewEngine, Engines
    <2> HIDE DEF k, s
    <2> QED BY <1>2, <2>1, <2>4, <2>5 DEF NodeSlots
<1> HIDE DEF new
<1>7. slots'[k] = new /\ \A i \in SlotIds : i # k => slots'[i] = slots[i]
    BY <1>1, <1>2 DEF TypeOK
<1>8. \A u \in Threads : u # t => pc[u] \notin {"install", "close"}
    BY <1>2 DEF LockInv
<1>9. \A u \in Threads : pc[u] \in Holders => at[u] \in SlotIds /\ at[u] # k /\ u # t
    BY <1>1, <1>3, HolderOf DEF Holders
<1>10. \A r \in Sessions : /\ Reaping(r)' <=> Reaping(r)
                           /\ InFlight(r)' <=> InFlight(r)
    <2>1. \A r \in Sessions : Reaping(r)' <=> Reaping(r)
        BY <1>4, ReaperKept
    <2>2. \A u \in Workers : u # t => pc'[u] = pc[u] /\ job'[u] = job[u]
        BY <1>5, ThreadSet
    <2> QED BY <1>1, <1>4, <2>1, <2>2 DEF InFlight
<1>11. \A r \in Sessions : r # s => ~Installing(r)
    BY <1>8, ThreadSet DEF Installing, Of
<1>12. TypeOK'
    BY <1>1, <1>4, <1>6 DEF TypeOK
<1>13. JobInv'
    BY <1>4 DEF JobInv, OthersKept
<1>14. LockInv'
    <2>1. ASSUME NEW u \in Threads
          PROVE  (/\ pc[u] \in {"install", "close"} <=> sessions_lock = u
                  /\ pc[u] \in Holders => slot_lock[at[u]] = u /\ StillIts(at[u], Of(u)))'
        <3>1. CASE u = t
            BY <1>1, <1>4, <3>1, ThreadSet DEF Holders
        <3>2. CASE u # t
            <4>1. pc'[u] \notin {"install", "close"} /\ sessions_lock' # u
                BY <1>1, <1>5, <1>8, <3>2, ThreadSet
            <4>2. ASSUME pc[u] \in Holders
                  PROVE  slot_lock'[at[u]] = u /\ slots'[at[u]] = slots[at[u]]
                BY <1>1, <1>7, <1>9, <4>2 DEF LockInv
            <4> QED BY <1>5, <3>2, <4>1, <4>2 DEF LockInv, StillIts, Of
        <3> QED BY <3>1, <3>2
    <2>2. (\A i \in SlotIds, u \in Threads :
             slot_lock[i] = u => at[u] = i /\ pc[u] \in Holders \cup {"abort"})'
        <3>1. \A i \in SlotIds : slot_lock[i] # t
            BY <1>1, NoLock DEF Holders
        <3> QED BY <1>1, <1>5, <3>1 DEF LockInv
    <2>3. (pc[Reaper] = "wait" => StillIts(at[Reaper], Of(Reaper)))'
        <3>1. pc'[Reaper] = pc[Reaper] /\ job'[Reaper] = job[Reaper] /\ at'[Reaper] = at[Reaper]
            BY <1>4, ReaperKept
        <3>2. at[Reaper] \in SlotIds
            BY ThreadSet DEF TypeOK
        <3>3. pc[Reaper] = "wait" => at[Reaper] # k
            BY <1>3 DEF LockInv, StillIts
        <3> QED BY <1>7, <3>1, <3>2, <3>3 DEF LockInv, StillIts, Of
    <2> QED BY <2>1, <2>2, <2>3 DEF LockInv
<1>15. RunInv'
    <2>1. \A u \in Threads : job'[u].kind = "run" => job'[u] = job[u]
        BY <1>4, <1>5 DEF NoJob
    <2> QED BY <1>1, <2>1 DEF RunInv, Of
<1>16. \A i \in SlotIds, r \in Sessions :
         StillIts(i, r)' <=> StillIts(i, r) \/ (i = k /\ r = s)
    BY <1>3, <1>6, <1>7 DEF StillIts
<1>17. HoldInv'
    <2>1. ASSUME NEW i \in SlotIds
          PROVE  (IF slots[i].used
                  THEN /\ slots[i].id \in Sessions
                       /\ IsActive(table[slots[i].id]) \/ Reaping(slots[i].id)
                  ELSE slots[i] = EmptySlot)'
        <3>1. \A r \in Sessions : IsActive(table'[r]) <=> IsActive(table[r])
            BY <1>1
        <3>2. CASE i = k
            <4>1. slots'[i].used /\ slots'[i].id = s
                BY <1>6, <1>7, <3>2
            <4>2. pc'[Reaper] = pc[Reaper] /\ job'[Reaper] = job[Reaper]
                BY <1>4, ReaperKept
            <4>3. IsActive(table'[s]) \/ Reaping(s)
                BY <1>2, <1>3, <3>1
            <4>4. /\ IsActive(table'[s]) => IsActive(table[slots[i].id])'
                  /\ Reaping(s) => Reaping(slots[i].id)'
                BY <4>1, <4>2 DEF Reaping
            <4> QED BY <1>2, <4>1, <4>3, <4>4
        <3>3. CASE i # k
            <4>1. slots'[i] = slots[i]
                BY <1>7, <3>3
            <4>2. CASE slots[i].used
                <5>1. slots[i].id \in Sessions
                      /\ (IsActive(table[slots[i].id]) \/ Reaping(slots[i].id))
                    BY <4>2 DEF HoldInv
                <5>2. pc'[Reaper] = pc[Reaper] /\ job'[Reaper] = job[Reaper]
                    BY <1>4, ReaperKept
                <5>3. Reaping(slots[i].id) => Reaping(slots[i].id)'
                    BY <4>1, <5>2 DEF Reaping
                <5> QED BY <1>1, <4>1, <4>2, <5>1, <5>3
            <4>3. CASE ~slots[i].used
                BY <4>1, <4>3 DEF HoldInv
            <4> QED BY <4>2, <4>3
        <3> QED BY <3>2, <3>3
    <2>2. (\A i, j \in SlotIds :
             slots[i].used /\ slots[j].used /\ slots[i].id = slots[j].id => i = j)'
        BY <1>3, <1>6, <1>7 DEF HoldInv, StillIts
    <2>3. ASSUME NEW r \in Sessions
          PROVE  (/\ IsActive(table[r]) =>
                       Installing(r) \/ \E i \in SlotIds : StillIts(i, r)
                  /\ IsActive(table[r]) => r \notin spent
                  /\ Reaping(r) => r \in spent)'
        <3>1. (IsActive(table[r]) => r \notin spent)' /\ (Reaping(r) => r \in spent)'
            BY <1>1, <1>10 DEF HoldInv
        <3>2. IsActive(table'[r]) => \E i \in SlotIds : StillIts(i, r)'
            BY <1>1, <1>2, <1>11, <1>16 DEF HoldInv
        <3> QED BY <3>1, <3>2
    <2> QED BY <2>1, <2>2, <2>3 DEF HoldInv
<1>18. InstallInv'
    BY <1>4, <1>5, <1>8 DEF InstallInv
<1>19. CountInv'
    <2> DEFINE Used == {i \in SlotIds : slots[i].used}
    <2>1. {i \in SlotIds : slots'[i].used} = Used \cup {k}
        BY <1>2, <1>6, <1>7
    <2>2. IsFiniteSet(Used)
        BY NodeConstants, FS_Subset
    <2>3. k \notin Used
        BY <1>3
    <2>4. active = Cardinality(Used)
        BY DEF CountInv
    <2> HIDE DEF Used
    <2>5. Cardinality(Used \cup {k}) = Cardinality(Used) + 1
        BY <2>2, <2>3, FS_AddElement
    <2> QED BY <1>1, <2>1, <2>4, <2>5 DEF CountInv
<1>20. UploadInv'
    <2>1. ASSUME NEW i \in SlotIds, slots'[i].restore # NoTransfer
          PROVE  (/\ slots[i].restore \in TransferFrames
                  /\ IsActive(table[slots[i].id])
                  /\ table[slots[i].id].pending_restore = slots[i].restore)'
        <3>1. slots'[i] = slots[i] /\ table' = table
            BY <1>1, <1>6, <1>7, <2>1
        <3> QED BY <2>1, <3>1 DEF UploadInv
    <2>2. ASSUME NEW r \in Sessions, IsActive(table'[r]),
                 table'[r].pending_restore # NoTransfer
          PROVE  (\E i \in SlotIds : StillIts(i, r)
                                     /\ slots[i].restore = table[r].pending_restore)'
        <3>1. PICK i \in SlotIds : StillIts(i, r)
                                   /\ slots[i].restore = table[r].pending_restore
            BY <1>1, <2>2 DEF UploadInv
        <3>2. slots'[i] = slots[i]
            BY <1>3, <1>7, <3>1 DEF StillIts
        <3> QED BY <1>1, <3>1, <3>2 DEF StillIts
    <2> QED BY <2>1, <2>2 DEF UploadInv
<1>21. PointInv'
    <2>1. ASSUME NEW u \in Threads
          PROVE  (/\ pc[u] \in {"restored", "refused"} =>
                       SameUpload(slots[at[u]].restore, job[u].frame)
                  /\ pc[u] \in {"execute", "restored"} =>
                       Stands(slots[at[u]].engine, Point(job[u].frame))
                  /\ pc[u] = "commit" =>
                       Stands(slots[at[u]].engine, Advanced(Point(job[u].frame), job[u].frame)))'
        <3>1. CASE u = t
            BY <1>4, <3>1
        <3>2. CASE u # t
            <4>1. pc'[u] = pc[u] /\ job'[u] = job[u] /\ at'[u] = at[u]
                BY <1>5, <3>2
            <4>2. pc[u] \in Holders => slots'[at[u]] = slots[at[u]]
                BY <1>7, <1>9
            <4> QED BY <4>1, <4>2 DEF PointInv, Holders
        <3> QED BY <3>1, <3>2
    <2>2. \A i \in SlotIds : slots'[i].used => slots'[i].engine.point.session = slots'[i].id
        BY <1>6, <1>7 DEF PointInv
    <2> QED BY <2>1, <2>2 DEF PointInv
<1>22. EngineMatchesTable'
    <2> SUFFICES ASSUME NEW i \in SlotIds, slots'[i].used, IsActive(table'[slots'[i].id]),
                        ~fault', ~InFlight(slots[i].id)'
                 PROVE  Stands(slots'[i].engine,
                          [session |-> slots'[i].id,
                           sequence |-> table'[slots'[i].id].next_sequence,
                           position |-> table'[slots'[i].id].next_position])
        BY DEF EngineMatchesTable
    <2>1. CASE i = k
        <3>1. slots'[i] = new /\ slots'[i].id = s
            BY <1>6, <1>7, <2>1
        <3> QED BY <1>1, <1>3, <1>6, <3>1 DEF Stands
    <2>2. CASE i # k
        <3>1. slots'[i] = slots[i] /\ slots[i].id \in Sessions
            BY <1>7, <2>2 DEF HoldInv
        <3>2. ~InFlight(slots[i].id)
            <4>1. \A u \in Workers : u # t => pc'[u] = pc[u] /\ job'[u] = job[u]
                BY <1>5, ThreadSet
            <4> QED BY <1>1, <3>1, <4>1 DEF InFlight
        <3> QED BY <1>1, <3>1, <3>2 DEF EngineMatchesTable
    <2> QED BY <2>1, <2>2
<1>23. SnapshotIsOwn'
    BY <1>6, <1>7 DEF SnapshotIsOwn
<1>24. WellKept(table)'
    BY <1>1
<1> QED BY <1>12, <1>13, <1>14, <1>15, <1>17, <1>18, <1>19, <1>20, <1>21, <1>22, <1>23, <1>24

-----------------------------------------------------------------------------
(* The end of a session. *)

\* session_release_locked, by a thread that holds or could take the slot: the
\* session's entry is gone, and no other thread counts on the slot.
LEMMA ReleaseStep ==
    ASSUME AllNodeInv, NEW t \in Threads, Finish(t), pc[t] \in {"close", "held"},
           NEW s \in Sessions, Of(t) = s, NEW k \in SlotIds, StillIts(k, s),
           slot_lock[k] \in {Nobody, t},
           \A u \in Threads : u # t => pc[u] \notin {"install", "close"},
           slots' = [slots EXCEPT ![k] = EmptySlot],
           slot_lock' = [slot_lock EXCEPT ![k] = Nobody],
           active' = IF active > 0 THEN active - 1 ELSE 0,
           sessions_lock' = Nobody, quiet' = quiet, fault' = fault, at' = at,
           WellKept(table'), OnlyAt(s, table, table'), ~IsActive(table'[s]),
           IsActive(table[s]) => table[s].pending = NoRun,
           spent \subseteq spent', spent' \subseteq spent \cup {s},
           t = Reaper \/ ~Reaping(s)
    PROVE  AllNodeInv'
<1> USE DEF AllNodeInv
<1>1. /\ OthersKept(t) /\ pc'[t] = "idle" /\ job'[t] = NoJob
      /\ pc' \in [Threads -> Labels] /\ job' \in [Threads -> Jobs]
    BY Ended
<1>2. \A u \in Threads : u # t => pc'[u] = pc[u] /\ job'[u] = job[u] /\ at'[u] = at[u]
    BY <1>1 DEF OthersKept
<1>3. /\ slots'[k] = EmptySlot /\ \A i \in SlotIds : i # k => slots'[i] = slots[i]
      /\ slot_lock'[k] = Nobody
      /\ \A i \in SlotIds : i # k => slot_lock'[i] = slot_lock[i]
      /\ slot_lock' \in [SlotIds -> Threads \cup {Nobody}]
    BY DEF TypeOK
<1>4. /\ EmptySlot \in NodeSlots /\ ~EmptySlot.used /\ EmptySlot.restore = NoTransfer
      /\ EmptySlot.snapshot = NoSnapshot
    <2>1. NoEngine \in Engines /\ NoSnapshot \in [label : Points, state : Engines]
        BY DEF NoPoint, NoEngine, NoSnapshot, Points, Engines
    <2>2. 0 \in 0..Chunks
        BY NodeConstants
    <2> QED BY <2>1, <2>2 DEF EmptySlot, NodeSlots
<1>5. \A i \in SlotIds : i # k /\ slots[i].used => slots[i].id \in Sessions /\ slots[i].id # s
    BY DEF HoldInv, StillIts
<1>6. \A r \in Sessions : r # s => table'[r] = table[r]
    BY DEF OnlyAt
<1>7. \A u \in Threads : at[u] \in SlotIds
    BY DEF TypeOK
<1>8. \A u \in Threads : u # t /\ pc[u] \in Holders => at[u] # k
    BY ThreadSet DEF LockInv
<1>9. ASSUME NEW r \in Sessions
      PROVE  /\ ~Installing(r)
             /\ InFlight(r)' <=> InFlight(r)
             /\ Reaping(r)' <=> Reaping(r) /\ r # s
    <2>1. ~Installing(r)
        BY ThreadSet DEF Installing
    <2>2. InFlight(r)' <=> InFlight(r)
        <3>1. \A u \in Workers : u # t => pc'[u] = pc[u] /\ job'[u] = job[u]
            BY <1>2, ThreadSet
        <3> QED BY <1>1, <3>1 DEF InFlight
    <2>3. Reaping(r)' <=> Reaping(r) /\ r # s
        <3>1. CASE t = Reaper
            BY <1>1, <3>1 DEF Reaping, Of
        <3>2. CASE t # Reaper
            BY <1>2, <3>2, ThreadSet DEF Reaping
        <3> QED BY <3>1, <3>2
    <2> QED BY <2>1, <2>2, <2>3
<1>10. TypeOK'
    <2>1. active' \in Nat
        BY DEF TypeOK
    <2> QED BY <1>1, <1>3, <1>4, <2>1, ThreadSet DEF TypeOK, WellKept
<1>11. JobInv'
    BY <1>1 DEF JobInv, OthersKept
<1>12. LockInv'
    <2>1. ASSUME NEW u \in Threads
          PROVE  (/\ pc[u] \in {"install", "close"} <=> sessions_lock = u
                  /\ pc[u] \in Holders => slot_lock[at[u]] = u /\ StillIts(at[u], Of(u)))'
        <3>1. CASE u = t
            BY <1>1, <3>1, ThreadSet DEF Holders
        <3>2. CASE u # t
            <4>1. pc'[u] \notin {"install", "close"} /\ sessions_lock' # u
                BY <1>2, <3>2, ThreadSet
            <4>2. ASSUME pc[u] \in Holders
                  PROVE  slot_lock'[at[u]] = u /\ slots'[at[u]] = slots[at[u]]
                BY <1>3, <1>7, <1>8, <3>2, <4>2 DEF LockInv
            <4> QED BY <1>2, <3>2, <4>1, <4>2 DEF LockInv, StillIts, Of
        <3> QED BY <3>1, <3>2
    <2>2. ASSUME NEW i \in SlotIds, NEW u \in Threads, slot_lock'[i] = u
          PROVE  at'[u] = i /\ pc'[u] \in Holders \cup {"abort"}
        <3>1. i # k /\ slot_lock[i] = u
            BY <1>3, <2>2, ThreadSet
        <3>2. u # t
            <4>1. SUFFICES ASSUME u = t PROVE FALSE
                OBVIOUS
            <4>2. at[t] = i /\ pc[t] = "held"
                BY <3>1, <4>1 DEF LockInv, Holders
            <4>3. StillIts(i, s)
                BY <4>2 DEF LockInv, Holders
            <4> QED BY <1>5, <3>1, <4>3 DEF StillIts
        <3> QED BY <1>2, <3>1, <3>2 DEF LockInv
    <2>3. (pc[Reaper] = "wait" => StillIts(at[Reaper], Of(Reaper)))'
        <3>1. CASE t = Reaper
            BY <1>1, <3>1
        <3>2. CASE t # Reaper
            <4>1. /\ pc'[Reaper] = pc[Reaper] /\ job'[Reaper] = job[Reaper]
                  /\ at'[Reaper] = at[Reaper] /\ at[Reaper] \in SlotIds
                BY <1>2, <1>7, <3>2, ThreadSet
            <4>2. pc[Reaper] = "wait" => at[Reaper] # k
                BY <3>2 DEF LockInv, StillIts, Reaping, Of
            <4> QED BY <1>3, <4>1, <4>2 DEF LockInv, StillIts, Of
        <3> QED BY <3>1, <3>2
    <2> QED BY <2>1, <2>2, <2>3 DEF LockInv
<1>13. RunInv'
    <2>1. ASSUME NEW u \in Threads, job'[u].kind = "run"
          PROVE  /\ job'[u] = job[u] /\ Of(u) \in Sessions
                 /\ table'[Of(u)] = table[Of(u)]
        <3>1. u # t /\ job'[u] = job[u]
            BY <1>1, <1>2, <2>1 DEF NoJob
        <3>2. Of(u) \in Sessions /\ IsActive(table[Of(u)]) /\ table[Of(u)].pending # NoRun
            BY <2>1, <3>1, OneRun DEF RunInv
        <3> QED BY <1>6, <3>1, <3>2
    <2> QED BY <2>1 DEF RunInv, Of
<1>14. HoldInv'
    <2>1. ASSUME NEW i \in SlotIds
          PROVE  (IF slots[i].used
                  THEN /\ slots[i].id \in Sessions
                       /\ IsActive(table[slots[i].id]) \/ Reaping(slots[i].id)
                  ELSE slots[i] = EmptySlot)'
        <3>1. CASE i = k
            BY <1>3, <1>4, <3>1
        <3>2. CASE i # k /\ slots[i].used
            <4>1. slots'[i] = slots[i] /\ slots[i].id \in Sessions /\ slots[i].id # s
                BY <1>3, <1>5, <3>2
            <4>2. IsActive(table[slots[i].id]) \/ Reaping(slots[i].id)
                BY <3>2 DEF HoldInv
            <4>3. Reaping(slots[i].id) => Reaping(slots[i].id)'
                <5>1. SUFFICES ASSUME Reaping(slots[i].id) PROVE Reaping(slots[i].id)'
                    OBVIOUS
                <5>2. Reaper # t
                    BY <4>1, <5>1 DEF Reaping, Of
                <5> QED BY <1>2, <4>1, <5>1, <5>2, ThreadSet DEF Reaping
            <4> QED BY <1>6, <3>2, <4>1, <4>2, <4>3
        <3>3. CASE i # k /\ ~slots[i].used
            BY <1>3, <3>3 DEF HoldInv
        <3> QED BY <3>1, <3>2, <3>3
    <2>2. (\A i, j \in SlotIds :
             slots[i].used /\ slots[j].used /\ slots[i].id = slots[j].id => i = j)'
        BY <1>3, <1>4 DEF HoldInv
    <2>3. ASSUME NEW r \in Sessions
          PROVE  (/\ IsActive(table[r]) =>
                       Installing(r) \/ \E i \in SlotIds : StillIts(i, r)
                  /\ IsActive(table[r]) => r \notin spent
                  /\ Reaping(r) => r \in spent)'
        <3>1. Reaping(r)' => r \in spent'
            BY <1>9 DEF HoldInv
        <3>2. CASE r = s
            BY <3>1, <3>2
        <3>3. CASE r # s /\ IsActive(table[r])
            <4>1. PICK i \in SlotIds : StillIts(i, r)
                BY <1>9, <3>3 DEF HoldInv
            <4>2. i # k
                BY <3>3, <4>1 DEF StillIts
            <4>3. StillIts(i, r)'
                BY <1>3, <4>1, <4>2 DEF StillIts
            <4>4. r \notin spent'
                BY <3>3 DEF HoldInv
            <4> QED BY <3>1, <4>3, <4>4
        <3>4. CASE r # s /\ ~IsActive(table[r])
            BY <1>6, <3>1, <3>4
        <3> QED BY <3>2, <3>3, <3>4
    <2> QED BY <2>1, <2>2, <2>3 DEF HoldInv
<1>15. InstallInv'
    BY <1>1, <1>2 DEF InstallInv
<1>16. CountInv'
    <2> DEFINE Used == {i \in SlotIds : slots[i].used}
    <2>1. {i \in SlotIds : slots'[i].used} = Used \ {k}
        BY <1>3, <1>4
    <2>2. IsFiniteSet(Used)
        BY NodeConstants, FS_Subset
    <2>3. k \in Used
        BY DEF StillIts
    <2>4. active = Cardinality(Used) /\ active \in Nat
        BY DEF CountInv, TypeOK
    <2> HIDE DEF Used
    <2>5. Cardinality(Used \ {k}) = Cardinality(Used) - 1
        BY <2>2, <2>3, FS_RemoveElement
    <2>6. Cardinality(Used) # 0
        BY <2>2, <2>3, FS_EmptySet
    <2>7. active' = active - 1
        <3> DEFINE n == Cardinality(Used)
        <3>1. n \in Nat /\ n # 0 /\ active = n
            BY <2>4, <2>6
        <3> HIDE DEF n
        <3> QED BY <3>1
    <2> QED BY <2>1, <2>4, <2>5, <2>7 DEF CountInv
<1>17. UploadInv'
    <2>1. ASSUME NEW i \in SlotIds, slots'[i].restore # NoTransfer
          PROVE  (/\ slots[i].restore \in TransferFrames
                  /\ IsActive(table[slots[i].id])
                  /\ table[slots[i].id].pending_restore = slots[i].restore)'
        <3>1. i # k /\ slots'[i] = slots[i] /\ slots[i].used
            BY <1>3, <1>4, <2>1 DEF HoldInv
        <3>2. table'[slots[i].id] = table[slots[i].id]
            BY <1>5, <1>6, <3>1
        <3> QED BY <2>1, <3>1, <3>2 DEF UploadInv
    <2>2. ASSUME NEW r \in Sessions, IsActive(table'[r]),
                 table'[r].pending_restore # NoTransfer
          PROVE  (\E i \in SlotIds : StillIts(i, r)
                                     /\ slots[i].restore = table[r].pending_restore)'
        <3>1. r # s /\ table'[r] = table[r]
            BY <1>6, <2>2
        <3>2. PICK i \in SlotIds : StillIts(i, r)
                                   /\ slots[i].restore = table[r].pending_restore
            BY <2>2, <3>1 DEF UploadInv
        <3>3. slots'[i] = slots[i]
            BY <1>3, <3>1, <3>2 DEF StillIts
        <3> QED BY <3>1, <3>2, <3>3 DEF StillIts
    <2> QED BY <2>1, <2>2 DEF UploadInv
<1>18. PointInv'
    <2>1. ASSUME NEW u \in Threads
          PROVE  (/\ pc[u] \in {"restored", "refused"} =>
                       SameUpload(slots[at[u]].restore, job[u].frame)
                  /\ pc[u] \in {"execute", "restored"} =>
                       Stands(slots[at[u]].engine, Point(job[u].frame))
                  /\ pc[u] = "commit" =>
                       Stands(slots[at[u]].engine, Advanced(Point(job[u].frame), job[u].frame)))'
        <3>1. CASE u = t
            BY <1>1, <3>1
        <3>2. CASE u # t
            <4>1. pc'[u] = pc[u] /\ job'[u] = job[u] /\ at'[u] = at[u]
                BY <1>2, <3>2
            <4>2. pc[u] \in Holders => slots'[at[u]] = slots[at[u]]
                BY <1>3, <1>7, <1>8, <3>2
            <4> QED BY <4>1, <4>2 DEF PointInv, Holders
        <3> QED BY <3>1, <3>2
    <2>2. \A i \in SlotIds : slots'[i].used => slots'[i].engine.point.session = slots'[i].id
        BY <1>3, <1>4 DEF PointInv
    <2> QED BY <2>1, <2>2 DEF PointInv
<1>19. EngineMatchesTable'
    <2> SUFFICES ASSUME NEW i \in SlotIds, slots'[i].used, IsActive(table'[slots'[i].id]),
                        ~fault', ~InFlight(slots[i].id)'
                 PROVE  Stands(slots'[i].engine,
                          [session |-> slots'[i].id,
                           sequence |-> table'[slots'[i].id].next_sequence,
                           position |-> table'[slots'[i].id].next_position])
        BY DEF EngineMatchesTable
    <2>1. i # k /\ slots'[i] = slots[i]
        BY <1>3, <1>4
    <2>2. slots[i].id \in Sessions /\ table'[slots[i].id] = table[slots[i].id]
        BY <1>5, <1>6, <2>1
    <2>3. ~InFlight(slots[i].id)
        <3>1. \A u \in Workers : u # t => pc'[u] = pc[u] /\ job'[u] = job[u]
            BY <1>2, ThreadSet
        <3> QED BY <2>1, <3>1 DEF InFlight
    <2> QED BY <2>1, <2>2, <2>3 DEF EngineMatchesTable
<1>20. SnapshotIsOwn'
    BY <1>3, <1>4 DEF SnapshotIsOwn
<1> QED BY <1>10, <1>11, <1>12, <1>13, <1>14, <1>15, <1>16, <1>17, <1>18, <1>19, <1>20

\* CLOSE: the table's entry and the slot go in one step, under sessions_lock,
\* or neither does.
LEMMA CloseStep ==
    ASSUME AllNodeInv, NEW t \in Workers, Close(t)
    PROVE  AllNodeInv'
<1> USE DEF AllNodeInv
<1> DEFINE c == job[t].frame
           s == Of(t)
           mine == Holding(s)
           closes == CloseStatus(table, c) = "OK" /\ \A i \in mine : slot_lock[i] = Nobody
<1>1. /\ pc[t] = "close" /\ t \in Threads /\ s = c.session
      /\ table' = IF closes THEN TableClose(table, c) ELSE table
      /\ spent' = IF closes THEN spent \cup {s} ELSE spent
      /\ IF closes /\ mine # {}
         THEN \E i \in mine : SessionRelease(i)
         ELSE UNCHANGED <<slots, slot_lock, active>>
      /\ sessions_lock' = Nobody /\ Finish(t)
      /\ UNCHANGED <<quiet, fault, at>>
    BY ThreadSet DEF Close, Of
<1>2. s \in Sessions /\ sessions_lock = t
    BY <1>1, BusyThread DEF LockInv
<1>3. \A u \in Threads : u # t => pc[u] \notin {"install", "close"}
    BY <1>1, <1>2 DEF LockInv
<1>4. CASE closes
    <2>1. /\ IsActive(table[s]) /\ ~table[s].busy
          /\ table' = [table EXCEPT ![s] = NoSlot]
        BY <1>1, <1>4 DEF CloseStatus, TableClose
    <2>2. /\ WellKept(table') /\ OnlyAt(s, table, table') /\ ~IsActive(table'[s])
          /\ table[s].pending = NoRun
        BY <1>2, <2>1, RemoveCall
    <2>3. ~Reaping(s)
        BY <1>2, <2>1, EntryOrEnded
    <2>4. ~Installing(s)
        BY <1>1, <1>3, ThreadSet DEF Installing
    <2>5. PICK j \in SlotIds : StillIts(j, s)
        BY <1>2, <2>1, <2>4 DEF HoldInv
    <2>6. mine # {}
        BY <2>5 DEF Holding, StillIts
    <2>7. PICK k \in mine : SessionRelease(k)
        BY <1>1, <1>4, <2>6
    <2>8. k \in SlotIds /\ StillIts(k, s) /\ slot_lock[k] = Nobody
        BY <1>4 DEF Holding, StillIts
    <2>9. /\ slots' = [slots EXCEPT ![k] = EmptySlot]
          /\ slot_lock' = [slot_lock EXCEPT ![k] = Nobody]
          /\ active' = IF active > 0 THEN active - 1 ELSE 0
        BY <2>7 DEF SessionRelease, Unlocked
    <2>10. spent' = spent \cup {s}
        BY <1>1, <1>4
    <2> HIDE DEF s, c, mine, closes
    <2>11. Of(t) = s
        BY DEF s
    <2> QED BY <1>1, <1>2, <1>3, <2>2, <2>3, <2>8, <2>9, <2>10, <2>11, ReleaseStep
<1>5. CASE ~closes
    <2>1. UNCHANGED <<table, slots, slot_lock, active, spent, quiet, fault, at>>
        BY <1>1, <1>5
    <2>2. /\ OthersKept(t) /\ pc'[t] = "idle" /\ job'[t] = NoJob
          /\ pc' \in [Threads -> Labels] /\ job' \in [Threads -> Jobs]
        BY <1>1, Ended
    <2>3. TypeOK'
        BY <1>1, <2>1, <2>2 DEF TypeOK
    <2>4. JobInv'
        BY <2>2 DEF JobInv, OthersKept
    <2>5. LockInv'
        <3>1. \A u \in Threads : u # t => pc'[u] = pc[u] /\ job'[u] = job[u] /\ at'[u] = at[u]
            BY <2>2 DEF OthersKept
        <3>2. \A u \in Threads : at[u] \in SlotIds
            BY DEF TypeOK
        <3>3. ASSUME NEW u \in Threads
              PROVE  (/\ pc[u] \in {"install", "close"} <=> sessions_lock = u
                      /\ pc[u] \in Holders => slot_lock[at[u]] = u /\ StillIts(at[u], Of(u)))'
            <4>1. CASE u = t
                BY <1>1, <2>2, <4>1, ThreadSet DEF Holders
            <4>2. CASE u # t
                <5>1. pc'[u] \notin {"install", "close"} /\ sessions_lock' # u
                    BY <1>1, <1>3, <3>1, <4>2, ThreadSet
                <5> QED BY <2>1, <3>1, <3>2, <4>2, <5>1 DEF LockInv, StillIts, Of
            <4> QED BY <4>1, <4>2
        <3>4. (\A i \in SlotIds, u \in Threads :
                 slot_lock[i] = u => at[u] = i /\ pc[u] \in Holders \cup {"abort"})'
            <4>1. \A i \in SlotIds : slot_lock[i] # t
                BY <1>1, NoLock DEF Holders
            <4> QED BY <2>1, <3>1, <4>1 DEF LockInv
        <3>5. (pc[Reaper] = "wait" => StillIts(at[Reaper], Of(Reaper)))'
            BY <2>1, <3>1, <3>2, ThreadSet DEF LockInv, StillIts, Of
        <3> QED BY <3>3, <3>4, <3>5 DEF LockInv
    <2>6. \A r \in Sessions : Reaping(r)' <=> Reaping(r)
        BY <2>2, ReaperKept
    <2>7. job'[t].kind # "run"
        BY <2>2 DEF NoJob
    <2>8. fault' = fault
        BY <2>1
    <2> QED BY <1>1, <2>1, <2>2, <2>3, <2>4, <2>5, <2>6, <2>7, <2>8, WalkStep
<1> QED BY <1>4, <1>5

-----------------------------------------------------------------------------
(* The reaper. *)

\* The table forgets an idle expired session; its slot waits for the reaper.
LEMMA ReapExpiredStep ==
    ASSUME AllNodeInv, NEW s \in Sessions, ReapExpired(s)
    PROVE  AllNodeInv'
<1> USE DEF AllNodeInv
<1> DEFINE taken == [kind |-> "reap", frame |-> [session |-> s]]
<1>1. /\ pc[Reaper] = "idle" /\ Reaper \in Threads
      /\ IsActive(table[s]) /\ ~table[s].busy
      /\ table' = [table EXCEPT ![s] = NoSlot] /\ spent' = spent \cup {s}
      /\ pc' = [pc EXCEPT ![Reaper] = "find"] /\ job' = [job EXCEPT ![Reaper] = taken]
      /\ UNCHANGED <<quiet, slots, slot_lock, sessions_lock, active, fault, at>>
    BY ThreadSet DEF ReapExpired, Reapable, TableReap, Goto
<1>2. /\ WellKept(table') /\ OnlyAt(s, table, table') /\ ~IsActive(table'[s])
      /\ table[s].pending = NoRun /\ table[s].pending_restore = NoTransfer
    BY <1>1, RemoveCall
<1>3. taken \in Jobs /\ taken.kind = "reap" /\ taken.frame.session = s
    BY DEF Jobs
<1> HIDE DEF taken
<1>4. /\ OthersKept(Reaper) /\ pc'[Reaper] = "find" /\ job'[Reaper] = taken
      /\ pc' \in [Threads -> Labels] /\ job' \in [Threads -> Jobs]
    <2>1. at' = [at EXCEPT ![Reaper] = at[Reaper]] /\ at[Reaper] \in SlotIds
        BY <1>1 DEF TypeOK
    <2> QED BY <1>1, <1>3, <2>1, Moved DEF Labels
<1>5. \A u \in Threads : u # Reaper => pc'[u] = pc[u] /\ job'[u] = job[u] /\ at'[u] = at[u]
    BY <1>4 DEF OthersKept
<1>6. \A r \in Sessions : r # s => table'[r] = table[r]
    BY <1>2 DEF OnlyAt
<1>7. ASSUME NEW r \in Sessions
      PROVE  /\ Installing(r)' <=> Installing(r)
             /\ InFlight(r)' <=> InFlight(r)
             /\ ~Reaping(r)
             /\ Reaping(r)' <=> r = s
    <2>1. \A u \in Workers : pc'[u] = pc[u] /\ job'[u] = job[u]
        BY <1>5, ThreadSet
    <2>2. Reaping(r)' <=> r = s
        BY <1>3, <1>4 DEF Reaping
    <2> QED BY <1>1, <2>1, <2>2 DEF Installing, InFlight, Reaping
<1>8. TypeOK'
    BY <1>1, <1>2, <1>4 DEF TypeOK, WellKept
<1>9. JobInv'
    BY <1>3, <1>4, <1>5 DEF JobInv
<1>10. LockInv'
    <2>1. \A u \in Threads : at[u] \in SlotIds
        BY DEF TypeOK
    <2>2. ASSUME NEW u \in Threads
          PROVE  (/\ pc[u] \in {"install", "close"} <=> sessions_lock = u
                  /\ pc[u] \in Holders => slot_lock[at[u]] = u /\ StillIts(at[u], Of(u)))'
        <3>1. CASE u = Reaper
            BY <1>1, <1>4, <3>1 DEF LockInv, Holders
        <3>2. CASE u # Reaper
            BY <1>1, <1>5, <2>1, <3>2 DEF LockInv, StillIts, Of
        <3> QED BY <3>1, <3>2
    <2>3. (\A i \in SlotIds, u \in Threads :
             slot_lock[i] = u => at[u] = i /\ pc[u] \in Holders \cup {"abort"})'
        <3>1. \A i \in SlotIds : slot_lock[i] # Reaper
            BY <1>1, NoLock DEF Holders
        <3> QED BY <1>1, <1>5, <3>1 DEF LockInv
    <2>4. (pc[Reaper] = "wait" => StillIts(at[Reaper], Of(Reaper)))'
        BY <1>4
    <2> QED BY <2>2, <2>3, <2>4 DEF LockInv
<1>11. RunInv'
    <2>1. ASSUME NEW u \in Threads, job'[u].kind = "run"
          PROVE  /\ job'[u] = job[u] /\ Of(u) \in Sessions
                 /\ table'[Of(u)] = table[Of(u)]
        <3>1. u # Reaper /\ job'[u] = job[u]
            BY <1>3, <1>4, <1>5, <2>1
        <3>2. Of(u) \in Sessions /\ table[Of(u)].pending # NoRun
            BY <2>1, <3>1, OneRun
        <3> QED BY <1>2, <1>6, <3>1, <3>2
    <2> QED BY <2>1 DEF RunInv, Of
<1>12. HoldInv'
    <2>1. ASSUME NEW i \in SlotIds
          PROVE  (IF slots[i].used
                  THEN /\ slots[i].id \in Sessions
                       /\ IsActive(table[slots[i].id]) \/ Reaping(slots[i].id)
                  ELSE slots[i] = EmptySlot)'
        <3>1. CASE slots[i].used
            <4>1. slots'[i] = slots[i] /\ slots[i].id \in Sessions /\ IsActive(table[slots[i].id])
                BY <1>1, <1>7, <3>1 DEF HoldInv
            <4>2. CASE slots[i].id = s
                <5>1. Reaping(slots[i].id)'
                    BY <1>3, <1>4, <4>1, <4>2 DEF Reaping
                <5> QED BY <3>1, <4>1, <5>1
            <4>3. CASE slots[i].id # s
                BY <1>6, <3>1, <4>1, <4>3
            <4> QED BY <4>2, <4>3
        <3>2. CASE ~slots[i].used
            BY <1>1, <3>2 DEF HoldInv
        <3> QED BY <3>1, <3>2
    <2>2. (\A i, j \in SlotIds :
             slots[i].used /\ slots[j].used /\ slots[i].id = slots[j].id => i = j)'
        BY <1>1 DEF HoldInv
    <2>3. ASSUME NEW r \in Sessions
          PROVE  (/\ IsActive(table[r]) =>
                       Installing(r) \/ \E i \in SlotIds : StillIts(i, r)
                  /\ IsActive(table[r]) => r \notin spent
                  /\ Reaping(r) => r \in spent)'
        <3>1. \A i \in SlotIds : StillIts(i, r)' <=> StillIts(i, r)
            BY <1>1 DEF StillIts
        <3> QED BY <1>1, <1>2, <1>6, <1>7, <3>1 DEF HoldInv
    <2> QED BY <2>1, <2>2, <2>3 DEF HoldInv
<1>13. InstallInv'
    <2> SUFFICES ASSUME NEW u \in Threads, pc'[u] = "install"
                 PROVE  InstallInv!(u)'
        BY DEF InstallInv
    <2>1. u # Reaper /\ pc[u] = "install" /\ job'[u] = job[u] /\ at'[u] = at[u]
        BY <1>4, <1>5
    <2>2. Of(u) \in Sessions /\ at[u] \in SlotIds
        BY <2>1, BusyThread
    <2>3. ~slots[at[u]].used /\ \A i \in SlotIds : ~StillIts(i, Of(u))
        BY <2>1 DEF InstallInv
    <2>4. /\ IsActive(table[Of(u)])
          /\ table[Of(u)].next_sequence = 0 /\ table[Of(u)].next_position = 0
          /\ table[Of(u)].pending_restore = NoTransfer
        BY <1>7, <2>1, <2>2 DEF InstallInv
    <2>5. Of(u)' = Of(u) /\ slots' = slots
        BY <1>1, <2>1 DEF Of
    <2>6. CASE Of(u) = s
        <3>1. Reaping(Of(u))'
            BY <1>3, <1>4, <2>5, <2>6 DEF Reaping, Of
        <3> QED BY <1>2, <2>1, <2>3, <2>5, <2>6, <3>1 DEF StillIts
    <2>7. CASE Of(u) # s
        <3>1. table'[Of(u)] = table[Of(u)]
            BY <1>6, <2>2, <2>7
        <3> QED BY <2>1, <2>3, <2>4, <2>5, <3>1 DEF StillIts
    <2> QED BY <2>6, <2>7
<1>14. CountInv'
    BY <1>1 DEF CountInv
<1>15. UploadInv'
    <2>1. ASSUME NEW i \in SlotIds, slots'[i].restore # NoTransfer
          PROVE  (/\ slots[i].restore \in TransferFrames
                  /\ IsActive(table[slots[i].id])
                  /\ table[slots[i].id].pending_restore = slots[i].restore)'
        <3>1. slots'[i] = slots[i] /\ slots[i].used /\ slots[i].id \in Sessions
            BY <1>1, <2>1 DEF HoldInv, EmptySlot
        <3>2. slots[i].id # s
            BY <1>2, <2>1, <3>1 DEF UploadInv
        <3> QED BY <1>6, <2>1, <3>1, <3>2 DEF UploadInv
    <2>2. ASSUME NEW r \in Sessions, IsActive(table'[r]),
                 table'[r].pending_restore # NoTransfer
          PROVE  (\E i \in SlotIds : StillIts(i, r)
                                     /\ slots[i].restore = table[r].pending_restore)'
        <3>1. table'[r] = table[r]
            BY <1>2, <1>6, <2>2
        <3> QED BY <1>1, <2>2, <3>1 DEF UploadInv, StillIts
    <2> QED BY <2>1, <2>2 DEF UploadInv
<1>16. PointInv'
    BY <1>1, <1>4, <1>5 DEF PointInv
<1>17. EngineMatchesTable'
    <2> SUFFICES ASSUME NEW i \in SlotIds, slots'[i].used, IsActive(table'[slots'[i].id]),
                        ~fault', ~InFlight(slots[i].id)'
                 PROVE  Stands(slots'[i].engine,
                          [session |-> slots'[i].id,
                           sequence |-> table'[slots'[i].id].next_sequence,
                           position |-> table'[slots'[i].id].next_position])
        BY DEF EngineMatchesTable
    <2>1. slots'[i] = slots[i] /\ slots[i].id \in Sessions
        BY <1>1 DEF HoldInv
    <2>2. table'[slots[i].id] = table[slots[i].id]
        BY <1>2, <1>6, <2>1
    <2>3. ~InFlight(slots[i].id)
        <3>1. \A u \in Workers : pc'[u] = pc[u] /\ job'[u] = job[u]
            BY <1>5, ThreadSet
        <3> QED BY <2>1, <3>1 DEF InFlight
    <2> QED BY <1>1, <2>1, <2>2, <2>3 DEF EngineMatchesTable
<1>18. SnapshotIsOwn'
    BY <1>1 DEF SnapshotIsOwn
<1> QED BY <1>2, <1>8, <1>9, <1>10, <1>11, <1>12, <1>13, <1>14, <1>15, <1>16, <1>17, <1>18

\* The reaper gives back the slot of the session the table forgot.
LEMMA ReapReleaseStep ==
    ASSUME AllNodeInv, ReapRelease
    PROVE  AllNodeInv'
<1> USE DEF AllNodeInv
<1> DEFINE i == at[Reaper]
           s == Of(Reaper)
<1>1. /\ pc[Reaper] = "held" /\ sessions_lock = Nobody /\ Reaper \in Threads
      /\ IF StillIts(i, s) THEN SessionRelease(i)
         ELSE slot_lock' = Unlocked(i) /\ UNCHANGED <<slots, active>>
      /\ Finish(Reaper)
      /\ UNCHANGED <<table, quiet, sessions_lock, fault, at, spent>>
    BY ThreadSet DEF ReapRelease, Of
<1>2. i \in SlotIds /\ s \in Sessions /\ StillIts(i, s) /\ slot_lock[i] = Reaper
    BY <1>1, HolderOf DEF Holders, StillIts
<1>3. /\ slots' = [slots EXCEPT ![i] = EmptySlot]
      /\ slot_lock' = [slot_lock EXCEPT ![i] = Nobody]
      /\ active' = IF active > 0 THEN active - 1 ELSE 0
    BY <1>1, <1>2 DEF SessionRelease, Unlocked
<1>4. Reaping(s)
    BY <1>1 DEF Reaping, Of
<1>5. ~IsActive(table[s])
    BY <1>2, <1>4, EntryOrEnded
<1>6. \A u \in Threads : pc[u] \notin {"install", "close"}
    BY <1>1, ThreadSet DEF LockInv
<1>7. WellKept(table') /\ OnlyAt(s, table, table') /\ ~IsActive(table'[s])
    BY <1>1, <1>5 DEF OnlyAt
<1>8. Of(Reaper) = s
    OBVIOUS
<1> HIDE DEF i, s
<1> QED BY <1>1, <1>2, <1>3, <1>5, <1>6, <1>7, <1>8, ReleaseStep

-----------------------------------------------------------------------------
(* The invariant. *)

LEMMA NodeInit == Init => AllNodeInv
<1> SUFFICES ASSUME Init PROVE AllNodeInv
    OBVIOUS
<1>1. /\ table = [s \in Sessions |-> NoSlot] /\ quiet = FALSE
      /\ slots = [i \in SlotIds |-> EmptySlot]
      /\ slot_lock = [i \in SlotIds |-> Nobody] /\ sessions_lock = Nobody
      /\ active = 0 /\ fault = FALSE /\ spent = {}
      /\ pc = [t \in Threads |-> "idle"] /\ job = [t \in Threads |-> NoJob]
      /\ at = [t \in Threads |-> CHOOSE i \in SlotIds : TRUE]
    BY DEF Init
<1>2. /\ EmptySlot \in NodeSlots /\ ~EmptySlot.used /\ EmptySlot.restore = NoTransfer
      /\ EmptySlot.snapshot = NoSnapshot
    <2>1. NoEngine \in Engines /\ NoSnapshot \in [label : Points, state : Engines]
        BY DEF NoPoint, NoEngine, NoSnapshot, Points, Engines
    <2>2. 0 \in 0..Chunks
        BY NodeConstants
    <2> QED BY <2>1, <2>2 DEF EmptySlot, NodeSlots
<1>3. \A s \in Sessions : table[s] = NoSlot /\ ~IsActive(table[s])
    BY <1>1 DEF IsActive, NoSlot
<1>4. WellKept(table)
    BY <1>1 DEF WellKept, Tables
<1>5. \A i \in SlotIds : slots[i] = EmptySlot /\ slot_lock[i] = Nobody
    BY <1>1
<1>6. \A t \in Threads : pc[t] = "idle" /\ job[t] = NoJob
    BY <1>1
<1>7. TypeOK
    <2>1. (CHOOSE i \in SlotIds : TRUE) \in SlotIds
        BY NodeConstants
    <2>2. pc \in [Threads -> Labels] /\ job \in [Threads -> Jobs]
        BY <1>1 DEF Labels, Jobs
    <2> QED BY <1>1, <1>2, <1>4, <2>1, <2>2 DEF TypeOK, WellKept
<1>8. JobInv
    BY <1>6 DEF JobInv
<1>9. LockInv
    BY <1>1, <1>5, <1>6, ThreadSet DEF LockInv, Holders
<1>10. RunInv
    BY <1>6 DEF RunInv, NoJob
<1>11. HoldInv
    <2>1. \A s \in Sessions : ~Reaping(s)
        BY <1>6, ThreadSet DEF Reaping
    <2> QED BY <1>2, <1>3, <1>5, <2>1 DEF HoldInv
<1>12. InstallInv
    BY <1>6 DEF InstallInv
<1>13. CountInv
    <2>1. {i \in SlotIds : slots[i].used} = {}
        BY <1>2, <1>5
    <2> QED BY <1>1, <2>1, FS_EmptySet DEF CountInv
<1>14. UploadInv
    BY <1>2, <1>3, <1>5 DEF UploadInv
<1>15. PointInv
    BY <1>2, <1>5, <1>6 DEF PointInv
<1>16. EngineMatchesTable /\ SnapshotIsOwn
    BY <1>2, <1>5 DEF EngineMatchesTable, SnapshotIsOwn
<1> QED BY <1>4, <1>7, <1>8, <1>9, <1>10, <1>11, <1>12, <1>13, <1>14, <1>15, <1>16 DEF AllNodeInv

\* The clients' silence changes nothing the node keeps.
LEMMA UntouchedStep ==
    ASSUME AllNodeInv, quiet' \in BOOLEAN,
           UNCHANGED <<table, slots, slot_lock, sessions_lock, active, fault, pc, job, at,
                       spent>>
    PROVE  AllNodeInv'
<1> USE DEF AllNodeInv
<1>1. TypeOK' /\ WellKept(table)' /\ JobInv' /\ LockInv' /\ RunInv' /\ CountInv'
    BY DEF TypeOK, JobInv, LockInv, RunInv, CountInv, Of, StillIts
<1>2. HoldInv' /\ InstallInv'
    BY DEF HoldInv, InstallInv, Of, StillIts, Reaping, Installing
<1>3. UploadInv' /\ PointInv' /\ SnapshotIsOwn'
    BY DEF UploadInv, PointInv, SnapshotIsOwn, StillIts
<1>4. EngineMatchesTable'
    BY DEF EngineMatchesTable, InFlight
<1> QED BY <1>1, <1>2, <1>3, <1>4

LEMMA NodeNext == AllNodeInv /\ [Next \/ FallSilent]_vars => AllNodeInv'
<1> SUFFICES ASSUME AllNodeInv, [Next \/ FallSilent]_vars PROVE AllNodeInv'
    OBVIOUS
<1>1. CASE Elapse
    BY <1>1, ElapseStep
<1>2. CASE ResidencyLost
    BY <1>2, ResidencyLostStep
<1>3. ASSUME NEW t \in Workers, Frame(t)
      PROVE  AllNodeInv'
    <2>1. CASE \E o \in OpenFrames : OpenEnter(t, o)
        BY <2>1, OpenEnterStep
    <2>2. CASE \E run \in RunFrames : RunEnter(t, run)
        BY <2>2, RunEnterStep
    <2>3. CASE \E x \in TransferFrames, k \in 0..(Chunks - 1) : SnapshotEnter(t, x, k)
        BY <2>3, SnapshotEnterStep
    <2>4. CASE \E x \in TransferFrames, k \in 0..(Chunks - 1) : RestoreEnter(t, x, k)
        BY <2>4, RestoreEnterStep
    <2>5. CASE \E c \in CloseFrames : CloseEnter(t, c)
        BY <2>5, CloseEnterStep
    <2> QED BY <1>3, <2>1, <2>2, <2>3, <2>4, <2>5 DEF Frame
<1>4. ASSUME NEW t \in Workers, Proceed(t)
      PROVE  AllNodeInv'
    <2>1. t \in Threads
        BY ThreadSet
    <2>2. CASE Find(t)
        BY <2>1, <2>2, FindStep
    <2>3. CASE LockSlot(t)
        BY <2>1, <2>3, LockSlotStep
    <2>4. CASE OpenInstall(t)
        BY <2>4, OpenInstallStep
    <2>5. CASE AnswerDuplicate(t)
        BY <2>5, AnswerStep DEF AnswerDuplicate
    <2>6. CASE RunAdmit(t)
        BY <2>6, RunAdmitStep
    <2>7. CASE RunExecute(t)
        BY <2>7, RunExecuteStep
    <2>8. CASE RunCommit(t)
        BY <2>8, RunCommitStep
    <2>9. CASE RunAbort(t)
        BY <2>9, RunAbortStep
    <2>10. CASE SnapshotServe(t)
        BY <2>10, SnapshotServeStep
    <2>11. CASE RestoreIgnored(t)
        BY <2>11, RestoreIgnoredStep
    <2>12. CASE RestoreBegin(t)
        BY <2>12, RestoreBeginStep
    <2>13. CASE RestoreChunk(t)
        BY <2>13, RestoreChunkStep
    <2>14. CASE RestoreEnd(t)
        BY <2>14, RestoreEndStep
    <2>15. CASE Close(t)
        BY <2>15, CloseStep
    <2> QED BY <1>4, <2>2, <2>3, <2>4, <2>5, <2>6, <2>7, <2>8, <2>9, <2>10, <2>11, <2>12,
               <2>13, <2>14, <2>15 DEF Proceed
<1>5. CASE Find(Reaper)
    BY <1>5, ThreadSet, FindStep
<1>6. CASE LockSlot(Reaper)
    BY <1>6, ThreadSet, LockSlotStep
<1>7. CASE Reap
    <2>1. CASE Sweep
        BY <2>1, SweepStep
    <2>2. CASE \E s \in Sessions : ReapExpired(s)
        BY <2>2, ReapExpiredStep
    <2>3. CASE ReapRelease
        BY <2>3, ReapReleaseStep
    <2> QED BY <1>7, <2>1, <2>2, <2>3 DEF Reap
<1>8. CASE FallSilent
    BY <1>8, UntouchedStep DEF FallSilent
<1>9. CASE UNCHANGED vars
    <2>1. quiet' \in BOOLEAN
        BY <1>9 DEF vars, AllNodeInv, TypeOK
    <2> QED BY <1>9, <2>1, UntouchedStep DEF vars
<1> QED BY <1>1, <1>2, <1>3, <1>4, <1>5, <1>6, <1>7, <1>8, <1>9 DEF Next

\* Whatever the clients send, in any number and any order, and however the
\* workers and the reaper interleave: with or without the clients' silence.
LEMMA NodeAlways == (Spec => []AllNodeInv) /\ (FairSpec => []AllNodeInv)
<1>1. AllNodeInv /\ [Next]_vars => AllNodeInv'
    BY NodeNext
<1> QED BY <1>1, NodeInit, NodeNext, PTL DEF Spec, FairSpec

-----------------------------------------------------------------------------
(* The properties. *)

\* A session of the table has one slot, or none while it is being installed.
LEMMA OneSlot ==
    ASSUME AllNodeInv, NEW s \in Sessions, IsActive(table[s])
    PROVE  Cardinality(Holding(s)) = (IF Installing(s) THEN 0 ELSE 1)
<1> USE DEF AllNodeInv
<1>1. CASE Installing(s)
    <2>1. PICK t \in Workers : pc[t] = "install" /\ Of(t) = s
        BY <1>1 DEF Installing, Of
    <2>2. Holding(s) = {}
        BY <2>1, ThreadSet DEF InstallInv, Holding, StillIts
    <2> QED BY <1>1, <2>2, FS_EmptySet
<1>2. CASE ~Installing(s)
    <2>1. PICK i \in SlotIds : StillIts(i, s)
        BY <1>2 DEF HoldInv
    <2>2. Holding(s) = {i}
        BY <2>1 DEF HoldInv, Holding, StillIts
    <2> QED BY <1>2, <2>2, FS_Singleton
<1> QED BY <1>1, <1>2

\* The table, the slots, the engines and active_sessions never disagree.
THEOREM SlotsSoundCorrect == Spec => []SlotsSound
<1>1. AllNodeInv => SlotsSound
    <2> SUFFICES ASSUME AllNodeInv PROVE SlotsSound
        OBVIOUS
    <2> USE DEF AllNodeInv
    <2>1. \A s \in Sessions : Holding(s) # {} => IsActive(table[s]) \/ Reaping(s)
        BY DEF HoldInv, Holding
    <2>2. SlotIds \ Empty = {i \in SlotIds : slots[i].used}
        BY DEF Empty
    <2>3. active = Cardinality(SlotIds \ Empty)
        BY <2>2 DEF CountInv
    <2>4. SlotsMatchTable
        BY <2>1, <2>3, OneSlot DEF SlotsMatchTable
    <2> QED BY <2>4 DEF SlotsSound
<1> QED BY <1>1, NodeAlways, PTL

\* An admitted run has its slot, its lock, and the engine where it begins.
THEOREM RunsOnItsStateCorrect == Spec => []RunsOnItsState
<1>1. AllNodeInv => RunsOnItsState
    <2> SUFFICES ASSUME AllNodeInv, NEW t \in Workers
                 PROVE  RunsOnItsState!(t)
        BY DEF RunsOnItsState
    <2> USE DEF AllNodeInv
    <2>1. t \in Threads
        BY ThreadSet
    <2>2. ASSUME job[t].kind = "run"
          PROVE  Holding(Of(t)) # {} \/ Installing(Of(t))
        <3>1. Of(t) \in Sessions /\ IsActive(table[Of(t)])
            BY <2>1, <2>2, RunPoint
        <3> QED BY <3>1 DEF HoldInv, Holding, StillIts
    <2>3. ASSUME pc[t] = "execute"
          PROVE  /\ slot_lock[at[t]] = t /\ slots[at[t]].used
                 /\ Stands(slots[at[t]].engine, Point(job[t].frame))
        BY <2>1, <2>3 DEF LockInv, PointInv, Holders, StillIts
    <2> QED BY <2>2, <2>3 DEF Of
<1> QED BY <1>1, NodeAlways, PTL

\* The two orders in which the locks are taken never meet.
THEOREM NoEmbraceCorrect == Spec => []NoEmbrace
<1>1. AllNodeInv => NoEmbrace
    <2> SUFFICES ASSUME AllNodeInv, NEW t \in Threads, sessions_lock = t, pc[t] = "install",
                        slot_lock[at[t]] # Nobody
                 PROVE  ~WaitsForTable(slot_lock[at[t]])
        BY DEF NoEmbrace, TryReturns
    <2> USE DEF AllNodeInv
    <2> DEFINE u == slot_lock[at[t]]
    <2>1. at[t] \in SlotIds /\ u \in Threads /\ ~slots[at[t]].used
        BY BusyThread DEF TypeOK, InstallInv
    <2>2. at[u] = at[t] /\ pc[u] \in Holders \cup {"abort"}
        BY <2>1 DEF LockInv
    <2>3. pc[u] = "abort"
        BY <2>1, <2>2 DEF LockInv, StillIts
    <2> QED BY <2>1, <2>3 DEF JobInv, WaitsForTable
<1> QED BY <1>1, NodeAlways, PTL
=============================================================================
