------------------------------ MODULE SegTable ------------------------------
(***************************************************************************)
(* LmbSegTable as a state machine: any thread may make any call, in any     *)
(* order, with any frame the codecs let through, while the clock advances.  *)
(* A call is atomic: it holds the table mutex from entry to return.         *)
(*                                                                          *)
(* log is a history variable: what each open session went through since it  *)
(* was opened (runs committed, restores, fences), oldest first.             *)
(***************************************************************************)
EXTENDS SegSession, Sequences

CONSTANTS MaxNow         \* bound on the clock

ASSUME ClockBound == MaxNow \in Nat

VARIABLES table,         \* session id -> slot
          now,           \* the caller's now_ms
          log            \* session id -> transcript (history variable)

vars == <<table, now, log>>

RunEntry(request, run) ==
    [kind |-> "run", request |-> request, owner |-> run.owner,
     sequence |-> run.sequence, position |-> run.position, rows |-> run.rows,
     payload |-> run.payload]
RestoreEntry(x) ==
    [kind |-> "restore", owner |-> x.owner, sequence |-> x.sequence,
     position |-> x.position]
FenceEntry(owner) == [kind |-> "fence", owner |-> owner]

RunEntries == [kind : {"run"}, request : Requests, owner : Owners,
               sequence : Nat, position : Nat, rows : Nat, payload : Payloads]
LogEntries ==
    RunEntries
    \cup [kind : {"restore"}, owner : Owners, sequence : Nat, position : Nat]
    \cup [kind : {"fence"}, owner : Owners]

\* A restore repeated at the very point it established leaves one entry.
Note(s, entry) ==
    log' = IF log[s] # <<>> /\ log[s][Len(log[s])] = entry THEN log
           ELSE [log EXCEPT ![s] = Append(@, entry)]

Init ==
    /\ table = [s \in Sessions |-> NoSlot]
    /\ now = 0
    /\ log = [s \in Sessions |-> <<>>]

Tick ==
    /\ now < MaxNow
    /\ now' = now + 1
    /\ UNCHANGED <<table, log>>

Open(o) ==
    /\ table' = TableOpen(table, o, now)
    /\ UNCHANGED <<now, log>>

RunBegin(run) ==
    /\ table' = TableRunBegin(table, run, now)
    /\ UNCHANGED <<now, log>>

RunCommit(run) ==
    /\ table' = TableRunCommit(table, run, now)
    /\ IF RunEndStatus(table, run) = "OK"
       THEN Note(run.session, RunEntry(run.request, table[run.session].pending))
       ELSE UNCHANGED log
    /\ UNCHANGED now

RunAbort(run) ==
    /\ table' = TableRunAbort(table, run)
    /\ UNCHANGED <<now, log>>

SnapshotCheck(x) ==
    /\ table' = TableSnapshotCheck(table, x, now)
    /\ UNCHANGED <<now, log>>

RestoreCommit(x) ==
    /\ table' = TableRestoreCommit(table, x, now)
    /\ IF RestoreStatus(table, x, now) = "OK"
       THEN Note(x.session, RestoreEntry(x)) ELSE UNCHANGED log
    /\ UNCHANGED now

RestoreBegin(x) ==
    /\ table' = TableRestoreBegin(table, x, now)
    /\ UNCHANGED <<now, log>>

RestoreFinish(x, commit) ==
    /\ table' = TableRestoreFinish(table, x, commit, now)
    /\ IF commit /\ RestoreFinishStatus(table, x) = "OK"
       THEN Note(x.session, RestoreEntry(x)) ELSE UNCHANGED log
    /\ UNCHANGED now

Fence(s, owner) ==
    /\ table' = TableFence(table, s, owner, now)
    /\ IF FenceStatus(table, s, owner, now) = "OK"
       THEN Note(s, FenceEntry(owner)) ELSE UNCHANGED log
    /\ UNCHANGED now

Close(c) ==
    /\ table' = TableClose(table, c)
    /\ log' = IF CloseStatus(table, c) = "OK"
              THEN [log EXCEPT ![c.session] = <<>>] ELSE log
    /\ UNCHANGED now

\* Which expired entry comes first is the hash order's choice.
ReapExpired(s) ==
    /\ Reapable(table[s], now)
    /\ table' = TableReap(table, s)
    /\ log' = [log EXCEPT ![s] = <<>>]
    /\ UNCHANGED now

Next ==
    \/ Tick
    \/ \E o \in Opens : Open(o)
    \/ \E run \in Runs : RunBegin(run) \/ RunCommit(run) \/ RunAbort(run)
    \/ \E x \in Transfers : \/ SnapshotCheck(x)
                            \/ RestoreCommit(x)
                            \/ RestoreBegin(x)
                            \/ \E commit \in BOOLEAN : RestoreFinish(x, commit)
    \/ \E s \in Sessions, owner \in Owners : Fence(s, owner)
    \/ \E c \in Controls : Close(c)
    \/ \E s \in Sessions : ReapExpired(s)

Spec == Init /\ [][Next]_vars

-----------------------------------------------------------------------------
(***************************************************************************)
(* Properties.                                                              *)
(***************************************************************************)
\* Every entry is free or a well-formed slot (LmbSegTable, SegSlot).
TypeOK ==
    /\ table \in Tables
    /\ now \in 0..MaxNow
    /\ log \in [Sessions -> Seq(LogEntries)]

\* A reservation has exactly one holder and is still worth committing: a busy
\* slot is held by one run that continues the session's state under its
\* present owner, or by one restore, never by both, and an idle slot by
\* neither.  run_commit and restore_finish publish without looking at order,
\* deadline or owner again, so this is what makes a commit safe.
ReservationSound ==
    \A s \in ActiveSessions(table) : SlotSound(s, table[s])

\* Nothing is computed beyond the context a session was opened with, and the
\* sequence counter never passes UINT64_MAX, where ++ would wrap it to 0 and
\* readmit old runs.  Three separate checks (RUN codec, payload size, restore)
\* hold this up.
WithinLimits ==
    \A s \in ActiveSessions(table) :
        /\ table[s].next_position <= table[s].shape.context
        /\ table[s].next_sequence <= SeqMax

OnceInOrder(l) ==
    \A i, j \in 1..Len(l) :
        (/\ i < j
         /\ l[i].kind = "run" /\ l[j].kind = "run"
         /\ l[i].owner = l[j].owner)
        => l[i].sequence < l[j].sequence

\* "duplicate requests must never be executed a second time": under one owner
\* a session commits each sequence number at most once and in order, whatever
\* was retried, fenced or restored in between.
AtMostOnce == \A s \in Sessions : OnceInOrder(log[s])

\* Each committed run continues exactly the state the entry before it left:
\* the previous run's end, a restore's point, or the start of the session; no
\* run is committed on a fenced session before its restore.
TranscriptChained ==
    \A s \in Sessions : \A i \in 1..Len(log[s]) :
        LET e == log[s][i] IN
        e.kind = "run" =>
            IF i = 1 THEN e.sequence = 0 /\ e.position = 0
            ELSE LET p == log[s][i - 1] IN
                 /\ p.owner = e.owner
                 /\ \/ /\ p.kind = "run"
                       /\ e.sequence = p.sequence + 1
                       /\ e.position = p.position + p.rows
                    \/ /\ p.kind = "restore"
                       /\ e.sequence = p.sequence
                       /\ e.position = p.position

\* DUPLICATE tells the node to replay a cached answer instead of running: it
\* is said only of a run this session committed, owner, order and payload
\* included.
DuplicateWasCommitted ==
    \A run \in Runs :
        RunBeginStatus(table, run, now) = "DUPLICATE" =>
            \E i \in 1..Len(log[run.session]) :
                log[run.session][i] = RunEntry(run.request, run)

\* The run a retried entry of the transcript stands for.
Retry(s, e) == [session |-> s, request |-> e.request, owner |-> e.owner,
                sequence |-> e.sequence, position |-> e.position,
                rows |-> e.rows, payload |-> e.payload]

\* A lost answer can be asked for again: the last HistorySlots runs since the
\* last fence or restore are recognised as duplicates while the session lives,
\* even while another run holds it.
RecentRunsRecognised ==
    \A s \in ActiveSessions(table) :
        LET n == Len(log[s]) IN
        \A i \in 1..n :
            (/\ i > n - HistorySlots
             /\ \A j \in i..n : log[s][j].kind = "run"
             /\ ~Expired(table[s], now))
            => RunBeginStatus(table, Retry(s, log[s][i]), now) = "DUPLICATE"

\* While a session stays open its owner is only ever replaced by a newer one,
\* and one owner's session is never rewound: what it committed stays
\* committed.  A takeover may rewind, to the point its snapshot was taken.
NoRegress ==
    [][\A s \in ActiveSessions(table) :
        IsActive(table'[s]) => Evolves(table[s], table'[s])]_vars

\* A session in use is not taken away: an entry that is busy neither closes
\* nor expires, and the run or restore that holds it finds it again.
BusyIsKept ==
    [][\A s \in ActiveSessions(table) :
        table[s].busy => IsActive(table'[s])]_vars

\* What a commit relies on without looking again: reservations are sound and
\* nothing passes the context or the last sequence number.
TableSound == TypeOK /\ ReservationSound /\ WithinLimits

\* A replay is told apart from a new run, both ways: a DUPLICATE was committed
\* and a recent run that was committed is a DUPLICATE.
ReplayIsExact == DuplicateWasCommitted /\ RecentRunsRecognised

\* An open session only moves forward and is not taken away from its holder:
\* NoRegress and BusyIsKept.
SessionsAdvance == NoRegress /\ BusyIsKept

-----------------------------------------------------------------------------
\* A small instance for TLC: two one-row runs fill the context of a session.
SmallShapes == {[context |-> 2, max_rows |-> 1, ttl |-> 1, snapshot |-> TRUE]}

\* Request ids are only compared.
Symmetric ==
    {[r \in Requests |-> IF r = x THEN y ELSE IF r = y THEN x ELSE r] : x, y \in Requests}
=============================================================================
