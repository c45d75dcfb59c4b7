--------------------------- MODULE SegTableProofs ---------------------------
(***************************************************************************)
(* Proofs about SegTable for any number of sessions, requests, owners,      *)
(* payloads and shapes, any history length, any SeqMax and any clock bound. *)
(*                                                                          *)
(* The inductive invariant says of each active entry that its fields are    *)
(* typed, within their limits and soundly reserved, and of its transcript   *)
(* that every owner in it is at or before the present one and every run of  *)
(* the present owner lies behind next_sequence.  A second invariant ties    *)
(* the point, the ring of answers and the transcript together: the last     *)
(* entry says where the session stands, every answer kept is of a run in    *)
(* the transcript, and the last HistorySlots runs have theirs kept.  The    *)
(* last part is about SegBuckets, the hash table that the map of sessions   *)
(* stands for.                                                              *)
(***************************************************************************)
EXTENDS SegTable, FiniteSetTheorems, WellFoundedInduction

TableInv ==
    \A s \in Sessions : table[s] = NoSlot \/ SlotInv(s, table[s])

-----------------------------------------------------------------------------
(* Transcripts. *)

\* Every owner in the transcript is at or before the present one, and the runs
\* of the present owner lie behind next_sequence.
LogBelow(slot, l) ==
    \A i \in 1..Len(l) :
        /\ l[i].owner.epoch <= slot.owner.epoch
        /\ l[i].owner.route <= slot.owner.route
        /\ (l[i].kind = "run" /\ l[i].owner = slot.owner)
             => l[i].sequence < slot.next_sequence

Inv ==
    /\ table \in Tables /\ now \in 0..MaxNow
    /\ log \in [Sessions -> Seq(LogEntries)]
    /\ TableInv
    /\ \A s \in Sessions :
         /\ table[s] = NoSlot => log[s] = <<>>
         /\ table[s] # NoSlot => LogBelow(table[s], log[s])
         /\ OnceInOrder(log[s])

\* What a step owes: the invariant and the two action properties.
StepOK ==
    /\ Inv'
    /\ \A s \in ActiveSessions(table) :
         /\ IsActive(table'[s]) => Evolves(table[s], table'[s])
         /\ table[s].busy => IsActive(table'[s])

\* The fields of a transcript entry.
LEMMA LogOwners ==
    ASSUME NEW l \in Seq(LogEntries), NEW i \in 1..Len(l)
    PROVE  /\ l[i].owner \in Owners
           /\ l[i].kind = "run" => l[i].sequence \in Nat
<1>1. l[i] \in LogEntries
    OBVIOUS
<1> QED BY <1>1 DEF LogEntries, RunEntries

\* A slot that evolves stays above its transcript.
LEMMA LogRises ==
    ASSUME NEW s, NEW slot, NEW new, SlotInv(s, slot), SlotInv(s, new),
           Evolves(slot, new), NEW l \in Seq(LogEntries), LogBelow(slot, l)
    PROVE  LogBelow(new, l)
<1> SUFFICES ASSUME NEW i \in 1..Len(l)
             PROVE  /\ l[i].owner.epoch <= new.owner.epoch
                    /\ l[i].owner.route <= new.owner.route
                    /\ (l[i].kind = "run" /\ l[i].owner = new.owner)
                         => l[i].sequence < new.next_sequence
    BY DEF LogBelow
<1>1. l[i].owner \in Owners /\ (l[i].kind = "run" => l[i].sequence \in Nat)
    BY LogOwners
<1>2. slot.owner \in Owners /\ new.owner \in Owners
      /\ slot.next_sequence \in Nat /\ new.next_sequence \in Nat
    BY SlotFields
<1>3. /\ new.owner.epoch >= slot.owner.epoch /\ new.owner.route >= slot.owner.route
      /\ new.owner # slot.owner => \/ new.owner.epoch > slot.owner.epoch
                                  \/ new.owner.route > slot.owner.route
    BY DEF Evolves, Succeeds
<1>4. /\ l[i].owner.epoch <= slot.owner.epoch /\ l[i].owner.route <= slot.owner.route
      /\ (l[i].kind = "run" /\ l[i].owner = slot.owner)
           => l[i].sequence < slot.next_sequence
    BY DEF LogBelow
<1>5. /\ l[i].owner.epoch \in Nat /\ l[i].owner.route \in Nat
      /\ slot.owner.epoch \in Nat /\ slot.owner.route \in Nat
      /\ new.owner.epoch \in Nat /\ new.owner.route \in Nat
    BY <1>1, <1>2, OwnerFields
<1>6. l[i].owner = new.owner => new.owner = slot.owner
    BY <1>3, <1>4, <1>5
<1>7. new.owner = slot.owner => new.next_sequence >= slot.next_sequence
    BY DEF Evolves
<1> QED BY <1>1, <1>2, <1>3, <1>4, <1>5, <1>6, <1>7

\* An entry under the present owner may follow.
LEMMA LogAppend ==
    ASSUME NEW s, NEW new, SlotInv(s, new), NEW l \in Seq(LogEntries),
           LogBelow(new, l), OnceInOrder(l),
           NEW e \in LogEntries, e.owner = new.owner,
           e.kind = "run" =>
             /\ e.sequence < new.next_sequence
             /\ \A i \in 1..Len(l) :
                  (l[i].kind = "run" /\ l[i].owner = e.owner)
                    => l[i].sequence < e.sequence
    PROVE  /\ Append(l, e) \in Seq(LogEntries)
           /\ LogBelow(new, Append(l, e))
           /\ OnceInOrder(Append(l, e))
<1> DEFINE m == Append(l, e)
<1>1. m \in Seq(LogEntries) /\ Len(m) = Len(l) + 1 /\ Len(l) \in Nat
    OBVIOUS
<1>2. \A i \in 1..Len(m) : IF i = Len(l) + 1 THEN m[i] = e
                            ELSE i \in 1..Len(l) /\ m[i] = l[i]
    BY <1>1
<1>3. new.owner.epoch \in Nat /\ new.owner.route \in Nat
    BY SlotFields, OwnerFields
<1> HIDE DEF m
<1>4. LogBelow(new, m)
    BY <1>2, <1>3 DEF LogBelow
<1>5. OnceInOrder(m)
    <2> SUFFICES ASSUME NEW i \in 1..Len(m), NEW j \in 1..Len(m), i < j,
                        m[i].kind = "run", m[j].kind = "run",
                        m[i].owner = m[j].owner
                 PROVE  m[i].sequence < m[j].sequence
        BY DEF OnceInOrder
    <2>1. i \in 1..Len(l) /\ m[i] = l[i]
        BY <1>1, <1>2
    <2>2. CASE j = Len(l) + 1
        BY <1>2, <2>1, <2>2
    <2>3. CASE j # Len(l) + 1
        BY <1>2, <2>1, <2>3 DEF OnceInOrder
    <2> QED BY <2>2, <2>3
<1> QED BY <1>1, <1>4, <1>5 DEF m

-----------------------------------------------------------------------------
(* Steps. *)

\* What the invariant says of one entry of the table.
LEMMA EntryOfTable ==
    ASSUME Inv, NEW s \in Sessions
    PROVE  /\ IsActive(table[s]) <=> table[s] # NoSlot
           /\ IsActive(table[s]) => SlotInv(s, table[s]) /\ LogBelow(table[s], log[s])
           /\ log[s] \in Seq(LogEntries) /\ OnceInOrder(log[s])
           /\ now \in Nat
<1>1. table[s] = NoSlot \/ SlotInv(s, table[s])
    BY DEF Inv, TableInv
<1>2. ~IsActive(NoSlot)
    BY DEF IsActive, NoSlot
<1>3. now \in Nat
    BY ClockBound DEF Inv
<1> QED BY <1>1, <1>2, <1>3, SlotFields DEF Inv

\* A slot does not evolve away from itself.
LEMMA EvolvesRefl ==
    ASSUME NEW s, NEW slot, SlotInv(s, slot), NEW new,
           new.owner = slot.owner, new.next_sequence = slot.next_sequence,
           new.next_position = slot.next_position
    PROVE  Evolves(slot, new)
BY SlotFields, SucceedsRefl DEF Evolves

\* Nothing happens to the table or the transcripts.
LEMMA NoChange ==
    ASSUME Inv, table' = table, log' = log, now' \in 0..MaxNow
    PROVE  StepOK
<1>1. Inv'
    BY DEF Inv, TableInv
<1>2. ASSUME NEW s \in ActiveSessions(table)
      PROVE  Evolves(table[s], table'[s]) /\ IsActive(table'[s])
    <2>1. s \in Sessions /\ SlotInv(s, table[s])
        BY <1>2, EntryOfTable DEF ActiveSessions
    <2> QED BY <1>2, <2>1, EvolvesRefl DEF ActiveSessions
<1> QED BY <1>1, <1>2 DEF StepOK

\* One entry is written and its transcript replaced.
LEMMA EntryWritten ==
    ASSUME Inv, NEW s \in Sessions, NEW new, SlotInv(s, new),
           IsActive(table[s]) => Evolves(table[s], new),
           NEW l \in Seq(LogEntries), LogBelow(new, l), OnceInOrder(l),
           table' = [table EXCEPT ![s] = new], log' = [log EXCEPT ![s] = l],
           now' = now
    PROVE  StepOK
<1>1. table \in [Sessions -> Slots \cup {NoSlot}]
      /\ log \in [Sessions -> Seq(LogEntries)]
    BY DEF Inv, Tables
<1>2. new \in Slots /\ new # NoSlot /\ IsActive(new)
    BY SlotFields
<1>3. table' \in Tables /\ log' \in [Sessions -> Seq(LogEntries)]
    BY <1>1, <1>2 DEF Tables
<1>4. table'[s] = new /\ log'[s] = l
      /\ \A r \in Sessions : r # s => table'[r] = table[r] /\ log'[r] = log[r]
    BY <1>1
<1>5. Inv'
    BY <1>2, <1>3, <1>4 DEF Inv, TableInv
<1>6. ASSUME NEW r \in ActiveSessions(table)
      PROVE  Evolves(table[r], table'[r]) /\ IsActive(table'[r])
    <2>1. r \in Sessions /\ IsActive(table[r]) /\ SlotInv(r, table[r])
        BY <1>6, EntryOfTable DEF ActiveSessions
    <2>2. CASE r = s
        BY <1>2, <1>4, <2>1, <2>2
    <2>3. CASE r # s
        BY <1>4, <2>1, <2>3, EvolvesRefl
    <2> QED BY <2>2, <2>3
<1> QED BY <1>5, <1>6 DEF StepOK

\* ... keeping the transcript ...
LEMMA EntryUpdated ==
    ASSUME Inv, NEW s \in Sessions, IsActive(table[s]), NEW new,
           SlotInv(s, new), Evolves(table[s], new),
           table' = [table EXCEPT ![s] = new], log' = log, now' = now
    PROVE  StepOK
<1>1. SlotInv(s, table[s]) /\ LogBelow(table[s], log[s])
      /\ log[s] \in Seq(LogEntries) /\ OnceInOrder(log[s])
    BY EntryOfTable
<1>2. LogBelow(new, log[s])
    BY <1>1, LogRises
<1>3. log' = [log EXCEPT ![s] = log[s]]
    BY DEF Inv
<1> QED BY <1>1, <1>2, <1>3, EntryWritten

\* ... or with an entry noted.
LEMMA EntryNoted ==
    ASSUME Inv, NEW s \in Sessions, IsActive(table[s]), NEW new,
           SlotInv(s, new), Evolves(table[s], new),
           NEW e \in LogEntries, e.owner = new.owner,
           e.kind = "run" =>
             /\ e.owner = table[s].owner
             /\ e.sequence = table[s].next_sequence
             /\ new.next_sequence = table[s].next_sequence + 1,
           table' = [table EXCEPT ![s] = new], Note(s, e), now' = now
    PROVE  StepOK
<1>1. SlotInv(s, table[s]) /\ LogBelow(table[s], log[s])
      /\ log[s] \in Seq(LogEntries) /\ OnceInOrder(log[s])
    BY EntryOfTable
<1>2. LogBelow(new, log[s])
    BY <1>1, LogRises
<1>3. CASE log' = log
    BY <1>3, EntryUpdated
<1>4. CASE log' = [log EXCEPT ![s] = Append(log[s], e)]
    <2>1. e.kind = "run" =>
            /\ e.sequence < new.next_sequence
            /\ \A i \in 1..Len(log[s]) :
                 (log[s][i].kind = "run" /\ log[s][i].owner = e.owner)
                   => log[s][i].sequence < e.sequence
        BY <1>1, SlotFields DEF LogBelow
    <2>2. /\ Append(log[s], e) \in Seq(LogEntries)
          /\ LogBelow(new, Append(log[s], e))
          /\ OnceInOrder(Append(log[s], e))
        BY <1>1, <1>2, <2>1, LogAppend
    <2> QED BY <1>4, <2>2, EntryWritten
<1> QED BY <1>3, <1>4 DEF Note

\* An idle entry is taken away with its transcript.
LEMMA EntryRemoved ==
    ASSUME Inv, NEW s \in Sessions, IsActive(table[s]), ~table[s].busy,
           table' = [table EXCEPT ![s] = NoSlot],
           log' = [log EXCEPT ![s] = <<>>], now' = now
    PROVE  StepOK
<1>1. table \in [Sessions -> Slots \cup {NoSlot}]
      /\ log \in [Sessions -> Seq(LogEntries)]
    BY DEF Inv, Tables
<1>2. <<>> \in Seq(LogEntries) /\ OnceInOrder(<<>>)
    BY DEF OnceInOrder
<1>3. table' \in Tables /\ log' \in [Sessions -> Seq(LogEntries)]
    BY <1>1, <1>2 DEF Tables
<1>4. table'[s] = NoSlot /\ log'[s] = <<>>
      /\ \A r \in Sessions : r # s => table'[r] = table[r] /\ log'[r] = log[r]
    BY <1>1
<1>5. Inv'
    BY <1>2, <1>3, <1>4 DEF Inv, TableInv
<1>6. ASSUME NEW r \in ActiveSessions(table)
      PROVE  /\ IsActive(table'[r]) => Evolves(table[r], table'[r])
             /\ table[r].busy => IsActive(table'[r])
    <2>1. r \in Sessions /\ IsActive(table[r]) /\ SlotInv(r, table[r])
        BY <1>6, EntryOfTable DEF ActiveSessions
    <2>2. CASE r = s
        <3>1. ~IsActive(NoSlot)
            BY DEF IsActive, NoSlot
        <3> QED BY <1>4, <2>2, <3>1
    <2>3. CASE r # s
        BY <1>4, <2>1, <2>3, EvolvesRefl
    <2> QED BY <2>2, <2>3
<1> QED BY <1>5, <1>6 DEF StepOK

\* seg_touch as a step of its own (DUPLICATE answers, snapshot_check).
LEMMA TouchStep ==
    ASSUME Inv, NEW s \in Sessions, IsActive(table[s]),
           table' = [table EXCEPT ![s] = Touch(table[s], now)],
           log' = log, now' = now
    PROVE  StepOK
<1>1. SlotInv(s, table[s]) /\ now \in Nat
    BY EntryOfTable
<1>2. SlotInv(s, Touch(table[s], now))
    BY <1>1, TouchInv
<1>3. /\ Touch(table[s], now).owner = table[s].owner
      /\ Touch(table[s], now).next_sequence = table[s].next_sequence
      /\ Touch(table[s], now).next_position = table[s].next_position
    BY <1>1, SlotFields DEF Touch, Slots
<1>4. Evolves(table[s], Touch(table[s], now))
    BY <1>1, <1>3, EvolvesRefl
<1> QED BY <1>2, <1>4, EntryUpdated

-----------------------------------------------------------------------------
(* Actions. *)

\* lmb_seg_table_open: a new slot, or the same one answered again.
LEMMA OpenStep ==
    ASSUME Inv, NEW o \in Opens, Open(o)
    PROVE  StepOK
<1> DEFINE s == o.session
           status == OpenStatus(table, o, now)
<1>1. s \in Sessions /\ now \in Nat /\ now' = now /\ log' = log
    BY EntryOfTable DEF Opens, Open
<1>2. CASE status = "OK"
    <2>1. table' = [table EXCEPT ![s] = NewSlot(o, now)]
        BY <1>2 DEF Open, TableOpen
    <2>2. ~IsActive(table[s])
        BY <1>2 DEF OpenStatus, OwnerStatus
    <2>3. log[s] = <<>> /\ log' = [log EXCEPT ![s] = <<>>]
        BY <1>1, <2>2, EntryOfTable DEF Inv
    <2>4. SlotInv(s, NewSlot(o, now))
        BY <1>1, NewSlotInv
    <2>5. <<>> \in Seq(LogEntries) /\ LogBelow(NewSlot(o, now), <<>>)
          /\ OnceInOrder(<<>>)
        BY DEF LogBelow, OnceInOrder
    <2> HIDE DEF s
    <2> QED BY <1>1, <2>1, <2>2, <2>3, <2>4, <2>5, EntryWritten
<1>3. CASE status = "DUPLICATE"
    <2>1. table' = [table EXCEPT ![s] = Touch(table[s], now)]
        BY <1>3 DEF Open, TableOpen
    <2>2. IsActive(table[s])
        BY <1>3 DEF OpenStatus
    <2> QED BY <1>1, <2>1, <2>2, TouchStep
<1>4. CASE status # "OK" /\ status # "DUPLICATE"
    <2>1. table' = table
        BY <1>4 DEF Open, TableOpen
    <2> QED BY <1>1, <2>1, NoChange DEF Inv
<1> QED BY <1>2, <1>3, <1>4

\* lmb_seg_table_run_begin: a reservation in order, or no change.
LEMMA RunBeginStep ==
    ASSUME Inv, NEW run \in Runs, RunBegin(run)
    PROVE  StepOK
<1> DEFINE s == run.session
           slot == table[s]
           status == RunBeginStatus(table, run, now)
           new == [slot EXCEPT !.busy = TRUE, !.pending = run]
<1>1. s \in Sessions /\ now \in Nat /\ now' = now /\ log' = log
    BY EntryOfTable DEF Runs, RunBegin
<1>2. CASE status = "OK"
    <2>1. table' = [table EXCEPT ![s] = new]
        BY <1>2 DEF RunBegin, TableRunBegin
    <2>2. /\ IsActive(slot) /\ ~slot.busy /\ ~slot.needs_restore
          /\ InOrder(slot, run) /\ RunFits(slot.shape, run)
          /\ OwnerStatus(run.owner, slot.owner) = "OK"
        BY <1>2, VerdictRange DEF RunBeginStatus
    <2>3. SlotInv(s, slot)
        BY <1>1, <2>2, EntryOfTable
    <2>4. OwnerRelation(run.owner, slot.owner) = 0
        BY <2>2, RelationRange
    <2>5. SlotInv(s, new)
        BY <2>2, <2>3, <2>4, BeginInv
    <2>6. /\ new.owner = slot.owner
          /\ new.next_sequence = slot.next_sequence
          /\ new.next_position = slot.next_position
        BY <2>3, SlotFields DEF Slots
    <2>7. Evolves(slot, new)
        <3> HIDE DEF new, slot, s
        <3> QED BY <2>3, <2>6, EvolvesRefl
    <2> HIDE DEF new
    <2> QED BY <1>1, <2>1, <2>2, <2>5, <2>7, EntryUpdated
<1>3. CASE status = "DUPLICATE"
    <2>1. table' = [table EXCEPT ![s] = Touch(table[s], now)]
        BY <1>3 DEF RunBegin, TableRunBegin
    <2>2. IsActive(table[s])
        BY <1>3 DEF RunBeginStatus
    <2> QED BY <1>1, <2>1, <2>2, TouchStep
<1>4. CASE status # "OK" /\ status # "DUPLICATE"
    <2>1. table' = table
        BY <1>4 DEF RunBegin, TableRunBegin
    <2> QED BY <1>1, <2>1, NoChange DEF Inv
<1> QED BY <1>2, <1>3, <1>4

\* lmb_seg_table_run_commit: the reserved run is appended to the transcript.
LEMMA RunCommitStep ==
    ASSUME Inv, NEW run \in Runs, RunCommit(run)
    PROVE  StepOK
<1> DEFINE s == run.session
           slot == table[s]
           new == CommittedSlot(slot, run, now)
           e == RunEntry(run.request, slot.pending)
<1>1. s \in Sessions /\ now \in Nat /\ now' = now
    BY EntryOfTable DEF Runs, RunCommit
<1>2. CASE RunEndStatus(table, run) = "OK"
    <2>1. table' = [table EXCEPT ![s] = new] /\ Note(s, e)
        BY <1>2 DEF RunCommit, TableRunCommit
    <2>2. IsActive(slot) /\ slot.busy /\ RunSame(slot.pending, run)
        BY <1>2 DEF RunEndStatus
    <2>3. SlotInv(s, slot)
        BY <1>1, <2>2, EntryOfTable
    <2>4. /\ SlotInv(s, new) /\ new.owner = slot.owner
          /\ new.next_sequence = slot.next_sequence + 1
          /\ new.next_position >= slot.next_position
        BY <1>1, <2>2, <2>3, CommitInv
    <2>5. /\ HeldByRun(slot) /\ slot.pending \in Runs
        BY <2>2, <2>3, SameRun
    <2>6. /\ slot.pending.owner = slot.owner
          /\ slot.pending.sequence = slot.next_sequence
        BY <2>3, <2>5 DEF SlotInv, SlotSound, InOrder
    <2>7. e \in LogEntries
        <3>1. /\ slot.pending.rows \in Nat /\ slot.pending.position \in Nat
              /\ slot.pending.sequence \in Nat
            BY <2>5, RunFields
        <3>2. e \in RunEntries
            BY <2>5, <3>1 DEF RunEntry, RunEntries, Runs
        <3> QED BY <3>2 DEF LogEntries
    <2>8. e.kind = "run" /\ e.owner = slot.owner /\ e.sequence = slot.next_sequence
        BY <2>6 DEF RunEntry
    <2>9. Evolves(slot, new)
        <3>1. slot.owner \in Owners /\ slot.next_sequence \in Nat
            BY <2>3, SlotFields
        <3> HIDE DEF new, slot, s
        <3> QED BY <2>4, <3>1, SucceedsRefl DEF Evolves
    <2> HIDE DEF new, e
    <2> QED BY <1>1, <2>1, <2>2, <2>4, <2>7, <2>8, <2>9, EntryNoted
<1>3. CASE RunEndStatus(table, run) # "OK"
    <2>1. table' = table /\ log' = log
        BY <1>3 DEF RunCommit, TableRunCommit
    <2> QED BY <1>1, <2>1, NoChange DEF Inv
<1> QED BY <1>2, <1>3

\* lmb_seg_table_run_abort: the reservation is dropped.
LEMMA RunAbortStep ==
    ASSUME Inv, NEW run \in Runs, RunAbort(run)
    PROVE  StepOK
<1> DEFINE s == run.session
           slot == table[s]
           new == [slot EXCEPT !.busy = FALSE, !.pending = NoRun]
<1>1. s \in Sessions /\ now' = now /\ log' = log
    BY DEF Runs, RunAbort
<1>2. CASE RunEndStatus(table, run) = "OK"
    <2>1. table' = [table EXCEPT ![s] = new]
        BY <1>2 DEF RunAbort, TableRunAbort
    <2>2. IsActive(slot) /\ slot.busy /\ RunSame(slot.pending, run)
        BY <1>2 DEF RunEndStatus
    <2>3. SlotInv(s, slot)
        BY <1>1, <2>2, EntryOfTable
    <2>4. HeldByRun(slot)
        BY <2>2, <2>3, SameRun
    <2>5. SlotInv(s, new)
        BY <1>1, <2>3, <2>4, AbortInv
    <2>6. /\ new.owner = slot.owner
          /\ new.next_sequence = slot.next_sequence
          /\ new.next_position = slot.next_position
        BY <2>3, SlotFields DEF Slots
    <2>7. Evolves(slot, new)
        <3> HIDE DEF new, slot, s
        <3> QED BY <2>3, <2>6, EvolvesRefl
    <2> HIDE DEF new
    <2> QED BY <1>1, <2>1, <2>2, <2>5, <2>7, EntryUpdated
<1>3. CASE RunEndStatus(table, run) # "OK"
    <2>1. table' = table
        BY <1>3 DEF RunAbort, TableRunAbort
    <2> QED BY <1>1, <2>1, NoChange DEF Inv
<1> QED BY <1>2, <1>3

\* lmb_seg_table_snapshot_check: only the deadline moves.
LEMMA SnapshotStep ==
    ASSUME Inv, NEW x \in Transfers, SnapshotCheck(x)
    PROVE  StepOK
<1>1. x.session \in Sessions /\ now' = now /\ log' = log
    BY TransferFields DEF SnapshotCheck
<1>2. CASE SnapshotStatus(table, x, now) = "OK"
    <2>1. /\ table' = [table EXCEPT ![x.session] = Touch(table[x.session], now)]
          /\ IsActive(table[x.session])
        BY <1>2 DEF SnapshotCheck, TableSnapshotCheck, SnapshotStatus
    <2> QED BY <1>1, <2>1, TouchStep
<1>3. CASE SnapshotStatus(table, x, now) # "OK"
    <2>1. table' = table
        BY <1>3 DEF SnapshotCheck, TableSnapshotCheck
    <2> QED BY <1>1, <2>1, NoChange DEF Inv
<1> QED BY <1>2, <1>3

\* A published restore evolves the slot it replaces.
LEMMA RestoreEvolves ==
    ASSUME NEW s, NEW slot, SlotInv(s, slot), NEW x \in Transfers,
           OwnerRelation(x.owner, slot.owner) \in {0, 1},
           x.owner = slot.owner => ~RestoreRewinds(slot, x),
           NEW new, new.owner = x.owner, new.next_sequence = x.sequence,
           new.next_position = x.position
    PROVE  Evolves(slot, new)
<1>1. slot.next_sequence \in Nat /\ slot.next_position \in Nat
      /\ x.sequence \in Nat /\ x.position \in Nat
    BY SlotFields, TransferFields
<1>2. Succeeds(x.owner, slot.owner)
    BY SlotFields, TransferFields, NotOlder
<1> QED BY <1>1, <1>2 DEF Evolves, RestoreRewinds

\* What a restore leaves in the transcript.
LEMMA RestoreEntryType ==
    ASSUME NEW x \in Transfers
    PROVE  RestoreEntry(x) \in LogEntries /\ RestoreEntry(x).owner = x.owner
           /\ RestoreEntry(x).kind # "run"
BY TransferFields DEF RestoreEntry, LogEntries

\* lmb_seg_table_restore_commit: one owner never rewinds.
LEMMA RestoreCommitStep ==
    ASSUME Inv, NEW x \in Transfers, RestoreCommit(x)
    PROVE  StepOK
<1> DEFINE s == x.session
           slot == table[s]
           mid == RestoredSlot(slot, x)
           new == Touch(mid, now)
<1>1. s \in Sessions /\ now \in Nat /\ now' = now
    BY TransferFields, EntryOfTable DEF RestoreCommit
<1>2. CASE RestoreStatus(table, x, now) = "OK"
    <2>1. table' = [table EXCEPT ![s] = new] /\ Note(s, RestoreEntry(x))
        BY <1>2 DEF RestoreCommit, TableRestoreCommit
    <2>2. /\ IsActive(slot) /\ ~slot.busy /\ RestorePointOk(slot, x)
          /\ OwnerRelation(x.owner, slot.owner) \in {0, 1}
          /\ OwnerRelation(x.owner, slot.owner) = 0 => ~RestoreRewinds(slot, x)
        BY <1>2, RestoreAdmitted
    <2>3. SlotInv(s, slot) /\ slot.owner \in Owners /\ x.owner \in Owners
        BY <1>1, <2>2, EntryOfTable, SlotFields, TransferFields
    <2>4. /\ SlotInv(s, mid) /\ mid.owner = x.owner
          /\ mid.next_sequence = x.sequence /\ mid.next_position = x.position
        BY <2>2, <2>3, RestoredInv
    <2> HIDE DEF mid
    <2>5. SlotInv(s, new)
        BY <1>1, <2>4, TouchInv
    <2>6. /\ new.owner = x.owner /\ new.next_sequence = x.sequence
          /\ new.next_position = x.position
        BY <2>4, SlotFields, TouchFields
    <2> HIDE DEF new
    <2>7. x.owner = slot.owner => ~RestoreRewinds(slot, x)
        BY <2>2, <2>3, SameOwner
    <2>8. Evolves(slot, new)
        BY <2>2, <2>3, <2>6, <2>7, RestoreEvolves
    <2> QED BY <1>1, <2>1, <2>2, <2>5, <2>6, <2>8, RestoreEntryType, EntryNoted
<1>3. CASE RestoreStatus(table, x, now) # "OK"
    <2>1. table' = table /\ log' = log
        BY <1>3 DEF RestoreCommit, TableRestoreCommit
    <2> QED BY <1>1, <2>1, NoChange DEF Inv
<1> QED BY <1>2, <1>3

\* lmb_seg_table_restore_begin: the upload reserves the session.
LEMMA RestoreBeginStep ==
    ASSUME Inv, NEW x \in Transfers, RestoreBegin(x)
    PROVE  StepOK
<1> DEFINE s == x.session
           slot == table[s]
           mid == [slot EXCEPT !.busy = TRUE, !.pending_restore = x]
           new == Touch(mid, now)
<1>1. s \in Sessions /\ now \in Nat /\ now' = now /\ log' = log
    BY TransferFields, EntryOfTable DEF RestoreBegin
<1>2. CASE RestoreStatus(table, x, now) = "OK"
    <2>1. table' = [table EXCEPT ![s] = new]
        BY <1>2 DEF RestoreBegin, TableRestoreBegin
    <2>2. /\ IsActive(slot) /\ ~slot.busy /\ RestorePointOk(slot, x)
          /\ OwnerRelation(x.owner, slot.owner) \in {0, 1}
          /\ OwnerRelation(x.owner, slot.owner) = 0 => ~RestoreRewinds(slot, x)
        BY <1>2, RestoreAdmitted
    <2>3. SlotInv(s, slot)
        BY <1>1, <2>2, EntryOfTable
    <2>4. SlotInv(s, mid)
        BY <2>2, <2>3, RestoreBeginInv
    <2>5. /\ mid.owner = slot.owner
          /\ mid.next_sequence = slot.next_sequence
          /\ mid.next_position = slot.next_position
        BY <2>3, SlotFields DEF Slots
    <2> HIDE DEF mid
    <2>6. SlotInv(s, new)
        BY <1>1, <2>4, TouchInv
    <2>7. /\ new.owner = slot.owner
          /\ new.next_sequence = slot.next_sequence
          /\ new.next_position = slot.next_position
        BY <2>4, <2>5, SlotFields, TouchFields
    <2> HIDE DEF new
    <2>8. Evolves(slot, new)
        BY <2>3, <2>7, EvolvesRefl
    <2> QED BY <1>1, <2>1, <2>2, <2>6, <2>8, EntryUpdated
<1>3. CASE RestoreStatus(table, x, now) # "OK"
    <2>1. table' = table
        BY <1>3 DEF RestoreBegin, TableRestoreBegin
    <2> QED BY <1>1, <2>1, NoChange DEF Inv
<1> QED BY <1>2, <1>3

\* lmb_seg_table_restore_finish: the upload is published or dropped.
LEMMA RestoreFinishStep ==
    ASSUME Inv, NEW x \in Transfers, NEW commit \in BOOLEAN,
           RestoreFinish(x, commit)
    PROVE  StepOK
<1> DEFINE s == x.session
           slot == table[s]
           idle == [slot EXCEPT !.busy = FALSE, !.pending_restore = NoTransfer]
<1>1. s \in Sessions /\ now \in Nat /\ now' = now
    BY TransferFields, EntryOfTable DEF RestoreFinish
<1>2. CASE RestoreFinishStatus(table, x) = "OK"
    <2>1. IsActive(slot) /\ slot.busy /\ RestoreSame(slot.pending_restore, x)
        BY <1>2 DEF RestoreFinishStatus
    <2>2. SlotInv(s, slot)
        BY <1>1, <2>1, EntryOfTable
    <2>3. /\ SlotInv(s, idle) /\ ~idle.busy /\ idle.owner = slot.owner
          /\ idle.next_sequence = slot.next_sequence
          /\ idle.next_position = slot.next_position
          /\ RestorePointOk(idle, x)
          /\ OwnerRelation(x.owner, slot.owner) \in {0, 1}
          /\ x.owner = slot.owner => ~RestoreRewinds(slot, x)
        BY <2>1, <2>2, FinishInv
    <2>4. CASE commit
        <3> DEFINE mid == RestoredSlot(idle, x)
                   new == Touch(mid, now)
        <3>1. table' = [table EXCEPT ![s] = new] /\ Note(s, RestoreEntry(x))
            BY <1>2, <2>4 DEF RestoreFinish, TableRestoreFinish
        <3> HIDE DEF idle
        <3>2. /\ SlotInv(s, mid) /\ mid.owner = x.owner
              /\ mid.next_sequence = x.sequence /\ mid.next_position = x.position
            BY <2>3, RestoredInv
        <3> HIDE DEF mid
        <3>3. SlotInv(s, new)
            BY <1>1, <3>2, TouchInv
        <3>4. /\ new.owner = x.owner /\ new.next_sequence = x.sequence
              /\ new.next_position = x.position
            BY <3>2, SlotFields, TouchFields
        <3> HIDE DEF new
        <3>5. Evolves(slot, new)
            BY <2>2, <2>3, <3>4, RestoreEvolves
        <3> QED BY <1>1, <2>1, <3>1, <3>3, <3>4, <3>5, RestoreEntryType, EntryNoted
    <2>5. CASE ~commit
        <3> DEFINE new == Touch(idle, now)
        <3>1. table' = [table EXCEPT ![s] = new] /\ log' = log
            BY <1>2, <2>5 DEF RestoreFinish, TableRestoreFinish
        <3> HIDE DEF idle
        <3>2. SlotInv(s, new)
            BY <1>1, <2>3, TouchInv
        <3>3. /\ new.owner = slot.owner
              /\ new.next_sequence = slot.next_sequence
              /\ new.next_position = slot.next_position
            BY <2>3, SlotFields, TouchFields
        <3> HIDE DEF new
        <3>4. Evolves(slot, new)
            BY <2>2, <3>3, EvolvesRefl
        <3> QED BY <1>1, <2>1, <3>1, <3>2, <3>4, EntryUpdated
    <2> QED BY <2>4, <2>5
<1>3. CASE RestoreFinishStatus(table, x) # "OK"
    <2>1. table' = table /\ log' = log
        BY <1>3 DEF RestoreFinish, TableRestoreFinish
    <2> QED BY <1>1, <2>1, NoChange DEF Inv
<1> QED BY <1>2, <1>3

\* lmb_seg_table_fence: a newer owner takes an idle session.
LEMMA FenceStep ==
    ASSUME Inv, NEW s \in Sessions, NEW owner \in Owners, Fence(s, owner)
    PROVE  StepOK
<1> DEFINE slot == table[s]
           mid == FencedSlot(slot, owner)
           new == Touch(mid, now)
           e == FenceEntry(owner)
<1>1. now \in Nat /\ now' = now
    BY EntryOfTable DEF Fence
<1>2. CASE FenceStatus(table, s, owner, now) = "OK"
    <2>1. table' = [table EXCEPT ![s] = new] /\ Note(s, e)
        BY <1>2 DEF Fence, TableFence
    <2>2. IsActive(slot) /\ ~slot.busy /\ OwnerRelation(owner, slot.owner) = 1
        BY <1>2, RelationRange DEF FenceStatus
    <2>3. SlotInv(s, slot) /\ slot.owner \in Owners
        BY <2>2, EntryOfTable, SlotFields
    <2>4. /\ SlotInv(s, mid) /\ mid.owner = owner
          /\ mid.next_sequence = slot.next_sequence
          /\ mid.next_position = slot.next_position
        BY <2>2, <2>3, FenceInv
    <2> HIDE DEF mid
    <2>5. SlotInv(s, new)
        BY <1>1, <2>4, TouchInv
    <2>6. /\ new.owner = owner
          /\ new.next_sequence = slot.next_sequence
          /\ new.next_position = slot.next_position
        BY <2>4, SlotFields, TouchFields
    <2> HIDE DEF new
    <2>7. Evolves(slot, new)
        <3>1. owner # slot.owner
            BY <2>2, <2>3, SameOwner
        <3>2. Succeeds(owner, slot.owner)
            BY <2>2, <2>3, SlotFields, NotOlder
        <3> QED BY <2>6, <3>1, <3>2 DEF Evolves
    <2>8. e \in LogEntries /\ e.owner = owner /\ e.kind # "run"
        BY DEF FenceEntry, LogEntries
    <2> HIDE DEF e
    <2> QED BY <1>1, <2>1, <2>2, <2>5, <2>6, <2>7, <2>8, EntryNoted
<1>3. CASE FenceStatus(table, s, owner, now) # "OK"
    <2>1. table' = table /\ log' = log
        BY <1>3 DEF Fence, TableFence
    <2> QED BY <1>1, <2>1, NoChange DEF Inv
<1> QED BY <1>2, <1>3

\* lmb_seg_table_close: only an idle session leaves.
LEMMA CloseStep ==
    ASSUME Inv, NEW c \in Controls, Close(c)
    PROVE  StepOK
<1>1. c.session \in Sessions /\ now' = now
    BY DEF Controls, Close
<1>2. CASE CloseStatus(table, c) = "OK"
    <2>1. /\ table' = [table EXCEPT ![c.session] = NoSlot]
          /\ log' = [log EXCEPT ![c.session] = <<>>]
        BY <1>2 DEF Close, TableClose
    <2>2. IsActive(table[c.session]) /\ ~table[c.session].busy
        BY <1>2 DEF CloseStatus
    <2> QED BY <1>1, <2>1, <2>2, EntryRemoved
<1>3. CASE CloseStatus(table, c) # "OK"
    <2>1. table' = table /\ log' = log
        BY <1>3 DEF Close, TableClose
    <2> QED BY <1>1, <2>1, NoChange DEF Inv
<1> QED BY <1>2, <1>3

\* lmb_seg_table_reap_expired: only an idle session expires.
LEMMA ReapStep ==
    ASSUME Inv, NEW s \in Sessions, ReapExpired(s)
    PROVE  StepOK
BY EntryRemoved DEF ReapExpired, Reapable, TableReap

\* Time passing changes no entry.
LEMMA TickStep ==
    ASSUME Inv, Tick
    PROVE  StepOK
<1>1. now' \in 0..MaxNow /\ table' = table /\ log' = log
    BY ClockBound DEF Inv, Tick
<1> QED BY <1>1, NoChange

-----------------------------------------------------------------------------
(* Theorems. *)

\* lmb_seg_table_create leaves an empty table.
LEMMA InitInv == Init => Inv
<1> SUFFICES ASSUME Init PROVE Inv
    OBVIOUS
<1>1. table \in Tables /\ now \in 0..MaxNow
      /\ log \in [Sessions -> Seq(LogEntries)]
    BY ClockBound DEF Init, Tables
<1> QED BY <1>1 DEF Init, Inv, TableInv, OnceInOrder

\* Every call keeps the invariant and both action properties.
LEMMA NextStep == Inv /\ [Next]_vars => StepOK
<1> SUFFICES ASSUME Inv, [Next]_vars PROVE StepOK
    OBVIOUS
<1>1. CASE Tick
    BY <1>1, TickStep
<1>2. ASSUME NEW o \in Opens, Open(o) PROVE StepOK
    BY <1>2, OpenStep
<1>3. ASSUME NEW run \in Runs, RunBegin(run) \/ RunCommit(run) \/ RunAbort(run)
      PROVE  StepOK
    BY <1>3, RunBeginStep, RunCommitStep, RunAbortStep
<1>4. ASSUME NEW x \in Transfers,
             SnapshotCheck(x) \/ RestoreCommit(x) \/ RestoreBegin(x)
      PROVE  StepOK
    BY <1>4, SnapshotStep, RestoreCommitStep, RestoreBeginStep
<1>5. ASSUME NEW x \in Transfers, NEW commit \in BOOLEAN,
             RestoreFinish(x, commit)
      PROVE  StepOK
    BY <1>5, RestoreFinishStep
<1>6. ASSUME NEW s \in Sessions, NEW owner \in Owners, Fence(s, owner)
      PROVE  StepOK
    BY <1>6, FenceStep
<1>7. ASSUME NEW c \in Controls, Close(c) PROVE StepOK
    BY <1>7, CloseStep
<1>8. ASSUME NEW s \in Sessions, ReapExpired(s) PROVE StepOK
    BY <1>8, ReapStep
<1>9. CASE UNCHANGED vars
    BY <1>9, NoChange DEF vars, Inv
<1> QED BY <1>1, <1>2, <1>3, <1>4, <1>5, <1>6, <1>7, <1>8, <1>9 DEF Next

\* The invariant holds in every behaviour.
LEMMA InvAlways == Spec => []Inv
<1>1. Inv /\ [Next]_vars => Inv'
    BY NextStep DEF StepOK
<1> QED BY <1>1, InitInv, PTL DEF Spec

\* Every reachable table is well typed, whatever calls are made on it.
THEOREM TypeCorrect == Spec => []TypeOK
<1>1. Inv => TypeOK
    BY DEF Inv, TypeOK
<1> QED BY <1>1, InvAlways, PTL

\* A busy slot has one holder and what it holds may still be published:
\* lmb_seg_table_run_commit and _restore_finish need no further check.
THEOREM ReservationCorrect == Spec => []ReservationSound
<1>1. Inv => ReservationSound
    <2> SUFFICES ASSUME Inv, NEW s \in ActiveSessions(table)
                 PROVE  SlotSound(s, table[s])
        BY DEF ReservationSound
    <2> QED BY EntryOfTable DEF ActiveSessions, SlotInv
<1> QED BY <1>1, InvAlways, PTL

\* No session passes its context or the last sequence number.
THEOREM LimitsCorrect == Spec => []WithinLimits
<1>1. Inv => WithinLimits
    <2> SUFFICES ASSUME Inv, NEW s \in ActiveSessions(table)
                 PROVE  /\ table[s].next_position <= table[s].shape.context
                        /\ table[s].next_sequence <= SeqMax
        BY DEF WithinLimits
    <2> QED BY EntryOfTable DEF ActiveSessions, SlotInv
<1> QED BY <1>1, InvAlways, PTL

\* "duplicate requests must never be executed a second time": one owner
\* commits each sequence number at most once, in order.
THEOREM AtMostOnceCorrect == Spec => []AtMostOnce
<1>1. Inv => AtMostOnce
    BY DEF Inv, AtMostOnce
<1> QED BY <1>1, InvAlways, PTL

\* Owners only move forward and no owner's session is rewound.
THEOREM NoRegressCorrect == Spec => NoRegress
<1>1. Inv /\ [Next]_vars =>
        [\A s \in ActiveSessions(table) :
            IsActive(table'[s]) => Evolves(table[s], table'[s])]_vars
    BY NextStep DEF StepOK
<1> QED BY <1>1, InvAlways, PTL DEF Spec, NoRegress

\* A busy session is neither closed nor reaped.
THEOREM BusyIsKeptCorrect == Spec => BusyIsKept
<1>1. Inv /\ [Next]_vars =>
        [\A s \in ActiveSessions(table) :
            table[s].busy => IsActive(table'[s])]_vars
    BY NextStep DEF StepOK
<1> QED BY <1>1, InvAlways, PTL DEF Spec, BusyIsKept

\* What a commit relies on holds for any instance.
THEOREM TableSoundCorrect == Spec => []TableSound
BY TypeCorrect, ReservationCorrect, LimitsCorrect, PTL DEF TableSound

\* No step rewinds an owner's session or takes a busy one away.
THEOREM SessionsAdvanceCorrect == Spec => SessionsAdvance
BY NoRegressCorrect, BusyIsKeptCorrect, PTL DEF SessionsAdvance

-----------------------------------------------------------------------------
(* The transcript decides where a session stands and what its ring holds.    *)

HistoryIndices == 0..(HistorySlots - 1)

ChainedAt(l, i) ==
    LET e == l[i] IN
    e.kind = "run" =>
        IF i = 1 THEN e.sequence = 0 /\ e.position = 0
        ELSE LET p == l[i - 1] IN
             /\ p.owner = e.owner
             /\ \/ /\ p.kind = "run"
                   /\ e.sequence = p.sequence + 1
                   /\ e.position = p.position + p.rows
                \/ /\ p.kind = "restore"
                   /\ e.sequence = p.sequence
                   /\ e.position = p.position

Chained(l) == \A i \in 1..Len(l) : ChainedAt(l, i)

\* Where the last entry of a transcript leaves its session.
LeavesAt(e, slot) ==
    /\ e.owner = slot.owner
    /\ e.kind = "run" => /\ slot.next_sequence = e.sequence + 1
                         /\ slot.next_position = e.position + e.rows
    /\ e.kind = "restore" => /\ slot.next_sequence = e.sequence
                             /\ slot.next_position = e.position
    /\ e.kind = "fence" => slot.needs_restore

StandsAfter(slot, l) ==
    IF l = <<>> THEN slot.next_sequence = 0 /\ slot.next_position = 0
    ELSE LeavesAt(l[Len(l)], slot)

\* The ring entry a run of the transcript leaves.
KeptAnswer(s, e) ==
    [request |-> e.request, sequence |-> e.sequence, position |-> e.position,
     rows |-> e.rows, digest |-> Digest(Retry(s, e))]

RunsFrom(l, k) == \A j \in k..Len(l) : l[j].kind = "run"

\* Where the ring keeps the answer that age others have followed.
Place(slot, age) ==
    IF age < slot.history_next THEN slot.history_next - 1 - age
    ELSE slot.history_next - 1 - age + HistorySlots

\* Every answer kept is of a run in the transcript ...
AnswersCommitted(s, slot, l) ==
    \A i \in HistoryIndices :
        \/ slot.history[i] = NoEntry
        \/ \E j \in 1..Len(l) :
             l[j].kind = "run" /\ slot.history[i] = KeptAnswer(s, l[j])

\* ... no two answers, nor the run in progress, share a request ...
RequestsDistinct(slot) ==
    /\ \A i, j \in HistoryIndices :
         slot.history[i].request = slot.history[j].request
           => i = j \/ slot.history[i].request = ZeroId
    /\ HeldByRun(slot) =>
         \A i \in HistoryIndices : slot.history[i].request # slot.pending.request

\* ... and the last HistorySlots runs since a fence or restore are all kept.
RecentKept(s, slot, l) ==
    \A k \in 1..Len(l) :
        (k + HistorySlots > Len(l) /\ RunsFrom(l, k)) =>
            /\ slot.history[Place(slot, Len(l) - k)] = KeptAnswer(s, l[k])
            /\ l[k].owner = slot.owner
            /\ RunFits(slot.shape, l[k])

ReplayInv(s, slot, l) ==
    /\ Chained(l)
    /\ StandsAfter(slot, l)
    /\ AnswersCommitted(s, slot, l)
    /\ RequestsDistinct(slot)
    /\ RecentKept(s, slot, l)

AllReplayInv ==
    \A s \in Sessions : table[s] = NoSlot \/ ReplayInv(s, table[s], log[s])

\* The ring's places.
LEMMA PlaceRange ==
    ASSUME NEW slot \in Slots, NEW age \in HistoryIndices
    PROVE  Place(slot, age) \in HistoryIndices
<1>1. slot.history_next \in HistoryIndices /\ HistorySlots \in Nat
    BY SegConstants DEF Slots, HistoryIndices
<1> QED BY <1>1 DEF Place, HistoryIndices

\* Advancing the ring by one wraps at its end.
LEMMA RingNext ==
    ASSUME NEW h \in HistoryIndices
    PROVE  (h + 1) % HistorySlots = IF h + 1 = HistorySlots THEN 0 ELSE h + 1
<1>1. HistorySlots \in Nat \ {0} /\ h \in Nat /\ h < HistorySlots
    BY SegConstants DEF HistoryIndices
<1>2. CASE h + 1 = HistorySlots
    BY <1>1, <1>2
<1>3. CASE h + 1 # HistorySlots
    BY <1>1, <1>3
<1> QED BY <1>2, <1>3

\* After one more answer every kept answer is one older and in its old place;
\* the newest is where the ring stood, and no kept answer was there.
LEMMA PlaceAfterCommit ==
    ASSUME NEW slot \in Slots, NEW new \in Slots,
           new.history_next = (slot.history_next + 1) % HistorySlots,
           NEW age \in HistoryIndices
    PROVE  /\ age = 0 => Place(new, age) = slot.history_next
           /\ age > 0 => /\ Place(new, age) = Place(slot, age - 1)
                         /\ Place(slot, age - 1) # slot.history_next
<1>1. slot.history_next \in HistoryIndices
    BY DEF Slots, HistoryIndices
<1>2. new.history_next = IF slot.history_next + 1 = HistorySlots THEN 0
                         ELSE slot.history_next + 1
    BY <1>1, RingNext
<1>3. HistorySlots \in Nat \ {0} /\ slot.history_next \in Nat /\ age \in Nat
      /\ slot.history_next < HistorySlots /\ age < HistorySlots
    BY <1>1, SegConstants DEF HistoryIndices
<1> QED BY <1>2, <1>3 DEF Place

\* A run of the transcript, its answer and its retry say the same.
LEMMA RunOfAnswer ==
    ASSUME NEW s \in Sessions, NEW run \in Runs, run.session = s
    PROVE  /\ Retry(s, RunEntry(run.request, run)) = run
           /\ RunEntry(run.request, run).kind = "run"
           /\ RunEntry(run.request, run).owner = run.owner
           /\ RunEntry(run.request, run).sequence = run.sequence
           /\ RunEntry(run.request, run).position = run.position
           /\ RunEntry(run.request, run).rows = run.rows
           /\ RunEntry(run.request, run).request = run.request
BY DEF Retry, RunEntry, Runs

\* A run entry of a transcript is a record of its own fields.
LEMMA RunEntryFields ==
    ASSUME NEW e \in LogEntries, e.kind = "run"
    PROVE  /\ e \in RunEntries /\ e.owner \in Owners /\ e.request \in Requests
           /\ e.sequence \in Nat /\ e.position \in Nat /\ e.rows \in Nat
           /\ e = [kind |-> "run", request |-> e.request, owner |-> e.owner,
                   sequence |-> e.sequence, position |-> e.position,
                   rows |-> e.rows, payload |-> e.payload]
<1>1. e \in RunEntries
    BY DEF LogEntries
<1> QED BY <1>1 DEF RunEntries

\* A new session has an empty ring and an empty transcript.
LEMMA NewReplay ==
    ASSUME NEW o \in Opens, NEW n
    PROVE  ReplayInv(o.session, NewSlot(o, n), <<>>)
<1> DEFINE new == NewSlot(o, n)
<1>1. /\ \A i \in HistoryIndices : new.history[i] = NoEntry
      /\ new.next_sequence = 0 /\ new.next_position = 0 /\ new.pending = NoRun
    BY DEF NewSlot, EmptyHistory, HistoryIndices
<1> HIDE DEF new
<1>2. RequestsDistinct(new)
    BY <1>1 DEF RequestsDistinct, HeldByRun, NoEntry
<1>3. AnswersCommitted(o.session, new, <<>>) /\ RecentKept(o.session, new, <<>>)
    BY <1>1 DEF AnswersCommitted, RecentKept
<1> QED BY <1>1, <1>2, <1>3 DEF ReplayInv, Chained, StandsAfter, new

\* A call that leaves the ring, the owner and the point alone, and adds no run
\* in progress.
LEMMA SameReplay ==
    ASSUME NEW s, NEW slot, NEW new, NEW l, ReplayInv(s, slot, l),
           new.history = slot.history, new.history_next = slot.history_next,
           new.owner = slot.owner, new.shape = slot.shape,
           new.next_sequence = slot.next_sequence,
           new.next_position = slot.next_position,
           new.needs_restore = slot.needs_restore,
           new.pending \in {slot.pending, NoRun}
    PROVE  ReplayInv(s, new, l)
<1>1. StandsAfter(new, l)
    BY DEF ReplayInv, StandsAfter, LeavesAt
<1>2. AnswersCommitted(s, new, l)
    BY DEF ReplayInv, AnswersCommitted
<1>3. RequestsDistinct(new)
    BY DEF ReplayInv, RequestsDistinct, HeldByRun
<1>4. RecentKept(s, new, l)
    BY DEF ReplayInv, RecentKept, Place
<1> QED BY <1>1, <1>2, <1>3, <1>4 DEF ReplayInv

\* run_begin lets in only a request the ring does not hold.
LEMMA BeginReplay ==
    ASSUME NEW s, NEW slot, NEW new, NEW l, ReplayInv(s, slot, l),
           NEW run, HistoryVerdict(slot, run) = "FRESH",
           new.history = slot.history, new.history_next = slot.history_next,
           new.owner = slot.owner, new.shape = slot.shape,
           new.next_sequence = slot.next_sequence,
           new.next_position = slot.next_position,
           new.needs_restore = slot.needs_restore,
           new.pending = run
    PROVE  ReplayInv(s, new, l)
<1>1. StandsAfter(new, l)
    BY DEF ReplayInv, StandsAfter, LeavesAt
<1>2. AnswersCommitted(s, new, l)
    BY DEF ReplayInv, AnswersCommitted
<1>3. \A i \in HistoryIndices : slot.history[i].request # run.request
    BY DEF HistoryVerdict, SameRequestEntries, HistoryIndices
<1>4. RequestsDistinct(new)
    BY <1>3 DEF ReplayInv, RequestsDistinct
<1>5. RecentKept(s, new, l)
    BY DEF ReplayInv, RecentKept, Place
<1> QED BY <1>1, <1>2, <1>4, <1>5 DEF ReplayInv

\* A fence or restore empties the ring and is the transcript's last entry.
LEMMA ResetReplay ==
    ASSUME NEW s, NEW new, NEW l \in Seq(LogEntries), l # <<>>, Chained(l),
           l[Len(l)].kind # "run", LeavesAt(l[Len(l)], new),
           new.history = EmptyHistory, ~HeldByRun(new)
    PROVE  ReplayInv(s, new, l)
<1>1. \A i \in HistoryIndices : new.history[i] = NoEntry
    BY DEF EmptyHistory, HistoryIndices
<1>2. AnswersCommitted(s, new, l)
    BY <1>1 DEF AnswersCommitted
<1>3. RequestsDistinct(new)
    BY <1>1 DEF RequestsDistinct, NoEntry
<1>4. \A k \in 1..Len(l) : ~RunsFrom(l, k)
    BY DEF RunsFrom
<1>5. RecentKept(s, new, l)
    BY <1>4 DEF RecentKept
<1> QED BY <1>2, <1>3, <1>5 DEF ReplayInv, StandsAfter

\* An entry that continues where the transcript stands may follow it.
LEMMA ChainAppend ==
    ASSUME NEW l \in Seq(LogEntries), NEW e \in LogEntries, Chained(l),
           e.kind = "run" =>
             IF l = <<>> THEN e.sequence = 0 /\ e.position = 0
             ELSE LET p == l[Len(l)] IN
                  /\ p.owner = e.owner
                  /\ \/ /\ p.kind = "run"
                        /\ e.sequence = p.sequence + 1
                        /\ e.position = p.position + p.rows
                     \/ /\ p.kind = "restore"
                        /\ e.sequence = p.sequence
                        /\ e.position = p.position
    PROVE  Chained(Append(l, e))
<1> DEFINE m == Append(l, e)
<1>1. /\ Len(m) = Len(l) + 1 /\ Len(l) \in Nat /\ m[Len(l) + 1] = e
      /\ \A i \in 1..Len(l) : m[i] = l[i]
      /\ l = <<>> <=> Len(l) = 0
    OBVIOUS
<1> HIDE DEF m
<1> SUFFICES ASSUME NEW i \in 1..Len(m) PROVE ChainedAt(m, i)
    BY DEF Chained, m
<1>2. CASE i \in 1..Len(l)
    <2>1. m[i] = l[i] /\ (i # 1 => m[i - 1] = l[i - 1])
        BY <1>1, <1>2
    <2>2. ChainedAt(l, i)
        BY <1>2 DEF Chained
    <2> QED BY <2>1, <2>2 DEF ChainedAt
<1>3. CASE i = Len(l) + 1
    <2>1. m[i] = e /\ (i = 1 <=> l = <<>>) /\ (i # 1 => m[i - 1] = l[Len(l)])
        BY <1>1, <1>3
    <2> QED BY <2>1 DEF ChainedAt
<1> QED BY <1>1, <1>2, <1>3

\* What a transcript notes of a fence or restore, repeated or not.
LEMMA NotedReplay ==
    ASSUME Inv, NEW s \in Sessions, Chained(log[s]), NEW e \in LogEntries,
           e.kind # "run", Note(s, e), NEW new, LeavesAt(e, new),
           new.history = EmptyHistory, ~HeldByRun(new)
    PROVE  ReplayInv(s, new, log'[s])
<1>1. log \in [Sessions -> Seq(LogEntries)] /\ log[s] \in Seq(LogEntries)
    BY DEF Inv
<1>2. CASE log' = log /\ log[s] # <<>> /\ log[s][Len(log[s])] = e
    BY <1>1, <1>2, ResetReplay
<1>3. CASE log' = [log EXCEPT ![s] = Append(@, e)]
    <2> DEFINE m == Append(log[s], e)
    <2>1. log'[s] = m
        BY <1>1, <1>3
    <2>2. Chained(m)
        BY <1>1, ChainAppend
    <2>3. m \in Seq(LogEntries) /\ m # <<>> /\ m[Len(m)] = e
        BY <1>1
    <2> HIDE DEF m
    <2> QED BY <2>1, <2>2, <2>3, ResetReplay
<1> QED BY <1>2, <1>3 DEF Note

\* run_commit keeps the answer in the ring and the run in the transcript.
LEMMA CommitReplay ==
    ASSUME NEW run \in Runs, NEW slot, SlotInv(run.session, slot), slot.busy,
           RunSame(slot.pending, run), NEW n \in Nat,
           NEW l \in Seq(LogEntries), ReplayInv(run.session, slot, l)
    PROVE  LET e == RunEntry(run.request, slot.pending) IN
           /\ e \in LogEntries
           /\ l # <<>> => l[Len(l)] # e
           /\ ReplayInv(run.session, CommittedSlot(slot, run, n), Append(l, e))
<1> DEFINE s == run.session
           p == slot.pending
           e == RunEntry(run.request, p)
           new == CommittedSlot(slot, run, n)
           m == Append(l, e)
           h == slot.history_next
<1>1. /\ slot \in Slots /\ h \in HistoryIndices
      /\ slot.history \in [HistoryIndices -> Entries \cup {NoEntry}]
      /\ slot.next_sequence \in Nat /\ slot.next_position \in Nat
      /\ s \in Sessions /\ run.request \in Requests
    BY DEF SlotInv, Slots, HistoryIndices, Runs
<1>2. /\ HeldByRun(slot) /\ p \in Runs
      /\ run.rows = p.rows /\ run.sequence = p.sequence
      /\ run.position = p.position /\ run.request = p.request
    BY SameRun
<1>3. /\ p.session = s /\ p.owner = slot.owner
      /\ p.sequence = slot.next_sequence /\ p.position = slot.next_position
      /\ RunFits(slot.shape, p) /\ ~slot.needs_restore
    BY <1>2 DEF SlotInv, SlotSound, InOrder
<1>4. /\ Retry(s, e) = p /\ e.kind = "run" /\ e.owner = p.owner
      /\ e.sequence = p.sequence /\ e.position = p.position /\ e.rows = p.rows
      /\ e.request = p.request
    BY <1>1, <1>2, <1>3, RunOfAnswer
<1>5. e \in LogEntries
    <2>1. p.rows \in Nat /\ p.position \in Nat /\ p.sequence \in Nat
        BY <1>2, RunFields
    <2>2. e \in RunEntries
        BY <1>1, <1>2, <2>1 DEF RunEntry, RunEntries, Runs
    <2> QED BY <2>2 DEF LogEntries
<1>6. EntryOf(slot, run) = KeptAnswer(s, e)
    BY <1>2, <1>4 DEF EntryOf, KeptAnswer
<1>7. /\ new.history = [slot.history EXCEPT ![h] = KeptAnswer(s, e)]
      /\ new.history_next = (h + 1) % HistorySlots
      /\ new.next_sequence = slot.next_sequence + 1
      /\ new.next_position = slot.next_position + run.rows
      /\ new.owner = slot.owner /\ new.shape = slot.shape
      /\ new.pending = NoRun
    BY <1>1, <1>6, CommittedFields
<1>8. new \in Slots
    BY CommitInv DEF SlotInv
<1>9. /\ new.history[h] = KeptAnswer(s, e)
      /\ \A i \in HistoryIndices : i # h => new.history[i] = slot.history[i]
    BY <1>1, <1>7
<1>10. /\ m \in Seq(LogEntries) /\ Len(m) = Len(l) + 1 /\ Len(l) \in Nat
       /\ m[Len(l) + 1] = e /\ m # <<>>
       /\ \A i \in 1..Len(l) : m[i] = l[i]
       /\ l = <<>> <=> Len(l) = 0
    BY <1>5
<1>11. StandsAfter(slot, l) /\ Chained(l) /\ AnswersCommitted(s, slot, l)
       /\ RequestsDistinct(slot) /\ RecentKept(s, slot, l)
    BY DEF ReplayInv
<1>12. KeptAnswer(s, e).request = p.request
    BY <1>4 DEF KeptAnswer
<1> HIDE DEF new, m, e, p, s, h
<1>13. l # <<>> => l[Len(l)] # e
    <2> SUFFICES ASSUME l # <<>>, l[Len(l)] = e PROVE FALSE
        OBVIOUS
    <2>1. slot.next_sequence = e.sequence + 1
        BY <1>4, <1>11 DEF StandsAfter, LeavesAt
    <2> QED BY <1>1, <1>3, <1>4, <2>1
<1>14. Chained(m)
    <2>1. CASE l = <<>>
        BY <1>3, <1>4, <1>5, <1>11, <2>1, ChainAppend DEF StandsAfter, m
    <2>2. CASE l # <<>>
        <3>1. LeavesAt(l[Len(l)], slot)
            BY <1>11, <2>2 DEF StandsAfter
        <3>2. l[Len(l)] \in LogEntries
            BY <1>10, <2>2
        <3>3. l[Len(l)].kind \in {"run", "restore", "fence"}
            BY <3>2 DEF LogEntries, RunEntries
        <3>4. /\ l[Len(l)].owner = e.owner
              /\ \/ /\ l[Len(l)].kind = "run"
                    /\ e.sequence = l[Len(l)].sequence + 1
                    /\ e.position = l[Len(l)].position + l[Len(l)].rows
                 \/ /\ l[Len(l)].kind = "restore"
                    /\ e.sequence = l[Len(l)].sequence
                    /\ e.position = l[Len(l)].position
            BY <1>3, <1>4, <3>1, <3>3 DEF LeavesAt
        <3> QED BY <1>5, <1>11, <2>2, <3>4, ChainAppend DEF m
    <2> QED BY <2>1, <2>2
<1>15. StandsAfter(new, m)
    BY <1>2, <1>3, <1>4, <1>7, <1>10 DEF StandsAfter, LeavesAt
<1>16. AnswersCommitted(s, new, m)
    <2> SUFFICES ASSUME NEW i \in HistoryIndices, new.history[i] # NoEntry
                 PROVE  \E j \in 1..Len(m) : /\ m[j].kind = "run"
                                             /\ new.history[i] = KeptAnswer(s, m[j])
        BY DEF AnswersCommitted
    <2>1. CASE i = h
        <3>1. Len(m) \in 1..Len(m) /\ m[Len(m)] = e
            BY <1>10
        <3> QED BY <1>4, <1>9, <2>1, <3>1
    <2>2. CASE i # h
        <3>1. new.history[i] = slot.history[i]
            BY <1>9, <2>2
        <3>2. PICK j \in 1..Len(l) : /\ l[j].kind = "run"
                                     /\ slot.history[i] = KeptAnswer(s, l[j])
            BY <1>11, <3>1 DEF AnswersCommitted
        <3>3. j \in 1..Len(m) /\ m[j] = l[j]
            BY <1>10
        <3> QED BY <3>1, <3>2, <3>3
    <2> QED BY <2>1, <2>2
<1>17. RequestsDistinct(new)
    <2>1. ~HeldByRun(new)
        BY <1>7 DEF HeldByRun
    <2>2. \A i \in HistoryIndices : slot.history[i].request # p.request
        BY <1>2, <1>11 DEF RequestsDistinct, p
    <2>3. \A i, j \in HistoryIndices :
            slot.history[i].request = slot.history[j].request
              => i = j \/ slot.history[i].request = ZeroId
        BY <1>11 DEF RequestsDistinct
    <2>4. \A i \in HistoryIndices :
            new.history[i].request = IF i = h THEN p.request
                                     ELSE slot.history[i].request
        BY <1>9, <1>12
    <2> QED BY <2>1, <2>2, <2>3, <2>4 DEF RequestsDistinct
<1>18. RecentKept(s, new, m)
    <2> SUFFICES ASSUME NEW k \in 1..Len(m), k + HistorySlots > Len(m),
                        RunsFrom(m, k)
                 PROVE  /\ new.history[Place(new, Len(m) - k)] = KeptAnswer(s, m[k])
                        /\ m[k].owner = new.owner
                        /\ RunFits(new.shape, m[k])
        BY DEF RecentKept
    <2> DEFINE age == Len(m) - k
    <2>1. age \in HistoryIndices /\ HistorySlots \in Nat
        BY <1>10, SegConstants DEF HistoryIndices
    <2>2. CASE k = Len(m)
        <3>1. Place(new, age) = h
            BY <1>1, <1>7, <1>8, <1>10, <2>1, <2>2, PlaceAfterCommit DEF h
        <3>2. m[k] = e
            BY <1>10, <2>2
        <3>3. RunFits(new.shape, e)
            BY <1>3, <1>4, <1>7 DEF RunFits
        <3> QED BY <1>3, <1>4, <1>7, <1>9, <3>1, <3>2, <3>3
    <2>3. CASE k # Len(m)
        <3>1. k \in 1..Len(l) /\ k + HistorySlots > Len(l) /\ m[k] = l[k]
            BY <1>10, <2>1, <2>3
        <3>2. RunsFrom(l, k)
            <4> SUFFICES ASSUME NEW j \in k..Len(l) PROVE l[j].kind = "run"
                BY DEF RunsFrom
            <4>1. j \in k..Len(m) /\ m[j] = l[j]
                BY <1>10, <3>1
            <4> QED BY <4>1 DEF RunsFrom
        <3>3. /\ slot.history[Place(slot, Len(l) - k)] = KeptAnswer(s, l[k])
              /\ l[k].owner = slot.owner
              /\ RunFits(slot.shape, l[k])
            BY <1>11, <3>1, <3>2 DEF RecentKept
        <3>4. /\ age > 0 /\ age - 1 = Len(l) - k /\ age - 1 \in HistoryIndices
            BY <1>10, <2>1, <3>1 DEF HistoryIndices
        <3>5. /\ Place(new, age) = Place(slot, age - 1)
              /\ Place(slot, age - 1) # h
            BY <1>1, <1>7, <1>8, <2>1, <3>4, PlaceAfterCommit DEF h
        <3>6. Place(slot, age - 1) \in HistoryIndices
            BY <1>1, <3>4, PlaceRange
        <3> QED BY <1>7, <1>9, <3>1, <3>3, <3>4, <3>5, <3>6
    <2> QED BY <2>2, <2>3
<1> QED BY <1>5, <1>13, <1>14, <1>15, <1>16, <1>17, <1>18
        DEF ReplayInv, new, m, e, p, s

\* The entry of an open session.
LEMMA ReplayOfEntry ==
    ASSUME Inv, AllReplayInv, NEW s \in Sessions, IsActive(table[s])
    PROVE  /\ SlotInv(s, table[s]) /\ ReplayInv(s, table[s], log[s])
           /\ table[s] \in Slots /\ log[s] \in Seq(LogEntries) /\ now \in Nat
BY EntryOfTable DEF AllReplayInv, SlotInv

\* Nothing happens to the table or the transcripts.
LEMMA ReplayKept ==
    ASSUME AllReplayInv, table' = table, log' = log
    PROVE  AllReplayInv'
BY DEF AllReplayInv

\* One entry is written.
LEMMA ReplayWritten ==
    ASSUME Inv, AllReplayInv, NEW s \in Sessions, NEW new,
           table' = [table EXCEPT ![s] = new],
           \A r \in Sessions : r # s => log'[r] = log[r],
           new = NoSlot \/ ReplayInv(s, new, log'[s])
    PROVE  AllReplayInv'
<1>1. table'[s] = new /\ \A r \in Sessions : r # s => table'[r] = table[r]
    BY DEF Inv, Tables
<1>2. ASSUME NEW r \in Sessions
      PROVE  table'[r] = NoSlot \/ ReplayInv(r, table'[r], log'[r])
    <2>1. CASE r = s
        BY <1>1, <2>1
    <2>2. CASE r # s
        BY <1>1, <2>2 DEF AllReplayInv
    <2> QED BY <2>1, <2>2
<1> QED BY <1>2 DEF AllReplayInv

\* seg_touch alone.
LEMMA TouchReplay ==
    ASSUME Inv, AllReplayInv, NEW s \in Sessions, IsActive(table[s]),
           table' = [table EXCEPT ![s] = Touch(table[s], now)], log' = log
    PROVE  AllReplayInv'
<1>1. ReplayInv(s, table[s], log[s]) /\ table[s] \in Slots
    BY ReplayOfEntry
<1>2. ReplayInv(s, Touch(table[s], now), log[s])
    <2> DEFINE new == Touch(table[s], now)
    <2>1. /\ new.history = table[s].history
          /\ new.history_next = table[s].history_next
          /\ new.owner = table[s].owner /\ new.shape = table[s].shape
          /\ new.next_sequence = table[s].next_sequence
          /\ new.next_position = table[s].next_position
          /\ new.needs_restore = table[s].needs_restore
          /\ new.pending = table[s].pending
        BY <1>1 DEF Touch, Slots
    <2> HIDE DEF new
    <2> QED BY <1>1, <2>1, SameReplay DEF new
<1> QED BY <1>2, ReplayWritten

\* An OPEN starts an empty transcript or is answered again.
LEMMA OpenReplay ==
    ASSUME Inv, AllReplayInv, NEW o \in Opens, Open(o)
    PROVE  AllReplayInv'
<1>1. o.session \in Sessions /\ log' = log
    BY DEF Opens, Open
<1>2. CASE OpenStatus(table, o, now) = "OK"
    <2>1. table' = [table EXCEPT ![o.session] = NewSlot(o, now)]
        BY <1>2 DEF Open, TableOpen
    <2>2. ~IsActive(table[o.session])
        BY <1>2 DEF OpenStatus, OwnerStatus
    <2>3. log'[o.session] = <<>>
        BY <1>1, <2>2, EntryOfTable DEF Inv
    <2> QED BY <1>1, <2>1, <2>3, NewReplay, ReplayWritten
<1>3. CASE OpenStatus(table, o, now) = "DUPLICATE"
    BY <1>1, <1>3, TouchReplay DEF Open, TableOpen, OpenStatus
<1>4. CASE OpenStatus(table, o, now) \notin {"OK", "DUPLICATE"}
    BY <1>1, <1>4, ReplayKept DEF Open, TableOpen
<1> QED BY <1>2, <1>3, <1>4

\* run_begin reserves for a request the ring does not hold.
LEMMA RunBeginReplay ==
    ASSUME Inv, AllReplayInv, NEW run \in Runs, RunBegin(run)
    PROVE  AllReplayInv'
<1> DEFINE s == run.session
           slot == table[s]
           new == [slot EXCEPT !.busy = TRUE, !.pending = run]
<1>1. s \in Sessions /\ log' = log
    BY DEF Runs, RunBegin
<1>2. CASE RunBeginStatus(table, run, now) = "OK"
    <2>1. table' = [table EXCEPT ![s] = new]
        BY <1>2 DEF RunBegin, TableRunBegin
    <2>2. IsActive(slot) /\ HistoryVerdict(slot, run) = "FRESH"
        BY <1>2, VerdictRange DEF RunBeginStatus
    <2>3. ReplayInv(s, slot, log[s]) /\ slot \in Slots
        BY <1>1, <2>2, ReplayOfEntry
    <2>4. /\ new.history = slot.history /\ new.history_next = slot.history_next
          /\ new.owner = slot.owner /\ new.shape = slot.shape
          /\ new.next_sequence = slot.next_sequence
          /\ new.next_position = slot.next_position
          /\ new.needs_restore = slot.needs_restore /\ new.pending = run
        BY <2>3 DEF Slots
    <2> HIDE DEF new, slot, s
    <2>5. ReplayInv(s, new, log[s])
        BY <2>2, <2>3, <2>4, BeginReplay
    <2> QED BY <1>1, <2>1, <2>5, ReplayWritten
<1>3. CASE RunBeginStatus(table, run, now) = "DUPLICATE"
    <2>1. table' = [table EXCEPT ![s] = Touch(table[s], now)]
        BY <1>3 DEF RunBegin, TableRunBegin
    <2>2. IsActive(table[s])
        BY <1>3 DEF RunBeginStatus
    <2> QED BY <1>1, <2>1, <2>2, TouchReplay
<1>4. CASE RunBeginStatus(table, run, now) \notin {"OK", "DUPLICATE"}
    BY <1>1, <1>4, ReplayKept DEF RunBegin, TableRunBegin
<1> QED BY <1>2, <1>3, <1>4

\* run_commit moves point, ring and transcript together.
LEMMA RunCommitReplay ==
    ASSUME Inv, AllReplayInv, NEW run \in Runs, RunCommit(run)
    PROVE  AllReplayInv'
<1> DEFINE s == run.session
           slot == table[s]
           new == CommittedSlot(slot, run, now)
           e == RunEntry(run.request, slot.pending)
<1>1. s \in Sessions
    BY DEF Runs
<1>2. CASE RunEndStatus(table, run) = "OK"
    <2>1. table' = [table EXCEPT ![s] = new] /\ Note(s, e)
        BY <1>2 DEF RunCommit, TableRunCommit
    <2>2. IsActive(slot) /\ slot.busy /\ RunSame(slot.pending, run)
        BY <1>2 DEF RunEndStatus
    <2>3. /\ SlotInv(s, slot) /\ ReplayInv(s, slot, log[s])
          /\ log[s] \in Seq(LogEntries) /\ now \in Nat
        BY <1>1, <2>2, ReplayOfEntry
    <2>4. /\ log[s] # <<>> => log[s][Len(log[s])] # e
          /\ ReplayInv(s, new, Append(log[s], e))
        BY <2>2, <2>3, CommitReplay
    <2> HIDE DEF new, e, slot, s
    <2>5. log' = [log EXCEPT ![s] = Append(@, e)]
        BY <2>1, <2>4 DEF Note
    <2>6. log'[s] = Append(log[s], e)
          /\ \A r \in Sessions : r # s => log'[r] = log[r]
        BY <1>1, <2>5 DEF Inv
    <2> QED BY <1>1, <2>1, <2>4, <2>6, ReplayWritten
<1>3. CASE RunEndStatus(table, run) # "OK"
    BY <1>3, ReplayKept DEF RunCommit, TableRunCommit
<1> QED BY <1>2, <1>3

\* run_abort leaves point, ring and transcript.
LEMMA RunAbortReplay ==
    ASSUME Inv, AllReplayInv, NEW run \in Runs, RunAbort(run)
    PROVE  AllReplayInv'
<1> DEFINE s == run.session
           slot == table[s]
           new == [slot EXCEPT !.busy = FALSE, !.pending = NoRun]
<1>1. s \in Sessions /\ log' = log
    BY DEF Runs, RunAbort
<1>2. CASE RunEndStatus(table, run) = "OK"
    <2>1. table' = [table EXCEPT ![s] = new]
        BY <1>2 DEF RunAbort, TableRunAbort
    <2>2. IsActive(slot)
        BY <1>2 DEF RunEndStatus
    <2>3. ReplayInv(s, slot, log[s]) /\ slot \in Slots
        BY <1>1, <2>2, ReplayOfEntry
    <2>4. /\ new.history = slot.history /\ new.history_next = slot.history_next
          /\ new.owner = slot.owner /\ new.shape = slot.shape
          /\ new.next_sequence = slot.next_sequence
          /\ new.next_position = slot.next_position
          /\ new.needs_restore = slot.needs_restore /\ new.pending = NoRun
        BY <2>3 DEF Slots
    <2> HIDE DEF new, slot, s
    <2>5. ReplayInv(s, new, log[s])
        BY <2>3, <2>4, SameReplay
    <2> QED BY <1>1, <2>1, <2>5, ReplayWritten
<1>3. CASE RunEndStatus(table, run) # "OK"
    BY <1>1, <1>3, ReplayKept DEF RunAbort, TableRunAbort
<1> QED BY <1>2, <1>3

\* snapshot_check moves the deadline alone.
LEMMA SnapshotReplay ==
    ASSUME Inv, AllReplayInv, NEW x \in Transfers, SnapshotCheck(x)
    PROVE  AllReplayInv'
<1>1. x.session \in Sessions /\ log' = log
    BY TransferFields DEF SnapshotCheck
<1>2. CASE SnapshotStatus(table, x, now) = "OK"
    <2>1. /\ table' = [table EXCEPT ![x.session] = Touch(table[x.session], now)]
          /\ IsActive(table[x.session])
        BY <1>2 DEF SnapshotCheck, TableSnapshotCheck, SnapshotStatus
    <2> QED BY <1>1, <2>1, TouchReplay
<1>3. CASE SnapshotStatus(table, x, now) # "OK"
    BY <1>1, <1>3, ReplayKept DEF SnapshotCheck, TableSnapshotCheck
<1> QED BY <1>2, <1>3

\* A published restore notes the point it leaves the session at.
LEMMA RestoredReplay ==
    ASSUME Inv, AllReplayInv, NEW x \in Transfers, IsActive(table[x.session]),
           NEW slot \in Slots, slot.pending = NoRun,
           table' = [table EXCEPT ![x.session] =
                       Touch(RestoredSlot(slot, x), now)],
           Note(x.session, RestoreEntry(x))
    PROVE  AllReplayInv'
<1> DEFINE s == x.session
           mid == RestoredSlot(slot, x)
           new == Touch(mid, now)
           e == RestoreEntry(x)
<1>1. s \in Sessions
    BY TransferFields
<1>2. Chained(log[s])
    BY <1>1, ReplayOfEntry DEF ReplayInv
<1>3. e \in LogEntries /\ e.kind = "restore" /\ e.owner = x.owner
      /\ e.sequence = x.sequence /\ e.position = x.position
    BY RestoreEntryType DEF RestoreEntry
<1>4. /\ mid.history = EmptyHistory /\ mid.owner = x.owner
      /\ mid.next_sequence = x.sequence /\ mid.next_position = x.position
      /\ mid.pending = NoRun
    BY DEF RestoredSlot, Slots
<1>5. new = [mid EXCEPT !.expires_at = now + mid.shape.ttl]
    BY DEF Touch
<1> HIDE DEF mid
<1>6. /\ new.history = mid.history /\ new.owner = mid.owner
      /\ new.next_sequence = mid.next_sequence
      /\ new.next_position = mid.next_position /\ new.pending = mid.pending
    BY <1>5
<1>7. \A r \in Sessions : r # s => log'[r] = log[r]
    BY <1>1 DEF Note, Inv
<1> HIDE DEF new, e
<1>8. LeavesAt(e, new) /\ ~HeldByRun(new) /\ new.history = EmptyHistory
    BY <1>3, <1>4, <1>6 DEF LeavesAt, HeldByRun
<1>9. ReplayInv(s, new, log'[s])
    BY <1>1, <1>2, <1>3, <1>8, NotedReplay DEF e
<1> QED BY <1>1, <1>7, <1>9, ReplayWritten DEF new, mid

\* restore_commit empties the ring with the new point.
LEMMA RestoreCommitReplay ==
    ASSUME Inv, AllReplayInv, NEW x \in Transfers, RestoreCommit(x)
    PROVE  AllReplayInv'
<1>1. CASE RestoreStatus(table, x, now) = "OK"
    <2>1. IsActive(table[x.session]) /\ ~table[x.session].busy
        BY <1>1, RestoreAdmitted
    <2>2. SlotInv(x.session, table[x.session]) /\ table[x.session] \in Slots
        BY <2>1, TransferFields, ReplayOfEntry
    <2>3. table[x.session].pending = NoRun
        BY <2>1, <2>2 DEF SlotInv, SlotSound, HeldByRun
    <2>4. /\ table' = [table EXCEPT ![x.session] =
                         Touch(RestoredSlot(table[x.session], x), now)]
          /\ Note(x.session, RestoreEntry(x))
        BY <1>1 DEF RestoreCommit, TableRestoreCommit
    <2> QED BY <2>1, <2>2, <2>3, <2>4, RestoredReplay
<1>2. CASE RestoreStatus(table, x, now) # "OK"
    BY <1>2, ReplayKept DEF RestoreCommit, TableRestoreCommit
<1> QED BY <1>1, <1>2

\* restore_begin reserves and changes nothing else.
LEMMA RestoreBeginReplay ==
    ASSUME Inv, AllReplayInv, NEW x \in Transfers, RestoreBegin(x)
    PROVE  AllReplayInv'
<1> DEFINE s == x.session
           slot == table[s]
           mid == [slot EXCEPT !.busy = TRUE, !.pending_restore = x]
           new == Touch(mid, now)
<1>1. s \in Sessions /\ log' = log
    BY TransferFields DEF RestoreBegin
<1>2. CASE RestoreStatus(table, x, now) = "OK"
    <2>1. table' = [table EXCEPT ![s] = new]
        BY <1>2 DEF RestoreBegin, TableRestoreBegin
    <2>2. ReplayInv(s, slot, log[s]) /\ slot \in Slots
        BY <1>1, <1>2, RestoreAdmitted, ReplayOfEntry
    <2>3. /\ mid.history = slot.history /\ mid.history_next = slot.history_next
          /\ mid.owner = slot.owner /\ mid.shape = slot.shape
          /\ mid.next_sequence = slot.next_sequence
          /\ mid.next_position = slot.next_position
          /\ mid.needs_restore = slot.needs_restore
          /\ mid.pending = slot.pending
        BY <2>2 DEF Slots
    <2>4. new = [mid EXCEPT !.expires_at = now + mid.shape.ttl]
        BY DEF Touch
    <2> HIDE DEF mid
    <2>5. /\ new.history = mid.history /\ new.history_next = mid.history_next
          /\ new.owner = mid.owner /\ new.shape = mid.shape
          /\ new.next_sequence = mid.next_sequence
          /\ new.next_position = mid.next_position
          /\ new.needs_restore = mid.needs_restore
          /\ new.pending = mid.pending
        BY <2>4
    <2> HIDE DEF new, slot
    <2>6. ReplayInv(s, new, log[s])
        BY <2>2, <2>3, <2>5, SameReplay
    <2> QED BY <1>1, <2>1, <2>6, ReplayWritten
<1>3. CASE RestoreStatus(table, x, now) # "OK"
    BY <1>1, <1>3, ReplayKept DEF RestoreBegin, TableRestoreBegin
<1> QED BY <1>2, <1>3

\* restore_finish publishes the point or drops the upload.
LEMMA RestoreFinishReplay ==
    ASSUME Inv, AllReplayInv, NEW x \in Transfers, NEW commit \in BOOLEAN,
           RestoreFinish(x, commit)
    PROVE  AllReplayInv'
<1> DEFINE s == x.session
           slot == table[s]
           idle == [slot EXCEPT !.busy = FALSE, !.pending_restore = NoTransfer]
<1>1. s \in Sessions
    BY TransferFields
<1>2. CASE RestoreFinishStatus(table, x) = "OK"
    <2>1. IsActive(slot) /\ slot.busy /\ RestoreSame(slot.pending_restore, x)
        BY <1>2 DEF RestoreFinishStatus
    <2>2. /\ SlotInv(s, slot) /\ ReplayInv(s, slot, log[s]) /\ slot \in Slots
        BY <1>1, <2>1, ReplayOfEntry
    <2>3. SlotInv(s, idle) /\ ~idle.busy
        BY <2>1, <2>2, FinishInv
    <2>4. idle \in Slots /\ idle.pending = NoRun
        <3> HIDE DEF idle
        <3> QED BY <2>3 DEF SlotInv, SlotSound, HeldByRun
    <2>5. CASE commit
        <3>1. /\ table' = [table EXCEPT ![s] = Touch(RestoredSlot(idle, x), now)]
              /\ Note(s, RestoreEntry(x))
            BY <1>2, <2>5 DEF RestoreFinish, TableRestoreFinish
        <3> HIDE DEF idle
        <3> QED BY <2>1, <2>4, <3>1, RestoredReplay
    <2>6. CASE ~commit
        <3> DEFINE new == Touch(idle, now)
        <3>1. table' = [table EXCEPT ![s] = new] /\ log' = log
            BY <1>2, <2>6 DEF RestoreFinish, TableRestoreFinish
        <3>2. /\ idle.history = slot.history
              /\ idle.history_next = slot.history_next
              /\ idle.owner = slot.owner /\ idle.shape = slot.shape
              /\ idle.next_sequence = slot.next_sequence
              /\ idle.next_position = slot.next_position
              /\ idle.needs_restore = slot.needs_restore
            BY <2>2 DEF Slots
        <3>3. new = [idle EXCEPT !.expires_at = now + idle.shape.ttl]
            BY DEF Touch
        <3> HIDE DEF idle
        <3>4. /\ new.history = idle.history
              /\ new.history_next = idle.history_next
              /\ new.owner = idle.owner /\ new.shape = idle.shape
              /\ new.next_sequence = idle.next_sequence
              /\ new.next_position = idle.next_position
              /\ new.needs_restore = idle.needs_restore
              /\ new.pending = idle.pending
            BY <3>3
        <3> HIDE DEF new, slot
        <3>5. ReplayInv(s, new, log[s])
            BY <2>2, <2>4, <3>2, <3>4, SameReplay
        <3> QED BY <1>1, <3>1, <3>5, ReplayWritten
    <2> QED BY <2>5, <2>6
<1>3. CASE RestoreFinishStatus(table, x) # "OK"
    BY <1>3, ReplayKept DEF RestoreFinish, TableRestoreFinish
<1> QED BY <1>2, <1>3

\* fence empties the ring and closes the session to runs.
LEMMA FenceReplay ==
    ASSUME Inv, AllReplayInv, NEW s \in Sessions, NEW owner \in Owners,
           Fence(s, owner)
    PROVE  AllReplayInv'
<1> DEFINE slot == table[s]
           mid == FencedSlot(slot, owner)
           new == Touch(mid, now)
           e == FenceEntry(owner)
<1>1. CASE FenceStatus(table, s, owner, now) = "OK"
    <2>1. table' = [table EXCEPT ![s] = new] /\ Note(s, e)
        BY <1>1 DEF Fence, TableFence
    <2>2. IsActive(slot) /\ ~slot.busy
        BY <1>1 DEF FenceStatus
    <2>3. SlotInv(s, slot) /\ Chained(log[s]) /\ slot \in Slots
        BY <2>2, ReplayOfEntry DEF ReplayInv
    <2>4. slot.pending = NoRun
        BY <2>2, <2>3 DEF SlotInv, SlotSound, HeldByRun
    <2>5. e \in LogEntries /\ e.kind = "fence" /\ e.owner = owner
        BY DEF FenceEntry, LogEntries
    <2>6. /\ mid.history = EmptyHistory /\ mid.owner = owner
          /\ mid.needs_restore /\ mid.pending = NoRun
        BY <2>3, <2>4 DEF FencedSlot, Slots
    <2>7. new = [mid EXCEPT !.expires_at = now + mid.shape.ttl]
        BY DEF Touch
    <2> HIDE DEF mid
    <2>8. /\ new.history = mid.history /\ new.owner = mid.owner
          /\ new.needs_restore = mid.needs_restore /\ new.pending = mid.pending
        BY <2>7
    <2>9. \A r \in Sessions : r # s => log'[r] = log[r]
        BY <2>1 DEF Note, Inv
    <2> HIDE DEF new, e
    <2>10. LeavesAt(e, new) /\ ~HeldByRun(new) /\ new.history = EmptyHistory
        BY <2>5, <2>6, <2>8 DEF LeavesAt, HeldByRun
    <2>11. ReplayInv(s, new, log'[s])
        BY <2>1, <2>3, <2>5, <2>10, NotedReplay
    <2> QED BY <2>1, <2>9, <2>11, ReplayWritten
<1>2. CASE FenceStatus(table, s, owner, now) # "OK"
    BY <1>2, ReplayKept DEF Fence, TableFence
<1> QED BY <1>1, <1>2

\* A session that leaves takes its transcript along.
LEMMA RemovedReplay ==
    ASSUME Inv, AllReplayInv, NEW s \in Sessions,
           table' = [table EXCEPT ![s] = NoSlot],
           log' = [log EXCEPT ![s] = <<>>]
    PROVE  AllReplayInv'
<1>1. \A r \in Sessions : r # s => log'[r] = log[r]
    BY DEF Inv
<1> QED BY <1>1, ReplayWritten

\* close drops the entry with its transcript.
LEMMA CloseReplay ==
    ASSUME Inv, AllReplayInv, NEW c \in Controls, Close(c)
    PROVE  AllReplayInv'
<1>1. c.session \in Sessions
    BY DEF Controls
<1>2. CASE CloseStatus(table, c) = "OK"
    BY <1>1, <1>2, RemovedReplay DEF Close, TableClose
<1>3. CASE CloseStatus(table, c) # "OK"
    BY <1>3, ReplayKept DEF Close, TableClose
<1> QED BY <1>2, <1>3

\* Every call keeps the transcript, the state point and the ring in step.
LEMMA NextReplay == Inv /\ AllReplayInv /\ [Next]_vars => AllReplayInv'
<1> SUFFICES ASSUME Inv, AllReplayInv, [Next]_vars PROVE AllReplayInv'
    OBVIOUS
<1>1. CASE Tick
    BY <1>1, ReplayKept DEF Tick
<1>2. ASSUME NEW o \in Opens, Open(o) PROVE AllReplayInv'
    BY <1>2, OpenReplay
<1>3. ASSUME NEW run \in Runs, RunBegin(run) \/ RunCommit(run) \/ RunAbort(run)
      PROVE  AllReplayInv'
    BY <1>3, RunBeginReplay, RunCommitReplay, RunAbortReplay
<1>4. ASSUME NEW x \in Transfers,
             SnapshotCheck(x) \/ RestoreCommit(x) \/ RestoreBegin(x)
      PROVE  AllReplayInv'
    BY <1>4, SnapshotReplay, RestoreCommitReplay, RestoreBeginReplay
<1>5. ASSUME NEW x \in Transfers, NEW commit \in BOOLEAN,
             RestoreFinish(x, commit)
      PROVE  AllReplayInv'
    BY <1>5, RestoreFinishReplay
<1>6. ASSUME NEW s \in Sessions, NEW owner \in Owners, Fence(s, owner)
      PROVE  AllReplayInv'
    BY <1>6, FenceReplay
<1>7. ASSUME NEW c \in Controls, Close(c) PROVE AllReplayInv'
    BY <1>7, CloseReplay
<1>8. ASSUME NEW s \in Sessions, ReapExpired(s) PROVE AllReplayInv'
    BY <1>8, RemovedReplay DEF ReapExpired, TableReap
<1>9. CASE UNCHANGED vars
    BY <1>9, ReplayKept DEF vars
<1> QED BY <1>1, <1>2, <1>3, <1>4, <1>5, <1>6, <1>7, <1>8, <1>9 DEF Next

\* Both invariants hold in every behaviour.
LEMMA ReplayAlways == Spec => [](Inv /\ AllReplayInv)
<1>1. Init => Inv /\ AllReplayInv
    BY InitInv DEF Init, AllReplayInv
<1>2. Inv /\ AllReplayInv /\ [Next]_vars => Inv' /\ AllReplayInv'
    BY NextStep, NextReplay DEF StepOK
<1> QED BY <1>1, <1>2, PTL DEF Spec

\* Every committed run continues the state the entry before it left, and none
\* is committed between a fence and the restore it asks for.
THEOREM TranscriptCorrect == Spec => []TranscriptChained
<1>1. Inv /\ AllReplayInv => TranscriptChained
    <2> SUFFICES ASSUME Inv, AllReplayInv, NEW s \in Sessions
                 PROVE  Chained(log[s])
        BY DEF TranscriptChained, Chained, ChainedAt
    <2>1. CASE table[s] = NoSlot
        BY <2>1 DEF Inv, Chained
    <2>2. CASE table[s] # NoSlot
        BY <2>2 DEF AllReplayInv, ReplayInv
    <2> QED BY <2>1, <2>2
<1> QED BY <1>1, ReplayAlways, PTL

\* lmb_seg_table_run_begin answers DUPLICATE only for a run the session
\* committed under that owner, at that point, with that payload.
THEOREM DuplicateCorrect == Spec => []DuplicateWasCommitted
<1>1. Inv /\ AllReplayInv => DuplicateWasCommitted
    <2> SUFFICES ASSUME Inv, AllReplayInv, NEW run \in Runs,
                        RunBeginStatus(table, run, now) = "DUPLICATE"
                 PROVE  \E i \in 1..Len(log[run.session]) :
                          log[run.session][i] = RunEntry(run.request, run)
        BY DEF DuplicateWasCommitted
    <2> DEFINE s == run.session
               slot == table[s]
               same == SameRequestEntries(slot, run)
               first == CHOOSE i \in same : \A j \in same : i <= j
    <2>1. s \in Sessions /\ run.request \in Requests
        BY DEF Runs
    <2>2. IsActive(slot) /\ HistoryVerdict(slot, run) = "DUPLICATE"
        BY DEF RunBeginStatus, OwnerStatus
    <2>3. ReplayInv(s, slot, log[s]) /\ log[s] \in Seq(LogEntries)
        BY <2>1, <2>2, ReplayOfEntry
    <2>4. same # {} /\ EntryMatches(slot.history[first], run)
        BY <2>2 DEF HistoryVerdict
    <2>5. PICK i \in HistoryIndices : /\ slot.history[i].request = run.request
                                      /\ EntryMatches(slot.history[i], run)
        <3>1. first \in same
            <4>1. same \subseteq HistoryIndices /\ same # {}
                BY <2>4 DEF SameRequestEntries, HistoryIndices
            <4>2. \A i, j \in same :
                    slot.history[i].request = run.request
                      /\ slot.history[j].request = run.request
                BY DEF SameRequestEntries
            <4>3. \A i, j \in same : i = j
                <5>1. run.request # ZeroId
                    BY <2>1, SegConstants
                <5> HIDE DEF same
                <5> QED BY <2>3, <4>1, <4>2, <5>1 DEF ReplayInv, RequestsDistinct
            <4>4. PICK i \in same : TRUE
                BY <4>1
            <4>5. i \in Int
                BY <4>1 DEF HistoryIndices
            <4>6. \A j \in same : i <= j
                <5> HIDE DEF same
                <5> QED BY <4>3, <4>4, <4>5
            <4> HIDE DEF same
            <4> QED BY <4>4, <4>6
        <3> QED BY <2>4, <3>1 DEF SameRequestEntries, HistoryIndices
    <2>6. slot.history[i] # NoEntry
        BY <2>1, <2>5, SegConstants DEF NoEntry
    <2>7. PICK j \in 1..Len(log[s]) : /\ log[s][j].kind = "run"
                                      /\ slot.history[i] = KeptAnswer(s, log[s][j])
        BY <2>3, <2>6 DEF ReplayInv, AnswersCommitted
    <2> DEFINE e == log[s][j]
    <2>8. e \in LogEntries /\ e.kind = "run"
        BY <2>3, <2>7
    <2>9. e = [kind |-> "run", request |-> e.request, owner |-> e.owner,
               sequence |-> e.sequence, position |-> e.position,
               rows |-> e.rows, payload |-> e.payload]
        BY <2>8, RunEntryFields
    <2>10. KeptAnswer(s, e).request = run.request
           /\ EntryMatches(KeptAnswer(s, e), run)
        BY <2>5, <2>7
    <2> HIDE DEF e, s, slot
    <2>11. e.request = run.request /\ Digest(Retry(s, e)) = Digest(run)
        BY <2>10 DEF KeptAnswer, EntryMatches
    <2>12. /\ e.owner = run.owner /\ e.sequence = run.sequence
           /\ e.position = run.position /\ e.rows = run.rows
           /\ e.payload = run.payload
        BY <2>11 DEF Digest, Retry
    <2>13. e = RunEntry(run.request, run)
        BY <2>9, <2>11, <2>12 DEF RunEntry
    <2> QED BY <2>7, <2>13 DEF e, s
<1> QED BY <1>1, ReplayAlways, PTL

\* A lost answer can be asked for again: any of the last HistorySlots runs
\* since a fence or restore is recognised while the session lives.
THEOREM RecentRunsCorrect == Spec => []RecentRunsRecognised
<1>1. Inv /\ AllReplayInv => RecentRunsRecognised
    <2> SUFFICES ASSUME Inv, AllReplayInv, NEW s \in ActiveSessions(table),
                        NEW k \in 1..Len(log[s]), k > Len(log[s]) - HistorySlots,
                        \A j \in k..Len(log[s]) : log[s][j].kind = "run",
                        ~Expired(table[s], now)
                 PROVE  RunBeginStatus(table, Retry(s, log[s][k]), now) = "DUPLICATE"
        BY DEF RecentRunsRecognised
    <2> DEFINE slot == table[s]
               e == log[s][k]
               run == Retry(s, e)
               p == Place(slot, Len(log[s]) - k)
               same == SameRequestEntries(slot, run)
    <2>1. s \in Sessions /\ IsActive(slot)
        BY DEF ActiveSessions
    <2>2. /\ ReplayInv(s, slot, log[s]) /\ log[s] \in Seq(LogEntries)
          /\ slot \in Slots
        BY <2>1, ReplayOfEntry
    <2>3. Len(log[s]) \in Nat /\ e \in LogEntries /\ e.kind = "run"
          /\ HistorySlots \in Nat
        BY <2>2, SegConstants
    <2>4. e.owner \in Owners /\ e.request \in Requests /\ e.request # ZeroId
        BY <2>3, RunEntryFields, SegConstants
    <2>5. /\ slot.history[p] = KeptAnswer(s, e) /\ e.owner = slot.owner
          /\ RunFits(slot.shape, e)
        BY <2>2, <2>3 DEF ReplayInv, RecentKept, RunsFrom
    <2>6. p \in HistoryIndices
        <3>1. Len(log[s]) - k \in HistoryIndices
            BY <2>3 DEF HistoryIndices
        <3> QED BY <2>2, <3>1, PlaceRange
    <2>7. /\ run.session = s /\ run.request = e.request /\ run.owner = e.owner
          /\ run.sequence = e.sequence /\ run.position = e.position
          /\ run.rows = e.rows
        BY DEF Retry
    <2>8. /\ KeptAnswer(s, e).request = run.request
          /\ EntryMatches(KeptAnswer(s, e), run)
        BY <2>7 DEF KeptAnswer, EntryMatches
    <2> HIDE DEF slot, e, run, p
    <2>9. same = {p}
        <3>1. p \in same
            BY <2>5, <2>6, <2>8 DEF SameRequestEntries, HistoryIndices
        <3>2. ASSUME NEW i \in same PROVE i = p
            <4>1. i \in HistoryIndices /\ slot.history[i].request = run.request
                BY DEF SameRequestEntries, HistoryIndices
            <4> HIDE DEF same
            <4> QED BY <2>2, <2>4, <2>5, <2>6, <2>7, <2>8, <4>1
                    DEF ReplayInv, RequestsDistinct
        <3> QED BY <3>1, <3>2
    <2>10. HistoryVerdict(slot, run) = "DUPLICATE"
        <3>1. p \in Int
            BY <2>6 DEF HistoryIndices
        <3>2. (CHOOSE i \in {p} : \A j \in {p} : i <= j) = p
            BY <3>1
        <3> QED BY <2>5, <2>8, <2>9, <3>2 DEF HistoryVerdict
    <2>11. OwnerStatus(run.owner, slot.owner) = "OK"
        <3>1. run.owner = slot.owner /\ slot.owner \in Owners
            BY <2>4, <2>5, <2>7
        <3> QED BY <3>1, SameOwner, RelationRange
    <2>12. RunFits(slot.shape, run)
        BY <2>5, <2>7 DEF RunFits
    <2>13. table[run.session] = slot
        BY <2>7 DEF slot
    <2> QED BY <2>1, <2>10, <2>11, <2>12, <2>13 DEF RunBeginStatus, slot, run, e
<1> QED BY <1>1, ReplayAlways, PTL

\* A replay is told apart from a new run, both ways, in every instance.
THEOREM ReplayIsExactCorrect == Spec => []ReplayIsExact
BY DuplicateCorrect, RecentRunsCorrect, PTL DEF ReplayIsExact

-----------------------------------------------------------------------------
(***************************************************************************)
(* The buckets under the table, for every capacity, every set of session    *)
(* ids and every hash.  FindIsExact is not inductive: what a step preserves *)
(* is that no EMPTY bucket lies on the walk to a stored entry.              *)
(***************************************************************************)
CONSTANTS Hash, EMPTY, TOMBSTONE, NoBucket
VARIABLES slots, active_count
B == INSTANCE SegBuckets

\* The walk to a stored entry meets no EMPTY bucket.
BucketsReachable ==
    \A i \in B!Stored : \E p \in B!Probes :
        /\ B!Bucket(slots[i], p) = i
        /\ \A q \in B!Probes : q < p => slots[B!Bucket(slots[i], q)] # EMPTY

BucketsUnique == \A i, j \in B!Stored : slots[i] = slots[j] => i = j

WalkInv == B!TypeOK /\ BucketsReachable /\ BucketsUnique

\* The cardinality that SegBuckets speaks of is the library's.
LEMMA SameCardinality == \A S : B!Cardinality(S) = Cardinality(S)
  BY DEF B!Cardinality, Cardinality

\* A probe stays in the table.
LEMMA BucketType ==
    ASSUME B!BucketConstants, NEW s \in Sessions, NEW p \in B!Probes
    PROVE  B!Bucket(s, p) \in B!Buckets
<1>1. Hash[s] \in Nat /\ p \in Nat /\ B!BucketCount \in Nat \ {0}
    BY DEF B!Probes, B!BucketCount, B!BucketConstants
<1>2. (Hash[s] + p) % B!BucketCount \in 0..(B!BucketCount - 1)
    BY <1>1
<1> QED
    BY <1>2 DEF B!Bucket, B!Buckets

\* A non-empty set of probes has a least one.
LEMMA LeastIsLeast ==
    ASSUME NEW S \in SUBSET Nat, S # {}
    PROVE  B!Least(S) \in S /\ \A q \in S : B!Least(S) <= q
<1> DEFINE R == {ss \in Nat \X Nat : ss[1] < ss[2]}
<1>1. IsWellFoundedOn(R, Nat)
    BY NatLessThanWellFounded DEF OpToRel
<1>2. \E p \in S : \A q \in S : <<q, p>> \notin R
    <2> HIDE DEF R
    <2> QED BY <1>1, WFMin
<1>3. PICK p \in S : \A q \in S : <<q, p>> \notin R
    BY <1>2
<1>4. ASSUME NEW q \in S PROVE p <= q
    <2>1. q \in Nat /\ p \in Nat
        OBVIOUS
    <2>2. ~(q < p)
        BY <1>3, <2>1
    <2> QED BY <2>1, <2>2
<1> QED
    BY <1>4 DEF B!Least

\* What the walk of seg_lookup returns, in terms of the probes it made.
LEMMA FindSpec ==
    ASSUME B!BucketConstants, WalkInv
    PROVE  B!FindIsExact
<1> SUFFICES ASSUME NEW i \in B!Stored PROVE B!Find(slots, slots[i]) = i
    BY DEF B!FindIsExact
<1> DEFINE s == slots[i]
           stops == {p \in B!Probes : slots[B!Bucket(s, p)] \in {EMPTY, s}}
<1>1. s \in Sessions /\ i \in B!Buckets
    BY DEF B!Stored
<1>2. PICK p \in B!Probes :
        /\ B!Bucket(s, p) = i
        /\ \A q \in B!Probes : q < p => slots[B!Bucket(s, q)] # EMPTY
    BY DEF WalkInv, BucketsReachable
<1>3. p \in stops /\ stops \in SUBSET Nat
    BY <1>2 DEF B!Probes
<1>4. B!Least(stops) \in stops /\ B!Least(stops) <= p
    BY <1>3, LeastIsLeast
<1>5. B!Bucket(s, B!Least(stops)) = i
    <2>1. CASE B!Least(stops) = p
        BY <2>1, <1>2
    <2>2. CASE B!Least(stops) < p
        <3>1. B!Least(stops) \in B!Probes /\ slots[B!Bucket(s, B!Least(stops))] = s
            BY <1>2, <1>4, <2>2
        <3>2. B!Bucket(s, B!Least(stops)) \in B!Stored
            BY <1>1, <3>1, BucketType DEF B!Stored
        <3> QED BY <3>1, <3>2 DEF WalkInv, BucketsUnique
    <2> QED BY <1>3, <1>4, <2>1, <2>2 DEF B!Probes
<1> QED
    BY <1>3, <1>5 DEF B!Find, B!Lookup

\* An insertion of an absent id lands on a bucket that holds no session, at
\* the end of a walk without EMPTY buckets.
LEMMA InsertSpec ==
    ASSUME B!BucketConstants, WalkInv, NEW s \in Sessions, B!Find(slots, s) = NoBucket,
           B!Lookup(slots, s, TRUE) # NoBucket
    PROVE  /\ s \notin {slots[i] : i \in B!Stored}
           /\ \E p \in B!Probes :
                /\ B!Lookup(slots, s, TRUE) = B!Bucket(s, p)
                /\ slots[B!Bucket(s, p)] \in {EMPTY, TOMBSTONE}
                /\ \A q \in B!Probes : q < p => slots[B!Bucket(s, q)] # EMPTY
<1> DEFINE stops == {p \in B!Probes : slots[B!Bucket(s, p)] \in {EMPTY, s}}
           stop == B!Least(stops)
           tombs == {p \in B!Probes : /\ slots[B!Bucket(s, p)] = TOMBSTONE
                                      /\ stops = {} \/ p < stop}
<1>1. s \notin {slots[i] : i \in B!Stored}
    <2>1. \A i \in B!Stored : B!Find(slots, slots[i]) = i
        BY FindSpec DEF B!FindIsExact
    <2>2. \A i \in B!Stored : i # NoBucket
        BY DEF B!Stored, B!Buckets, B!BucketConstants
    <2> QED BY <2>1, <2>2
<1>2. \A p \in B!Probes : slots[B!Bucket(s, p)] # s
    BY <1>1, BucketType DEF B!Stored
<1>3. stops \in SUBSET Nat /\ tombs \in SUBSET Nat
    BY DEF B!Probes
<1>4. stops # {} => stop \in stops /\ \A q \in stops : stop <= q
    BY <1>3, LeastIsLeast
<1>5. tombs # {} => B!Least(tombs) \in tombs
    BY <1>3, LeastIsLeast
<1>6. stops # {} => slots[B!Bucket(s, stop)] = EMPTY
    BY <1>2, <1>4
<1>7. CASE tombs # {}
    <2> DEFINE w == B!Least(tombs)
    <2>1. w \in B!Probes /\ slots[B!Bucket(s, w)] = TOMBSTONE
          /\ (stops = {} \/ w < stop)
        BY <1>5, <1>7
    <2>2. B!Lookup(slots, s, TRUE) = B!Bucket(s, w)
        BY <1>2, <1>4, <1>6, <1>7 DEF B!Lookup
    <2>3. ASSUME NEW q \in B!Probes, q < w PROVE slots[B!Bucket(s, q)] # EMPTY
        <3>1. CASE stops = {}
            BY <3>1
        <3>2. CASE stops # {}
            BY <3>2, <2>1, <2>3, <1>4 DEF B!Probes
        <3> QED BY <3>1, <3>2
    <2> QED BY <1>1, <2>1, <2>2, <2>3
<1>8. CASE tombs = {}
    <2>1. stops # {} /\ B!Lookup(slots, s, TRUE) = B!Bucket(s, stop)
        BY <1>2, <1>4, <1>6, <1>8 DEF B!Lookup
    <2>2. ASSUME NEW q \in B!Probes, q < stop PROVE slots[B!Bucket(s, q)] # EMPTY
        BY <2>1, <2>2, <1>4 DEF B!Probes
    <2> QED BY <1>1, <1>4, <1>6, <2>1, <2>2
<1> QED BY <1>7, <1>8

\* The walk invariant survives a bucket that turns from a session into a
\* tombstone.
LEMMA VacateKeepsWalks ==
    ASSUME B!BucketConstants, WalkInv, NEW k \in B!Stored,
           slots' = [slots EXCEPT ![k] = B!Vacated], active_count' \in Nat
    PROVE  WalkInv' /\ B!Stored' = B!Stored \ {k}
<1>1. slots' \in [B!Buckets -> Sessions \cup {EMPTY, TOMBSTONE}]
    BY DEF WalkInv, B!TypeOK, B!Vacated
<1>2. /\ slots'[k] = TOMBSTONE
      /\ \A i \in B!Buckets : i # k => slots'[i] = slots[i]
    BY DEF WalkInv, B!TypeOK, B!Stored, B!Vacated
<1>3. B!Stored' = B!Stored \ {k}
    BY <1>2 DEF B!Stored, B!BucketConstants
<1>4. BucketsUnique'
    BY <1>2, <1>3 DEF WalkInv, BucketsUnique, B!Stored
<1>5. BucketsReachable'
    <2> SUFFICES ASSUME NEW i \in B!Stored'
                 PROVE  \E p \in B!Probes :
                          /\ B!Bucket(slots'[i], p) = i
                          /\ \A q \in B!Probes :
                               q < p => slots'[B!Bucket(slots'[i], q)] # EMPTY
        BY DEF BucketsReachable, B!Bucket
    <2>1. i \in B!Stored /\ slots'[i] = slots[i] /\ slots[i] \in Sessions
        BY <1>2, <1>3 DEF B!Stored
    <2>2. PICK p \in B!Probes :
            /\ B!Bucket(slots[i], p) = i
            /\ \A q \in B!Probes : q < p => slots[B!Bucket(slots[i], q)] # EMPTY
        BY <2>1 DEF WalkInv, BucketsReachable
    <2>3. ASSUME NEW q \in B!Probes, q < p
          PROVE  slots'[B!Bucket(slots'[i], q)] # EMPTY
        <3>1. B!Bucket(slots[i], q) \in B!Buckets
            BY <2>1, BucketType
        <3> QED BY <1>2, <2>1, <2>2, <2>3, <3>1 DEF B!BucketConstants
    <2> QED BY <2>1, <2>2, <2>3
<1> QED BY <1>1, <1>3, <1>4, <1>5 DEF WalkInv, B!TypeOK

\* ... and an insertion.
LEMMA InsertKeepsWalks ==
    ASSUME B!BucketConstants, WalkInv, NEW s \in Sessions, B!Insert(s)
    PROVE  WalkInv' /\ \E k \in B!Buckets \ B!Stored : B!Stored' = B!Stored \cup {k}
<1>1. PICK p \in B!Probes :
        /\ B!Lookup(slots, s, TRUE) = B!Bucket(s, p)
        /\ slots[B!Bucket(s, p)] \in {EMPTY, TOMBSTONE}
        /\ \A q \in B!Probes : q < p => slots[B!Bucket(s, q)] # EMPTY
    BY InsertSpec DEF B!Insert
<1> DEFINE k == B!Bucket(s, p)
<1>2. k \in B!Buckets
    BY BucketType
<1>3. k \notin B!Stored
    BY <1>1 DEF B!Stored, B!BucketConstants
<1>4. /\ slots'[k] = s
      /\ \A i \in B!Buckets : i # k => slots'[i] = slots[i]
    BY <1>1, <1>2 DEF B!Insert, WalkInv, B!TypeOK
<1>5. B!Stored' = B!Stored \cup {k}
    BY <1>2, <1>4 DEF B!Stored
<1>6. B!TypeOK'
    <2>1. slots' = [slots EXCEPT ![k] = s]
        BY <1>1 DEF B!Insert
    <2>3. active_count' \in Nat
        BY DEF B!Insert, WalkInv, B!TypeOK
    <2>2. slots' \in [B!Buckets -> Sessions \cup {EMPTY, TOMBSTONE}]
        BY <2>1, <1>2 DEF WalkInv, B!TypeOK
    <2> QED BY <2>2, <2>3 DEF B!TypeOK
<1>7. BucketsUnique'
    <2>1. \A i \in B!Stored : slots[i] # s /\ i \in B!Buckets
        BY InsertSpec DEF B!Insert, B!Stored
    <2> QED BY <1>3, <1>4, <1>5, <2>1 DEF WalkInv, BucketsUnique
<1>8. BucketsReachable'
    <2> SUFFICES ASSUME NEW i \in B!Stored'
                 PROVE  \E r \in B!Probes :
                          /\ B!Bucket(slots'[i], r) = i
                          /\ \A q \in B!Probes :
                               q < r => slots'[B!Bucket(slots'[i], q)] # EMPTY
        BY DEF BucketsReachable, B!Bucket
    <2>1. \A j \in B!Buckets : slots[j] # EMPTY => slots'[j] # EMPTY
        BY <1>4 DEF B!BucketConstants
    <2>2. CASE i = k
        <3>1. \A q \in B!Probes : B!Bucket(s, q) \in B!Buckets
            BY BucketType
        <3> QED BY <1>1, <1>4, <2>1, <2>2, <3>1
    <2>3. CASE i # k
        <3>1. i \in B!Stored /\ slots'[i] = slots[i] /\ slots[i] \in Sessions
            BY <1>4, <1>5, <2>3 DEF B!Stored
        <3>2. \A q \in B!Probes : B!Bucket(slots[i], q) \in B!Buckets
            BY <3>1, BucketType
        <3> QED BY <2>1, <3>1, <3>2 DEF WalkInv, BucketsReachable
    <2> QED BY <2>2, <2>3
<1> QED BY <1>2, <1>3, <1>5, <1>6, <1>7, <1>8 DEF WalkInv

BucketInv == WalkInv /\ B!CountIsExact

\* B!Stored is a finite set of at most B!BucketCount buckets.
LEMMA StoredFinite ==
    ASSUME B!BucketConstants
    PROVE  /\ IsFiniteSet(B!Buckets) /\ Cardinality(B!Buckets) = B!BucketCount
           /\ IsFiniteSet(B!Stored) /\ Cardinality(B!Stored) \in Nat
<1>1. B!BucketCount \in Nat \ {0}
    BY DEF B!BucketCount, B!BucketConstants
<1>2. IsFiniteSet(B!Buckets) /\ Cardinality(B!Buckets) = B!BucketCount
    BY <1>1, FS_Interval DEF B!Buckets
<1>3. B!Stored \in SUBSET B!Buckets
    BY DEF B!Stored
<1>4. IsFiniteSet(B!Stored)
    BY <1>2, <1>3, FS_Subset
<1> QED BY <1>2, <1>4, FS_CardinalityType

\* The invariant is inductive.
LEMMA BucketInit ==
    ASSUME B!BucketConstants, B!Init
    PROVE  BucketInv
<1>1. B!Stored = {}
    BY DEF B!Init, B!Stored, B!BucketConstants
<1>2. B!TypeOK
    BY DEF B!Init, B!TypeOK
<1>3. B!CountIsExact
    BY <1>1, FS_EmptySet, SameCardinality DEF B!Init, B!CountIsExact, B!BucketConstants
<1> QED BY <1>1, <1>2, <1>3 DEF BucketInv, WalkInv, BucketsReachable, BucketsUnique

\* Insertion, close and reap keep walks and count.
LEMMA BucketNext ==
    ASSUME B!BucketConstants, BucketInv, [B!Next]_B!vars
    PROVE  BucketInv'
<1> USE DEF BucketInv
<1>1. ASSUME NEW s \in Sessions, B!Insert(s) PROVE BucketInv'
    <2>1. PICK k \in B!Buckets \ B!Stored : WalkInv' /\ B!Stored' = B!Stored \cup {k}
        BY <1>1, InsertKeepsWalks
    <2>2. Cardinality(B!Stored') = Cardinality(B!Stored) + 1
        BY <2>1, StoredFinite, FS_AddElement
    <2>3. B!CountIsExact'
        BY <1>1, <2>2, SameCardinality DEF B!CountIsExact, B!Insert, WalkInv, B!TypeOK, B!BucketConstants
    <2> QED BY <2>1, <2>3
<1>2. ASSUME NEW k \in B!Stored, slots' = [slots EXCEPT ![k] = B!Vacated],
             active_count' = active_count - 1
      PROVE  BucketInv'
    <2>1. Cardinality(B!Stored \ {k}) = Cardinality(B!Stored) - 1
          /\ IsFiniteSet(B!Stored \ {k})
        BY StoredFinite, FS_RemoveElement
    <2>2. active_count' \in Nat
        BY <1>2, <2>1, FS_CardinalityType, SameCardinality DEF B!CountIsExact
    <2>3. WalkInv' /\ B!Stored' = B!Stored \ {k}
        BY <1>2, <2>2, VacateKeepsWalks
    <2>4. B!CountIsExact'
        BY <1>2, <2>1, <2>3, StoredFinite, SameCardinality DEF B!CountIsExact, B!BucketConstants
    <2> QED BY <2>3, <2>4
<1>3. ASSUME NEW s \in Sessions, B!Remove(s) PROVE BucketInv'
    <2> DEFINE stops == {p \in B!Probes : slots[B!Bucket(s, p)] \in {EMPTY, s}}
    <2>1. stops \in SUBSET Nat
        BY DEF B!Probes
    <2>2. stops # {} /\ slots[B!Bucket(s, B!Least(stops))] = s
          /\ B!Find(slots, s) = B!Bucket(s, B!Least(stops))
        BY <1>3 DEF B!Remove, B!Find, B!Lookup
    <2>3. B!Least(stops) \in B!Probes
        BY <2>1, <2>2, LeastIsLeast
    <2>4. B!Find(slots, s) \in B!Stored
        BY <2>2, <2>3, BucketType DEF B!Stored
    <2> QED BY <1>2, <1>3, <2>4 DEF B!Remove
<1>4. ASSUME NEW expired \in SUBSET Sessions, B!Reap(expired) PROVE BucketInv'
    <2> DEFINE hits == {i \in B!Buckets : slots[i] \in expired}
    <2>1. hits # {} /\ hits \in SUBSET Nat
        BY <1>4 DEF B!Reap, B!Buckets
    <2>2. B!Least(hits) \in B!Stored
        BY <2>1, LeastIsLeast DEF B!Stored
    <2> QED BY <1>2, <1>4, <2>2 DEF B!Reap
<1>5. CASE UNCHANGED B!vars
    <2>1. slots' = slots /\ active_count' = active_count
        BY <1>5 DEF B!vars
    <2> QED BY <2>1, SameCardinality DEF WalkInv, B!TypeOK, BucketsReachable, BucketsUnique, B!CountIsExact, B!Stored, B!Bucket
<1> QED BY <1>1, <1>3, <1>4, <1>5 DEF B!Next

\* So it holds in every state.
LEMMA BucketAlways == ASSUME B!BucketConstants PROVE B!Spec => []BucketInv
<1>1. BucketInv /\ [B!Next]_B!vars => BucketInv'
    BY BucketNext
<1> QED BY <1>1, BucketInit, PTL DEF B!Spec

\* For every capacity, id set and hash: a stored session is found in its own
\* bucket (seg_find), so it is never lost behind a vacated one nor doubled.
THEOREM FindCorrect ==
    ASSUME B!BucketConstants PROVE B!Spec => []B!FindIsExact
<1>1. BucketInv => B!FindIsExact
    BY FindSpec DEF BucketInv
<1> QED BY <1>1, BucketAlways, PTL

\* active_count is the number of stored sessions and never exceeds the quota
\* (lmb_seg_table_open, _close and _reap_expired keep it together).
THEOREM CountCorrect ==
    ASSUME B!BucketConstants PROVE B!Spec => []B!CountIsExact
<1>1. BucketInv => B!CountIsExact
    BY DEF BucketInv
<1> QED BY <1>1, BucketAlways, PTL

\* Linear probing visits every bucket.
LEMMA ProbesCover ==
    ASSUME B!BucketConstants, NEW s \in Sessions, NEW i \in B!Buckets
    PROVE  \E p \in B!Probes : B!Bucket(s, p) = i
<1> DEFINE D == B!BucketCount
           h == Hash[s]
           r == h % D
           k == h \div D
<1>1. D \in Nat \ {0} /\ h \in Nat /\ i \in 0..(D - 1)
    BY DEF B!BucketCount, B!Buckets, B!BucketConstants
<1> HIDE DEF D, h
<1>2. r \in 0..(D - 1) /\ k \in Int /\ h = D * k + r
    BY <1>1
<1> HIDE DEF r, k
<1>3. CASE r <= i
    <2>1. (h + (i - r)) % D = i
        <3>1. h + (i - r) = D * k + i
            BY <1>1, <1>2
        <3>2. (D * k + i) % D = i
            BY <1>1, <1>2
        <3> QED BY <3>1, <3>2
    <2>2. i - r \in B!Probes
        BY <1>1, <1>2, <1>3 DEF B!Probes, D
    <2> QED BY <2>1, <2>2 DEF B!Bucket, D, h
<1>4. CASE r > i
    <2>1. (h + (i - r + D)) % D = i
        <3>1. h + (i - r + D) = D * (k + 1) + i
            BY <1>1, <1>2
        <3>2. (D * (k + 1) + i) % D = i
            BY <1>1, <1>2
        <3> QED BY <3>1, <3>2
    <2>2. i - r + D \in B!Probes
        BY <1>1, <1>2, <1>4 DEF B!Probes, D
    <2> QED BY <2>1, <2>2 DEF B!Bucket, D, h
<1> QED BY <1>1, <1>2, <1>3, <1>4

\* Below the quota lmb_seg_table_open always finds a bucket, so QUOTA is only
\* ever the answer to a full table.
THEOREM RoomCorrect ==
    ASSUME B!BucketConstants PROVE B!Spec => []B!RoomBelowQuota
<1>1. BucketInv => B!RoomBelowQuota
    <2> SUFFICES ASSUME BucketInv, active_count < MaxSessions, NEW s \in Sessions
                 PROVE  B!Lookup(slots, s, TRUE) # NoBucket
        BY DEF B!RoomBelowQuota
    <2>1. Cardinality(B!Stored) < B!BucketCount
        BY SameCardinality DEF BucketInv, B!CountIsExact, B!BucketCount, WalkInv, B!TypeOK, B!BucketConstants
    <2>2. PICK i \in B!Buckets : i \notin B!Stored
        BY <2>1, StoredFinite DEF B!Stored
    <2>3. slots[i] \in {EMPTY, TOMBSTONE}
        BY <2>2 DEF B!Stored, BucketInv, WalkInv, B!TypeOK
    <2>4. PICK p \in B!Probes : B!Bucket(s, p) = i
        BY ProbesCover
    <2> DEFINE stops == {q \in B!Probes : slots[B!Bucket(s, q)] \in {EMPTY, s}}
               tombs == {q \in B!Probes : /\ slots[B!Bucket(s, q)] = TOMBSTONE
                                          /\ stops = {} \/ q < B!Least(stops)}
    <2>5. stops # {} \/ tombs # {}
        BY <2>3, <2>4
    <2>6. stops # {} => B!Least(stops) \in B!Probes
        <3>1. stops \in SUBSET Nat
            BY DEF B!Probes
        <3> QED BY <3>1, LeastIsLeast
    <2>7. tombs # {} => B!Least(tombs) \in B!Probes
        <3>1. tombs \in SUBSET Nat
            BY DEF B!Probes
        <3> QED BY <3>1, LeastIsLeast
    <2>8. \A q \in B!Probes : B!Bucket(s, q) # NoBucket
        BY BucketType DEF B!Buckets, B!BucketConstants
    <2> QED BY <2>5, <2>6, <2>7, <2>8 DEF B!Lookup
<1> QED BY <1>1, BucketAlways, PTL

\* The buckets are a set of sessions with a quota.
THEOREM BucketsSoundCorrect ==
    ASSUME B!BucketConstants PROVE B!Spec => []B!BucketsSound
BY FindCorrect, RoomCorrect, PTL DEF B!BucketsSound
=============================================================================
