---------------------------- MODULE Retirement -----------------------------
(***************************************************************************)
(* The retirement of a resident route: api_retirement_execute and           *)
(* lmb_retirement_run (lumabri_retirement.h) on the operator's side, and on *)
(* every machine of the route the keeper that owns the processes            *)
(* (home_donor_release, home_donor_retired_release, home_retired_reply and  *)
(* the exit proof, lumabri_home_runtime.h).                                 *)
(*                                                                          *)
(* The operator drains and seals the host, drains and seals the nodes, then *)
(* has each node released, the edge last.  It saves its record after every  *)
(* step and may crash before or after the save; a rerun continues from the  *)
(* record.  Calls are lost with or without their effect.  A peer that does  *)
(* not answer counts as gone only by a proof that its process tree exited.  *)
(*                                                                          *)
(* Abstractions.  A machine's processes for the allocation (segment, and on *)
(* the edge the host too) stand and fall together: up, dying (the group was *)
(* killed and a descendant has not exited yet) or gone.  The lifetime fence *)
(* of lumabri_allocation_lifetime.h is free exactly when they are gone and  *)
(* the keeper has closed its own descriptor.  An allocation is never loaded *)
(* again, so an instance is one process and needs no number.  Counts of     *)
(* connections, sessions and expert calls are one flag per member.          *)
(***************************************************************************)
EXTENDS Integers, FiniteSets, TLAPS

CONSTANTS Count,            \* nodes of the plan, 1..Count
          Edge,             \* the node that also runs the host
          Crashable,        \* nodes whose keeper may crash
          AdminActions,     \* what other operators send: DRAIN, RESUME
          RevMax            \* bound on revisions

ASSUME RetirementConstants ==
    /\ Count \in Nat \ {0} /\ Edge \in 1..Count /\ RevMax \in Nat \ {0}
    /\ Crashable \subseteq 1..Count /\ AdminActions \subseteq {"DRAIN", "RESUME"}

Nodes == 1..Count
Host == 0
Members == 0..Count
MachineOf(m) == IF m = Host THEN Edge ELSE m

HOST_DRAIN == 0
HOST_SEAL == 1
NODE_DRAIN == 2
NODE_SEAL == 3
RELEASE == 4
DONE == 5
RETIRED == 2

VARIABLES rev, draining,    \* member -> LmbHostControl or LmbNodeControl
          work,             \* member -> has connections, sessions or expert calls
          proc,             \* node -> its processes: "up", "dying", "gone"
          keeper,           \* node -> its keeper's transaction, see Holds
          kept,             \* node -> d->retired_receipt is set
          receipt,          \* node -> its durable receipt
          journal,          \* {} or {the durable record}
          rec, pc, at       \* the operator's copy, its place and the member it calls

members == <<rev, draining, work>>
machines == <<proc, keeper, kept, receipt>>
operator == <<journal, rec, pc, at>>
vars == <<rev, draining, work, proc, keeper, kept, receipt, journal, rec, pc, at>>

Fences == [rev : 0..RevMax, draining : 0..RETIRED]
NoFence == [rev |-> 0, draining |-> 0]
Records == [phase : HOST_DRAIN..DONE, cursor : 0..Count, released : SUBSET Nodes,
            exited : SUBSET Nodes, seen : [Members -> Fences]]

NewRecord == [phase |-> HOST_DRAIN, cursor |-> 0, released |-> {}, exited |-> {},
              seen |-> [m \in Members |-> NoFence]]

\* host_exited is set together with the edge's bit.
Exited(r, m) == MachineOf(m) \in r.exited

-----------------------------------------------------------------------------
(* The record. *)

Others == [k \in 0..(Count - 2) |-> IF k + 1 < Edge THEN k + 1 ELSE k + 2]

\* Release order in the plan's order.
BugOrder(k) == k + 1

\* Every other node in the plan's order, then the edge.
Order(k) == IF k = Count - 1 THEN Edge ELSE Others[k]

Ordered(k) == {Order(j) : j \in 0..(k - 1)}

\* lmb_retirement_valid, and the checks lmb_retirement_run makes of it.
Sealed(r, m) == Exited(r, m) \/ r.seen[m].draining = RETIRED
Drained(r, m) == Exited(r, m) \/ r.seen[m].draining # 0
Valid(r) ==
    /\ r.phase < RELEASE => r.released = {}
    /\ r.phase <= HOST_SEAL => r.cursor = 0
    /\ \A m \in Members : Exited(r, m) \/ r.seen[m].rev # 0
    /\ r.phase = HOST_SEAL => Drained(r, Host)
    /\ r.phase >= NODE_DRAIN => Sealed(r, Host)
    /\ r.phase = NODE_DRAIN => \A i \in 1..r.cursor : Drained(r, i)
    /\ r.phase = NODE_SEAL => /\ \A i \in Nodes : Drained(r, i)
                              /\ \A i \in 1..r.cursor : Sealed(r, i)
    /\ r.phase >= RELEASE => /\ \A i \in Nodes : Sealed(r, i)
                             /\ r.released = Ordered(r.cursor)
    /\ r.phase = DONE => r.released = Nodes

\* Whom the next step of the record calls, and whether it has to.
AtEnd(r) == r.phase \in {NODE_DRAIN, NODE_SEAL, RELEASE} /\ r.cursor = Count
Target(r) ==
    CASE r.phase <= HOST_SEAL -> Host
      [] r.phase \in {NODE_DRAIN, NODE_SEAL} -> r.cursor + 1
      [] OTHER -> Order(r.cursor)
Calls(r) ==
    /\ ~AtEnd(r) /\ ~Exited(r, Target(r))
    /\ r.phase \in {HOST_DRAIN, NODE_DRAIN} => r.seen[Target(r)].draining = 0
    /\ r.phase \in {HOST_SEAL, NODE_SEAL} => r.seen[Target(r)].draining # RETIRED
Wanted(r) == IF r.phase \in {HOST_DRAIN, NODE_DRAIN} THEN 1 ELSE RETIRED

\* A phase that starts where the one before it ended.
BugAdvance(r) ==
    IF AtEnd(r) \/ r.phase <= HOST_SEAL
    THEN [r EXCEPT !.phase = @ + 1, !.cursor = IF r.phase = NODE_SEAL THEN 0 ELSE @]
    ELSE [r EXCEPT !.cursor = @ + 1,
                   !.released = IF r.phase = RELEASE THEN @ \cup {Target(r)} ELSE @]

\* The record when its step has succeeded.
Advance(r) ==
    IF AtEnd(r) \/ r.phase <= HOST_SEAL
    THEN [r EXCEPT !.phase = @ + 1, !.cursor = IF r.phase = RELEASE THEN @ ELSE 0]
    ELSE [r EXCEPT !.cursor = @ + 1,
                   !.released = IF r.phase = RELEASE THEN @ \cup {Target(r)} ELSE @]

\* lmb_retirement_exited.
WithExit(r, i) ==
    [r EXCEPT !.exited = @ \cup {i},
              !.seen = [m \in Members |-> IF MachineOf(m) = i THEN NoFence ELSE @[m]]]

-----------------------------------------------------------------------------
Init ==
    /\ rev = [m \in Members |-> 1] /\ draining = [m \in Members |-> 0]
    /\ work = [m \in Members |-> FALSE]
    /\ proc = [i \in Nodes |-> "up"] /\ keeper = [i \in Nodes |-> "ready"]
    /\ kept = [i \in Nodes |-> FALSE] /\ receipt = [i \in Nodes |-> "none"]
    /\ journal = {} /\ rec = NewRecord /\ pc = "idle" /\ at = Host

-----------------------------------------------------------------------------
(* The members: admitted work and other operators' commands. *)

Up(m) == proc[MachineOf(m)] = "up"

\* A chat connects to the host; its turns open sessions in the nodes.
HostAdmits ==
    /\ Up(Host) /\ draining[Host] = 0
    /\ work' = [work EXCEPT ![Host] = TRUE]
    /\ UNCHANGED <<rev, draining, machines, operator>>

NodeAdmits(i) ==
    /\ Up(i) /\ draining[i] = 0 /\ work[Host]
    /\ work' = [work EXCEPT ![i] = TRUE]
    /\ UNCHANGED <<rev, draining, machines, operator>>

WorkEnds(m) ==
    /\ work[m]
    /\ work' = [work EXCEPT ![m] = FALSE]
    /\ UNCHANGED <<rev, draining, machines, operator>>

\* A revision that is let past its maximum.
BugMayApplyAtMax(m, wanted, expected) ==
    /\ draining[m] # RETIRED
    /\ wanted = RETIRED => draining[m] # 0 /\ ~work[m]
    /\ expected = rev[m]

\* A seal that does not wait for the work in the member.
BugMayApply(m, wanted, expected) ==
    /\ draining[m] # RETIRED
    /\ wanted = RETIRED => draining[m] # 0
    /\ expected = rev[m] /\ rev[m] # RevMax

\* A command whose reply was lost is not recognised when it comes again.
BugReplayed(m, wanted, expected) == FALSE

\* lmb_host_control_apply and lmb_node_control_apply: the replay of the
\* command that made the present state, and the command itself.
Replayed(m, wanted, expected) ==
    rev[m] > 1 /\ expected = rev[m] - 1 /\ draining[m] = wanted
MayApply(m, wanted, expected) ==
    /\ draining[m] # RETIRED
    /\ wanted = RETIRED => draining[m] # 0 /\ ~work[m]
    /\ expected = rev[m] /\ rev[m] # RevMax
Apply(m, wanted, expected) ==
    IF ~Replayed(m, wanted, expected) /\ MayApply(m, wanted, expected)
    THEN /\ rev' = [rev EXCEPT ![m] = @ + 1]
         /\ draining' = [draining EXCEPT ![m] = wanted]
    ELSE UNCHANGED <<rev, draining>>

\* api_segments_control and api_replica_execute of another operator.
AdminCommand(m, action) ==
    /\ Up(m)
    /\ Apply(m, IF action = "DRAIN" THEN 1 ELSE 0, rev[m])
    /\ UNCHANGED <<work, machines, operator>>

-----------------------------------------------------------------------------
(* The machines.  A keeper's transaction is "ready", "retiring" (inside     *)
(* home_donor_retired_release, its intent stored), "stopped" (still inside, *)
(* the exit proved), "pending" (release_pending: memory stays reserved),    *)
(* "released", or "lost" (a new keeper that knows nothing of it).           *)

Holds(i) == keeper[i] \in {"ready", "retiring", "pending"}
Busy(i) == keeper[i] \in {"retiring", "stopped"}

\* What home_stop_child leaves behind: perhaps a descendant that is still dying.
Stopped(i) == IF proc[i] = "gone" THEN {"gone"} ELSE {"dying", "gone"}
Ends(i) == work' = [m \in Members |-> work[m] /\ MachineOf(m) # i]

\* home_donor_release that trusts the kill instead of the lifetime fence.
BugReleased(p, next) == next

\* home_donor_release after the kill: only the fence ends the reservation.
Released(p, next) == IF p = "gone" THEN next ELSE "pending"

Release(i, next) ==
    /\ Ends(i)
    /\ \E p \in Stopped(i) :
          /\ proc' = [proc EXCEPT ![i] = p]
          /\ keeper' = [keeper EXCEPT ![i] = Released(p, next)]

\* The owner stops sharing, or the keeper finds its child dead.
KeeperReleases(i) ==
    /\ keeper[i] = "ready"
    /\ Release(i, "released")
    /\ UNCHANGED <<rev, draining, kept, receipt, operator>>

KeeperRetries(i) ==
    /\ keeper[i] = "pending"
    /\ Release(i, "released")
    /\ UNCHANGED <<rev, draining, kept, receipt, operator>>

ChildDies(i) ==
    /\ proc[i] = "up"
    /\ proc' = [proc EXCEPT ![i] = "dying"]
    /\ Ends(i)
    /\ UNCHANGED <<rev, draining, keeper, kept, receipt, operator>>

LastExits(i) ==
    /\ proc[i] = "dying"
    /\ proc' = [proc EXCEPT ![i] = "gone"]
    /\ UNCHANGED <<members, keeper, kept, receipt, operator>>

\* The processes outlive their keeper until they notice.
KeeperCrashes(i) ==
    /\ i \in Crashable /\ keeper[i] # "lost"
    /\ keeper' = [keeper EXCEPT ![i] = "lost"]
    /\ kept' = [kept EXCEPT ![i] = FALSE]
    /\ UNCHANGED <<members, proc, receipt, operator>>

-----------------------------------------------------------------------------
(* The operator. *)

Goes(where, member) == pc' = where /\ at' = member
Stays == UNCHANGED <<journal, rec>>

Crash ==
    /\ pc # "idle"
    /\ Goes("idle", Host) /\ rec' = NewRecord
    /\ UNCHANGED <<members, machines, journal>>

\* An error or admitted work ends the run; the record on disk stays.
GivesUp == Goes("idle", Host) /\ rec' = NewRecord /\ UNCHANGED journal

Begin ==
    /\ pc = "idle" /\ journal = {}
    /\ Goes("query", Host) /\ rec' = NewRecord
    /\ UNCHANGED <<members, machines, journal>>

Rerun ==
    /\ pc = "idle"
    /\ \E r \in journal : /\ Valid(r)
                          /\ IF r.phase = DONE THEN UNCHANGED <<rec, pc, at>>
                             ELSE rec' = r /\ Goes("step", Host)
    /\ UNCHANGED <<members, machines, journal>>

\* The members in order; one that already left with its machine is skipped.
QueryNext == IF at = Count THEN Goes("store", Host) ELSE Goes("query", at + 1)

Query ==
    /\ pc = "query" /\ ~Exited(rec, at)
    /\ \/ /\ Up(at) /\ (at # Host => keeper[at] = "ready")
          /\ rec' = [rec EXCEPT !.seen[at] = [rev |-> rev[at], draining |-> draining[at]]]
          /\ QueryNext
       \/ Goes("prove query", at) /\ UNCHANGED rec
    /\ UNCHANGED <<members, machines, journal>>

QuerySkips ==
    /\ pc = "query" /\ Exited(rec, at)
    /\ QueryNext
    /\ UNCHANGED <<members, machines, journal, rec>>

\* lmb_retirement_host_step and home_resident_node_control.  The host
\* confirms its seal after it has closed its conversations in the nodes.
Command ==
    LET m == Target(rec)
        expected == rec.seen[m].rev
        wanted == Wanted(rec)
        ok == Replayed(m, wanted, expected) \/ MayApply(m, wanted, expected)
        waits == wanted = RETIRED /\ draining[m] = 1 /\ work[m] /\ rev[m] = expected
    IN  /\ pc = "step" /\ rec.phase < RELEASE /\ Calls(rec)
        /\ Up(m) /\ (m # Host => keeper[m] = "ready")
        /\ Apply(m, wanted, expected)
        /\ \/ /\ ok
              /\ rec' = Advance([rec EXCEPT !.seen[m] = [rev |-> rev'[m], draining |-> wanted]])
              /\ Goes("store", Host)
              /\ work' = IF m = Host /\ wanted = RETIRED
                         THEN [j \in Members |-> j = Host /\ work[Host]] ELSE work
              /\ UNCHANGED journal
           \/ ~ok /\ waits /\ GivesUp /\ UNCHANGED work
           \/ Goes("prove", m) /\ Stays /\ UNCHANGED work
        /\ UNCHANGED machines

NoAnswer ==
    /\ pc = "step" /\ Calls(rec)
    /\ Goes("prove", Target(rec))
    /\ UNCHANGED <<members, machines, journal, rec>>

StepSkips ==
    /\ pc = "step" /\ ~Calls(rec)
    /\ rec' = Advance(rec) /\ Goes("store", Host)
    /\ UNCHANGED <<members, machines, journal>>

-----------------------------------------------------------------------------
(* home_resident_retired_release, and the keeper that serves it. *)

Releasing(i) == pc = "step" /\ rec.phase = RELEASE /\ Calls(rec) /\ i = Target(rec)
SameSeal(i) == draining[i] = RETIRED /\ rec.seen[i].rev = rev[i]

Acknowledged == \/ rec' = Advance(rec) /\ Goes("store", Host)
                \/ UNCHANGED <<rec, pc, at>>

\* home_donor_retired_release up to its durable intent.
RetireBegins(i) ==
    /\ Releasing(i) /\ SameSeal(i) /\ ~work[i]
    /\ \/ keeper[i] = "ready" /\ proc[i] = "up" /\ keeper' = [keeper EXCEPT ![i] = "retiring"]
       \/ keeper[i] = "released" /\ kept[i] /\ keeper' = [keeper EXCEPT ![i] = "stopped"]
    /\ receipt[i] # "done" /\ receipt' = [receipt EXCEPT ![i] = "prepared"]
    /\ kept' = [kept EXCEPT ![i] = TRUE]
    /\ Goes("await", i)
    /\ UNCHANGED <<members, proc, journal, rec>>

RetireStops(i) ==
    /\ keeper[i] = "retiring"
    /\ Release(i, "stopped")
    /\ UNCHANGED <<rev, draining, kept, receipt, operator>>

\* The receipt is completed and the caller told, if it still listens.
RetireEnds(i) ==
    /\ keeper[i] = "stopped"
    /\ receipt' = [receipt EXCEPT ![i] = "done"]
    /\ keeper' = [keeper EXCEPT ![i] = "released"] /\ kept' = [kept EXCEPT ![i] = FALSE]
    /\ IF pc = "await" /\ at = i THEN Acknowledged ELSE UNCHANGED <<rec, pc, at>>
    /\ UNCHANGED <<members, proc, journal>>

\* The completed receipt could not be saved, or it could and the caller is
\* told nothing: the keeper remembers the seal for the next attempt.
RetireUnsaved(i) ==
    /\ keeper[i] = "stopped"
    /\ receipt' \in {receipt, [receipt EXCEPT ![i] = "done"]}
    /\ keeper' = [keeper EXCEPT ![i] = "released"]
    /\ UNCHANGED <<members, proc, kept, operator>>

\* Only a completed receipt answers a repeated release.
ReceiptCounts(i) == receipt[i] = "done"

\* home_retired_reply, by the keeper that released it or by a new one.
RetireReplays(i) ==
    /\ Releasing(i) /\ ~Holds(i) /\ ~Busy(i)
    /\ ReceiptCounts(i) /\ rec.seen[i].rev = rev[i]
    /\ kept' = [kept EXCEPT ![i] = FALSE]
    /\ rec' = Advance(rec) /\ Goes("store", Host)
    /\ UNCHANGED <<members, proc, keeper, receipt, journal>>

AwaitTimesOut ==
    /\ pc = "await"
    /\ Goes("prove", at)
    /\ UNCHANGED <<members, machines, journal, rec>>

-----------------------------------------------------------------------------
(* home_resident_exit_proof. *)

\* A keeper that answers for its own children only.
BugFenceFree(i) == ~Holds(i) /\ ~Busy(i)

\* lmb_lifetime_prove, once no transaction holds the reservation.
FenceFree(i) == ~Holds(i) /\ ~Busy(i) /\ proc[i] = "gone"

Proving == pc \in {"prove", "prove query"}

ExitProved ==
    LET i == MachineOf(at)
        known == WithExit(rec, i)
    IN  /\ Proving /\ FenceFree(i)
        /\ IF pc = "prove query"
           THEN rec' = known /\ QueryNext
           ELSE rec' = Advance(known) /\ Goes("store", Host)
        /\ UNCHANGED <<members, machines, journal>>

ExitUnknown ==
    /\ Proving
    /\ GivesUp
    /\ UNCHANGED <<members, machines>>

\* The question makes a keeper with a pending release try again first.
ExitRetried ==
    LET i == MachineOf(at)
    IN  /\ Proving /\ keeper[i] = "pending"
        /\ Release(i, "released")
        /\ UNCHANGED <<rev, draining, kept, receipt, operator>>

\* lmb_retirement_store refuses an invalid record.
Store ==
    /\ pc = "store"
    /\ IF Valid(rec)
       THEN /\ journal' = {rec}
            /\ IF rec.phase = DONE THEN rec' = NewRecord /\ Goes("idle", Host)
               ELSE UNCHANGED rec /\ Goes("step", Host)
       ELSE GivesUp
    /\ UNCHANGED <<members, machines>>

Operator ==
    \/ Crash \/ Begin \/ Rerun \/ Query \/ QuerySkips
    \/ Command \/ NoAnswer \/ StepSkips \/ Store
    \/ AwaitTimesOut \/ ExitProved \/ ExitUnknown \/ ExitRetried

Machine(i) ==
    \/ KeeperReleases(i) \/ KeeperRetries(i) \/ ChildDies(i) \/ LastExits(i) \/ KeeperCrashes(i)
    \/ RetireBegins(i) \/ RetireStops(i) \/ RetireEnds(i) \/ RetireUnsaved(i)
    \/ RetireReplays(i)

Member(m) == WorkEnds(m) \/ \E action \in AdminActions : AdminCommand(m, action)

Next ==
    \/ Operator
    \/ \E i \in Nodes : Machine(i) \/ NodeAdmits(i)
    \/ HostAdmits
    \/ \E m \in Members : Member(m)

Spec == Init /\ [][Next]_vars

\* What a keeper and dying processes do by themselves.  Processes that lost
\* their keeper are told by the system and leave.
Settles(i) ==
    \/ RetireStops(i) \/ RetireEnds(i) \/ KeeperRetries(i) \/ LastExits(i)
    \/ proc[i] # "up" /\ KeeperReleases(i)
    \/ keeper[i] = "lost" /\ ChildDies(i)

\* A call of the operator that is answered.
Answered ==
    \/ Command /\ pc' = "store"
    \/ StepSkips
    \/ \E i \in Nodes : RetireBegins(i) \/ RetireReplays(i)

\* The operator reruns an unfinished retirement, its calls end by their
\* deadlines, and of the calls and saves it and a keeper repeat some succeed;
\* admitted work ends.
FairSpec ==
    /\ Spec
    /\ WF_vars(Operator) /\ SF_vars(Answered) /\ SF_vars(NoAnswer)
    /\ SF_vars(ExitProved) /\ SF_vars(Store) /\ SF_vars(\E i \in Nodes : RetireEnds(i))
    /\ WF_vars(\E i \in Nodes : Settles(i))
    /\ WF_vars(WorkEnds(Host)) /\ WF_vars(\E i \in Nodes : WorkEnds(i))

-----------------------------------------------------------------------------
TypeOK ==
    /\ rev \in [Members -> 1..RevMax] /\ draining \in [Members -> 0..RETIRED]
    /\ work \in [Members -> BOOLEAN]
    /\ proc \in [Nodes -> {"up", "dying", "gone"}]
    /\ keeper \in [Nodes -> {"ready", "retiring", "stopped", "pending", "released", "lost"}]
    /\ kept \in [Nodes -> BOOLEAN] /\ receipt \in [Nodes -> {"none", "prepared", "done"}]
    /\ journal \subseteq Records /\ rec \in Records
    /\ pc \in {"idle", "query", "step", "store", "await", "prove", "prove query"}
    /\ at \in Members

\* A retirement that reports DONE has released the route: not one process of
\* it is left on any machine, whichever peers, keepers, replies and operators
\* were lost on the way.
DoneMeansGone ==
    \A r \in journal : r.phase = DONE => \A i \in Nodes : proc[i] = "gone"

\* Evidence is true: a completed receipt, an exit bit and a release bit name
\* a machine whose processes have all exited.  An intent or a missing peer is
\* no evidence.
EvidenceIsTrue ==
    \A i \in Nodes :
        (\/ receipt[i] = "done"
         \/ \E r \in journal \cup {rec} : i \in r.exited \cup r.released)
        => proc[i] = "gone"

\* Nothing of the route is stopped before all of it is quiet: when a keeper
\* has begun to retire its node, the host and every node are sealed without
\* work, or gone.
QuietBeforeRelease ==
    (\E i \in Nodes : receipt[i] # "none")
    => \A m \in Members : proc[MachineOf(m)] = "gone" \/ (draining[m] = RETIRED /\ ~work[m])

\* The edge is released last, when the other nodes have left.
EdgeLast ==
    receipt[Edge] # "none" => \A i \in Nodes \ {Edge} : proc[i] = "gone"

\* The operator never builds a record that its own journal would refuse, so a
\* retirement cannot lock itself out by an exit in the middle of a phase.
RecordsAreValid ==
    /\ pc = "store" => Valid(rec)
    /\ \A r \in journal : Valid(r)

\* Another operator has resumed a member since it was recorded, so that the
\* fence in the record is refused from then on, or has used up its revisions.
Overtaken == \E r \in journal, m \in Members :
                 /\ Up(m)
                 /\ rev[m] = RevMax \/ (draining[m] = 0 /\ rev[m] > r.seen[m].rev)

\* A retirement whose record was saved once can be finished by rerunning it,
\* through lost answers, crashes of the operator and of a keeper, and exits of
\* the nodes; only another operator's RESUME stops it, and leaves its trace.
Completed == \A r \in journal : r.phase = DONE \/ Overtaken
RetirementCompletes == <>[]Completed

\* What the journal, the keepers and the operator say of a machine that left
\* is true, down to the DONE that an operator acts on: DoneMeansGone and
\* EvidenceIsTrue.
ReleaseIsProven == DoneMeansGone /\ EvidenceIsTrue

\* A route comes down in order: nothing stops before all of it is quiet, and
\* the edge stops last.  QuietBeforeRelease and EdgeLast.
OrderlyRelease == QuietBeforeRelease /\ EdgeLast

-----------------------------------------------------------------------------
(***************************************************************************)
(* Proofs for every route length, edge and set of keepers that may crash.   *)
(* RecordFacts says that steps keep the record valid, Evidence that what    *)
(* the operator and the keepers take for proof is true, Seals that a seal   *)
(* in a record is a seal of the member.                                     *)
(***************************************************************************)
(* The record. *)

\* The release order names nodes, the edge at its end and only there.
LEMMA OrderFacts ==
    ASSUME NEW k \in 0..(Count - 1)
    PROVE  /\ Order(k) \in Nodes
           /\ Order(k) = Edge <=> k = Count - 1
  BY RetirementConstants DEF Order, Others, Nodes

\* Before the edge come all the other nodes.
LEMMA OrderedOthers == Ordered(Count - 1) = Nodes \ {Edge}
<1>1. ASSUME NEW i \in Nodes \ {Edge}
      PROVE  i \in Ordered(Count - 1)
  <2> DEFINE k == IF i < Edge THEN i - 1 ELSE i - 2
  <2>1. k \in 0..(Count - 2) /\ k \in 0..(Count - 1 - 1) /\ k # Count - 1
    BY RetirementConstants DEF Nodes
  <2>2. Others[k] = i
    BY <2>1, RetirementConstants DEF Others, Nodes
  <2> QED BY <2>1, <2>2 DEF Ordered, Order
<1>2. ASSUME NEW i \in Ordered(Count - 1)
      PROVE  i \in Nodes \ {Edge}
  <2>1. PICK k \in 0..(Count - 1 - 1) : i = Order(k)
    BY <1>2 DEF Ordered
  <2>2. k \in 0..(Count - 1) /\ k # Count - 1
    BY RetirementConstants
  <2> QED BY <2>1, <2>2, OrderFacts
<1> QED BY <1>1, <1>2

\* One more release adds the next node of the order.
LEMMA OrderedNext ==
    ASSUME NEW k \in 0..(Count - 1)
    PROVE  Ordered(k + 1) = Ordered(k) \cup {Order(k)}
<1>1. 0..((k + 1) - 1) = (0..(k - 1)) \cup {k}
  BY RetirementConstants
<1> QED BY <1>1 DEF Ordered

\* At the end of the order every node is released.
LEMMA OrderedAll == Ordered(Count) = Nodes
<1>1. Count - 1 \in 0..(Count - 1) /\ (Count - 1) + 1 = Count
  BY RetirementConstants
<1>2. Order(Count - 1) = Edge
  BY <1>1, OrderFacts
<1>3. Ordered(Count) = Ordered(Count - 1) \cup {Edge}
  BY <1>1, <1>2, OrderedNext
<1> QED BY <1>3, OrderedOthers, RetirementConstants DEF Nodes

USE DEF HOST_DRAIN, HOST_SEAL, NODE_DRAIN, NODE_SEAL, RELEASE, DONE, RETIRED

\* A step before the end of its phase calls a member, in the node phases a node.
LEMMA TargetFacts ==
    ASSUME NEW r \in Records, r.phase # DONE, ~AtEnd(r)
    PROVE  /\ Target(r) \in Members
           /\ r.phase >= NODE_DRAIN => Target(r) \in Nodes
           /\ r.phase >= NODE_DRAIN => r.cursor \in 0..(Count - 1)
           /\ r.phase <= HOST_SEAL => Target(r) = Host
<1>1. CASE r.phase <= HOST_SEAL
  BY <1>1, RetirementConstants DEF Target, Members, Host, Records
<1>2. CASE r.phase \in {NODE_DRAIN, NODE_SEAL}
  BY <1>2, RetirementConstants DEF Target, Members, Nodes, Host, Records, AtEnd
<1>3. CASE r.phase = RELEASE
  <2>1. r.cursor \in 0..(Count - 1)
    BY <1>3, RetirementConstants DEF Records, AtEnd
  <2>2. Order(r.cursor) \in Nodes
    BY <2>1, OrderFacts
  <2>3. Target(r) = Order(r.cursor)
    BY <1>3 DEF Target
  <2> QED BY <1>3, <2>1, <2>2, <2>3, RetirementConstants DEF Nodes, Members
<1> QED BY <1>1, <1>2, <1>3 DEF Records

\* What a successful step changes in the record.
LEMMA AdvanceFacts ==
    ASSUME NEW r \in Records, r.phase # DONE
    PROVE  /\ Advance(r) \in Records
           /\ Advance(r).exited = r.exited /\ Advance(r).seen = r.seen
           /\ Advance(r).released \subseteq
                 r.released \cup (IF r.phase = RELEASE /\ ~AtEnd(r) THEN {Target(r)} ELSE {})
<1>1. CASE AtEnd(r) \/ r.phase <= HOST_SEAL
  <2>1. Advance(r) = [r EXCEPT !.phase = @ + 1, !.cursor = IF r.phase = RELEASE THEN @ ELSE 0]
    BY <1>1 DEF Advance
  <2> DEFINE p == r.phase + 1
             c == IF r.phase = RELEASE THEN r.cursor ELSE 0
  <2>2. p \in HOST_DRAIN..DONE /\ c \in 0..Count
    BY RetirementConstants DEF Records
  <2>3. Advance(r) = [r EXCEPT !.phase = p, !.cursor = c]
    BY <2>1
  <2> HIDE DEF p, c
  <2>4. Advance(r) \in Records
    BY <2>2, <2>3 DEF Records
  <2>5. /\ Advance(r).exited = r.exited /\ Advance(r).seen = r.seen
        /\ Advance(r).released = r.released
    BY <2>3 DEF Records
  <2> QED BY <2>4, <2>5
<1>2. CASE ~(AtEnd(r) \/ r.phase <= HOST_SEAL)
  <2>1. Advance(r) = [r EXCEPT !.cursor = @ + 1,
                   !.released = IF r.phase = RELEASE THEN @ \cup {Target(r)} ELSE @]
    BY <1>2 DEF Advance
  <2>2. Target(r) \in Nodes /\ r.cursor + 1 \in 0..Count
    BY <1>2, TargetFacts, RetirementConstants DEF Records
  <2> DEFINE e == IF r.phase = RELEASE THEN r.released \cup {Target(r)} ELSE r.released
             c == r.cursor + 1
  <2>3. Advance(r) = [r EXCEPT !.cursor = c, !.released = e]
    BY <2>1
  <2>4. e \in SUBSET Nodes /\ c \in 0..Count
    BY <2>2 DEF Records
  <2>5. e \subseteq r.released \cup (IF r.phase = RELEASE /\ ~AtEnd(r) THEN {Target(r)} ELSE {})
    BY <1>2
  <2> HIDE DEF e, c
  <2>6. Advance(r) \in Records
    BY <2>3, <2>4 DEF Records
  <2>7. /\ Advance(r).exited = r.exited /\ Advance(r).seen = r.seen
        /\ Advance(r).released = e
    BY <2>3 DEF Records
  <2> QED BY <2>5, <2>6, <2>7
<1> QED BY <1>1, <1>2

\* A step that had nothing to call, or released its node, keeps the record valid.
LEMMA AdvanceValid ==
    ASSUME NEW r \in Records, Valid(r), r.phase # DONE, ~Calls(r) \/ r.phase = RELEASE
    PROVE  Valid(Advance(r))
<1> DEFINE a == Advance(r)
<1>0. a \in Records /\ a.exited = r.exited /\ a.seen = r.seen
  BY AdvanceFacts
<1>1. /\ \A m \in Members : Exited(a, m) = Exited(r, m)
      /\ \A m \in Members : Sealed(a, m) = Sealed(r, m)
      /\ \A m \in Members : Drained(a, m) = Drained(r, m)
      /\ \A m \in Members : Exited(a, m) \/ a.seen[m].rev # 0
  BY <1>0 DEF Valid, Exited, Sealed, Drained
<1>2. Host \in Members /\ \A i \in Nodes : i \in Members
  BY RetirementConstants DEF Host, Members, Nodes
<1>3. CASE r.phase <= HOST_SEAL
  <2>1. a.phase = r.phase + 1 /\ a.cursor = 0 /\ a.released = r.released
    BY <1>3 DEF Advance, Records
  <2>2. ~AtEnd(r) /\ Target(r) = Host
    BY <1>3 DEF AtEnd, Target
  <2>3. r.phase = HOST_DRAIN => Drained(r, Host)
    BY <1>3, <2>2 DEF Calls, Drained
  <2>4. r.phase = HOST_SEAL => Sealed(r, Host)
    BY <1>3, <2>2 DEF Calls, Sealed
  <2>5. r.released = {}
    BY <1>3 DEF Valid, Records
  <2> QED BY <1>1, <1>2, <1>3, <2>1, <2>3, <2>4, <2>5 DEF Valid, Records
<1>4. CASE AtEnd(r) /\ r.phase \in {NODE_DRAIN, NODE_SEAL}
  <2>1. a.phase = r.phase + 1 /\ a.cursor = 0 /\ a.released = r.released /\ r.cursor = Count
    BY <1>4 DEF Advance, Records, AtEnd
  <2>2. r.released = {} /\ Sealed(r, Host)
    BY <1>4 DEF Valid
  <2>3. r.phase = NODE_DRAIN => \A i \in Nodes : Drained(r, i)
    BY <2>1 DEF Valid, Nodes
  <2>4. r.phase = NODE_SEAL => \A i \in Nodes : Sealed(r, i)
    BY <2>1 DEF Valid, Nodes
  <2>5. Ordered(0) = {}
    BY DEF Ordered
  <2>6. Valid(a)
    BY <1>1, <1>2, <1>4, <2>1, <2>2, <2>3, <2>4, <2>5 DEF Valid
  <2> QED BY <2>6
<1>5. CASE AtEnd(r) /\ r.phase = RELEASE
  <2>1. a.phase = DONE /\ a.cursor = Count /\ a.released = r.released /\ r.cursor = Count
    BY <1>5 DEF Advance, Records, AtEnd
  <2>2. r.released = Nodes
    BY <1>5, <2>1, OrderedAll DEF Valid
  <2>3. Sealed(r, Host) /\ \A i \in Nodes : Sealed(r, i)
    BY <1>5 DEF Valid
  <2> QED BY <1>1, <1>2, <2>1, <2>2, <2>3, OrderedAll DEF Valid
<1>6. CASE ~AtEnd(r) /\ r.phase \in {NODE_DRAIN, NODE_SEAL}
  <2>1. a.phase = r.phase /\ a.cursor = r.cursor + 1 /\ a.released = r.released
    BY <1>6 DEF Advance, Records
  <2>2. Target(r) = r.cursor + 1 /\ r.cursor \in 0..(Count - 1)
    BY <1>6, TargetFacts DEF Target
  <2>3. r.phase = NODE_DRAIN => Drained(r, r.cursor + 1)
    BY <1>6, <2>2 DEF Calls, Drained
  <2>4. r.phase = NODE_SEAL => Sealed(r, r.cursor + 1)
    BY <1>6, <2>2 DEF Calls, Sealed
  <2>5. /\ 1..(r.cursor + 1) = (1..r.cursor) \cup {r.cursor + 1}
        /\ 1..(r.cursor + 1) \subseteq Nodes
    BY <2>2, RetirementConstants DEF Nodes
  <2>6. r.phase = NODE_DRAIN => \A i \in 1..a.cursor : Drained(a, i)
    BY <1>1, <1>2, <2>1, <2>3, <2>5 DEF Valid
  <2>7. r.phase = NODE_SEAL => \A i \in 1..a.cursor : Sealed(a, i)
    BY <1>1, <1>2, <2>1, <2>4, <2>5 DEF Valid
  <2> QED BY <1>1, <1>2, <1>6, <2>1, <2>6, <2>7 DEF Valid
<1>7. CASE ~AtEnd(r) /\ r.phase = RELEASE
  <2>1. a.phase = RELEASE /\ a.cursor = r.cursor + 1 /\ a.released = r.released \cup {Target(r)}
    BY <1>7 DEF Advance, Records
  <2>2. Target(r) = Order(r.cursor) /\ r.cursor \in 0..(Count - 1)
    BY <1>7, TargetFacts DEF Target
  <2>3. a.released = Ordered(a.cursor)
    BY <1>7, <2>1, <2>2, OrderedNext DEF Valid
  <2> QED BY <1>1, <1>2, <1>7, <2>1, <2>3 DEF Valid
<1> QED BY <1>3, <1>4, <1>5, <1>6, <1>7 DEF Records

\* An exit only weakens what a valid record must show of its members, and the
\* step that met it has nothing left to call.
LEMMA ExitFacts ==
    ASSUME NEW r \in Records, NEW i \in Nodes
    PROVE  /\ WithExit(r, i) \in Records
           /\ WithExit(r, i).exited = r.exited \cup {i}
           /\ WithExit(r, i).released = r.released
           /\ WithExit(r, i).phase = r.phase /\ WithExit(r, i).cursor = r.cursor
           /\ \A m \in Members : WithExit(r, i).seen[m] = IF MachineOf(m) = i THEN NoFence ELSE r.seen[m]
           /\ Valid(r) => Valid(WithExit(r, i))
           /\ AtEnd(WithExit(r, i)) = AtEnd(r) /\ Target(WithExit(r, i)) = Target(r)
<1> DEFINE s == [m \in Members |-> IF MachineOf(m) = i THEN NoFence ELSE r.seen[m]]
           x == WithExit(r, i)
<1>1. x = [r EXCEPT !.exited = @ \cup {i}, !.seen = s]
  BY DEF WithExit
<1>2. NoFence \in Fences
  BY RetirementConstants DEF NoFence, Fences
<1>3. s \in [Members -> Fences]
  BY <1>2 DEF Records
<1> HIDE DEF s
<1>4. /\ x \in Records /\ x.exited = r.exited \cup {i} /\ x.released = r.released
      /\ x.phase = r.phase /\ x.cursor = r.cursor /\ x.seen = s
  BY <1>1, <1>3 DEF Records
<1>5. \A m \in Members : x.seen[m] = IF MachineOf(m) = i THEN NoFence ELSE r.seen[m]
  BY <1>4 DEF s
<1>6. AtEnd(x) = AtEnd(r) /\ Target(x) = Target(r)
  BY <1>4 DEF AtEnd, Target
<1> HIDE DEF x
<1>7. /\ \A m \in Members : Exited(r, m) => Exited(x, m)
      /\ \A m \in Members : Sealed(r, m) => Sealed(x, m)
      /\ \A m \in Members : Drained(r, m) => Drained(x, m)
      /\ \A m \in Members : Exited(x, m) \/ x.seen[m] = r.seen[m]
  BY <1>4, <1>5 DEF Exited, Sealed, Drained
<1>8. Host \in Members /\ (\A k \in Nodes : k \in Members) /\ \A k \in 1..r.cursor : k \in Members
  BY RetirementConstants DEF Host, Members, Nodes, Records
<1>9. Valid(r) => Valid(x)
  BY <1>4, <1>7, <1>8 DEF Valid
<1> QED BY <1>4, <1>5, <1>6, <1>9 DEF x

\* A command that was answered: the record knows the state it asked for.
LEMMA SeenFacts ==
    ASSUME NEW r \in Records, Valid(r), r.phase < RELEASE, Calls(r),
           NEW v \in 1..RevMax
    PROVE  LET x == [r EXCEPT !.seen[Target(r)] = [rev |-> v, draining |-> Wanted(r)]]
           IN  /\ x \in Records /\ Valid(x) /\ ~Calls(x) /\ x.phase = r.phase
               /\ x.exited = r.exited /\ x.released = r.released
               /\ x.seen[Target(r)].draining = Wanted(r)
               /\ \A m \in Members : m # Target(r) => x.seen[m] = r.seen[m]
<1> DEFINE t == Target(r)
           f == [rev |-> v, draining |-> Wanted(r)]
           x == [r EXCEPT !.seen[t] = f]
<1>1. t \in Members /\ ~AtEnd(r)
  BY TargetFacts DEF Calls, Records
<1>2. f \in Fences /\ f.draining = Wanted(r) /\ f.rev # 0 /\ Wanted(r) # 0
  BY RetirementConstants DEF Fences, Wanted
<1> HIDE DEF f, t
<1>3. /\ x \in Records /\ x.phase = r.phase /\ x.cursor = r.cursor
      /\ x.exited = r.exited /\ x.released = r.released
      /\ x.seen[t] = f /\ \A m \in Members : m # t => x.seen[m] = r.seen[m]
  BY <1>1, <1>2 DEF Records
<1> HIDE DEF x
<1>4. AtEnd(x) = AtEnd(r) /\ Target(x) = t
  BY <1>3 DEF AtEnd, Target, t
<1>5. Exited(r, t) = Exited(x, t) /\ \A m \in Members : Exited(x, m) = Exited(r, m)
  BY <1>1, <1>3 DEF Exited
<1>6. ~Calls(x)
  <2>1. CASE r.phase \in {HOST_DRAIN, NODE_DRAIN}
    BY <1>2, <1>3, <1>4, <2>1 DEF Calls, Wanted
  <2>2. CASE r.phase \in {HOST_SEAL, NODE_SEAL}
    BY <1>2, <1>3, <1>4, <2>2 DEF Calls, Wanted
  <2> QED BY <2>1, <2>2 DEF Records
<1>7. \A m \in Members : Drained(r, m) => Drained(x, m)
  BY <1>2, <1>3, <1>5 DEF Drained
<1>8. \A m \in Members : m # t => (Sealed(r, m) => Sealed(x, m))
  BY <1>3, <1>5 DEF Sealed
<1>9. Sealed(r, t) => Sealed(x, t)
  <2>1. ~Sealed(r, t)
    BY DEF Calls, Sealed, t, Records
  <2> QED BY <2>1
<1>10. Host \in Members /\ (\A k \in Nodes : k \in Members) /\ \A k \in 1..r.cursor : k \in Members
  BY RetirementConstants DEF Host, Members, Nodes, Records
<1>11. \A m \in Members : Exited(x, m) \/ x.seen[m].rev # 0
  BY <1>2, <1>3, <1>5 DEF Valid
<1>12. Valid(x)
  BY <1>3, <1>7, <1>8, <1>9, <1>10, <1>11 DEF Valid
<1> QED BY <1>2, <1>3, <1>6, <1>12 DEF x, t, f

-----------------------------------------------------------------------------
(* The operator's place and its record. *)

RecordFacts ==
    /\ pc = "store" => Valid(rec)
    /\ pc \in {"step", "prove", "await"} => Valid(rec) /\ rec.phase # DONE
    /\ pc \in {"prove", "await"} => ~AtEnd(rec) /\ at = Target(rec)
    /\ pc = "await" => rec.phase = RELEASE
    /\ pc \in {"query", "prove query"} =>
          /\ rec.phase = HOST_DRAIN /\ rec.cursor = 0 /\ rec.released = {}
          /\ \A m \in Members : m < at => Exited(rec, m) \/ rec.seen[m].rev # 0
    /\ \A r \in journal : Valid(r)

ProofInv == TypeOK /\ RecordFacts

\* The record a retirement starts from.
LEMMA NewRecordFacts == NewRecord \in Records
  BY RetirementConstants DEF NewRecord, Records, NoFence, Fences

\* The first state satisfies both.
LEMMA InitProofInv == Init => ProofInv
<1> SUFFICES ASSUME Init PROVE ProofInv
  OBVIOUS
<1>1. TypeOK
  BY NewRecordFacts, RetirementConstants DEF Init, TypeOK, Members, Nodes, Host
<1>2. RecordFacts
  BY DEF Init, RecordFacts
<1> QED BY <1>1, <1>2 DEF ProofInv

\* A member's machine is a node.
LEMMA MachineFacts == \A m \in Members : MachineOf(m) \in Nodes
  BY RetirementConstants DEF MachineOf, Members, Nodes, Host

\* Commands keep the members' states typed.
LEMMA ApplyType ==
    ASSUME TypeOK, NEW m \in Members, NEW wanted \in 0..RETIRED, NEW expected,
           Apply(m, wanted, expected)
    PROVE  rev' \in [Members -> 1..RevMax] /\ draining' \in [Members -> 0..RETIRED]
<1>1. CASE ~Replayed(m, wanted, expected) /\ MayApply(m, wanted, expected)
  <2>0. rev[m] \in 1..RevMax /\ rev[m] # RevMax
    BY <1>1 DEF MayApply, TypeOK
  <2>1. rev[m] + 1 \in 1..RevMax
    BY <2>0, RetirementConstants
  <2> QED BY <1>1, <2>1 DEF Apply, TypeOK
<1>2. CASE ~(~Replayed(m, wanted, expected) /\ MayApply(m, wanted, expected))
  BY <1>2 DEF Apply, TypeOK
<1> QED BY <1>1, <1>2

\* So does the end of a machine's processes.
LEMMA ReleaseType ==
    ASSUME TypeOK, NEW i \in Nodes, NEW next \in {"released", "stopped"}, Release(i, next)
    PROVE  /\ work' \in [Members -> BOOLEAN]
           /\ proc' \in [Nodes -> {"up", "dying", "gone"}]
           /\ keeper' \in [Nodes -> {"ready", "retiring", "stopped", "pending", "released", "lost"}]
<1>1. work' \in [Members -> BOOLEAN]
  BY DEF Release, Ends, TypeOK
<1>2. PICK p \in {"dying", "gone"} : /\ proc' = [proc EXCEPT ![i] = p]
                                     /\ keeper' = [keeper EXCEPT ![i] = Released(p, next)]
  BY DEF Release, Stopped
<1>3. Released(p, next) \in {"released", "stopped", "pending"}
  BY DEF Released
<1> QED BY <1>1, <1>2, <1>3 DEF TypeOK

\* The record's facts are about the operator's variables alone.
LEMMA RecordFactsKept == RecordFacts /\ UNCHANGED operator => RecordFacts'
  BY DEF RecordFacts, operator

\* Steps in which the operator takes no part keep both.
LEMMA BystanderStep ==
    ASSUME ProofInv, UNCHANGED operator, NEW i \in Nodes, NEW m \in Members,
           \/ KeeperReleases(i) \/ KeeperRetries(i) \/ ChildDies(i) \/ LastExits(i)
           \/ KeeperCrashes(i) \/ RetireStops(i) \/ ExitRetried
           \/ NodeAdmits(i) \/ HostAdmits \/ WorkEnds(m)
           \/ \E action \in AdminActions : AdminCommand(m, action)
    PROVE  ProofInv'
<1>0. RecordFacts'
  BY RecordFactsKept DEF ProofInv
<1>1. TypeOK /\ UNCHANGED <<journal, rec, pc, at>>
  BY DEF ProofInv, operator
<1>2. CASE KeeperReleases(i) \/ KeeperRetries(i) \/ RetireStops(i)
  <2>1. PICK next \in {"released", "stopped"} : Release(i, next)
    BY <1>2 DEF KeeperReleases, KeeperRetries, RetireStops
  <2>2. UNCHANGED <<rev, draining, kept, receipt>>
    BY <1>2 DEF KeeperReleases, KeeperRetries, RetireStops
  <2>3. TypeOK'
    BY <1>1, <2>1, <2>2, ReleaseType DEF TypeOK
  <2> QED BY <1>0, <2>3 DEF ProofInv
<1>3. CASE ExitRetried
  <2>1. MachineOf(at) \in Nodes /\ Release(MachineOf(at), "released")
    BY <1>1, <1>3, MachineFacts DEF ExitRetried, TypeOK
  <2>2. UNCHANGED <<rev, draining, kept, receipt>>
    BY <1>3 DEF ExitRetried
  <2>3. TypeOK'
    BY <1>1, <2>1, <2>2, ReleaseType DEF TypeOK
  <2> QED BY <1>0, <2>3 DEF ProofInv
<1>4. CASE ChildDies(i) \/ LastExits(i) \/ KeeperCrashes(i)
  <2>1. TypeOK'
    BY <1>1, <1>4 DEF ChildDies, LastExits, KeeperCrashes, Ends, members, TypeOK
  <2> QED BY <1>0, <2>1 DEF ProofInv
<1>5. CASE NodeAdmits(i) \/ HostAdmits \/ WorkEnds(m)
  <2>1. TypeOK'
    BY <1>1, <1>5 DEF NodeAdmits, HostAdmits, WorkEnds, machines, TypeOK
  <2> QED BY <1>0, <2>1 DEF ProofInv
<1>6. CASE \E action \in AdminActions : AdminCommand(m, action)
  <2>1. PICK wanted \in 0..RETIRED : Apply(m, wanted, rev[m])
    BY <1>6 DEF AdminCommand
  <2>2. UNCHANGED <<work, proc, keeper, kept, receipt>>
    BY <1>6 DEF AdminCommand, machines
  <2>3. TypeOK'
    BY <1>1, <2>1, <2>2, ApplyType DEF TypeOK
  <2> QED BY <1>0, <2>3 DEF ProofInv
<1> QED BY <1>2, <1>3, <1>4, <1>5, <1>6

\* A run that ends leaves the record on disk and forgets its own.
LEMMA GivesUpStep ==
    ASSUME ProofInv, GivesUp
    PROVE  /\ RecordFacts' /\ journal' = journal /\ rec' = NewRecord
           /\ rec' \in Records /\ pc' = "idle" /\ at' \in Members
<1>1. rec' = NewRecord /\ journal' = journal /\ pc' = "idle" /\ at' = Host
  BY DEF GivesUp, Goes
<1>2. RecordFacts'
  BY <1>1 DEF RecordFacts, ProofInv
<1> QED BY <1>1, <1>2, NewRecordFacts, RetirementConstants DEF Host, Members

\* A step that succeeded goes to the save with a valid record.
LEMMA SuccessStep ==
    ASSUME ProofInv, NEW r \in Records, Valid(r), r.phase # DONE, ~Calls(r) \/ r.phase = RELEASE,
           rec' = Advance(r), Goes("store", Host), journal' = journal
    PROVE  /\ RecordFacts' /\ rec' \in Records /\ pc' = "store" /\ at' \in Members
<1>1. rec' \in Records /\ Valid(rec')
  BY AdvanceFacts, AdvanceValid
<1>2. pc' = "store" /\ at' = Host
  BY DEF Goes
<1>3. RecordFacts'
  BY <1>1, <1>2 DEF RecordFacts, ProofInv
<1> QED BY <1>1, <1>2, <1>3, RetirementConstants DEF Host, Members

\* The record that has heard of every member is valid.
LEMMA FirstRecordValid ==
    ASSUME NEW r \in Records, r.phase = 0, r.cursor = 0, r.released = {},
           \A m \in Members : Exited(r, m) \/ r.seen[m].rev # 0
    PROVE  Valid(r)
  BY DEF Valid

\* The members are numbered from the host on.
LEMMA MembersFacts ==
    /\ Host \in Members /\ (\A i \in Nodes : i \in Members) /\ \A m \in Members : m <= Count
    /\ \A m \in Members : m # Count => m + 1 \in Members
    /\ \A m, n \in Members : m < n + 1 => m <= n
  BY RetirementConstants DEF Host, Members, Nodes

\* So does a query or a skip of the first round, until the last member.
LEMMA QueryStep ==
    ASSUME ProofInv, NEW r \in Records, r.phase = 0, r.cursor = 0, r.released = {},
           \A m \in Members : m <= at => Exited(r, m) \/ r.seen[m].rev # 0,
           QueryNext, rec' = r, journal' = journal
    PROVE  RecordFacts' /\ pc' \in {"store", "query"} /\ at' \in Members
<1>1. at \in Members
  BY DEF ProofInv, TypeOK
<1>2. CASE at = Count
  <2>1. pc' = "store" /\ at' = Host
    BY <1>2 DEF QueryNext, Goes
  <2>2. Valid(r)
    BY <1>2, MembersFacts, FirstRecordValid
  <2> QED BY <2>1, <2>2, MembersFacts DEF RecordFacts, ProofInv
<1>3. CASE at # Count
  <2>1. pc' = "query" /\ at' = at + 1
    BY <1>3 DEF QueryNext, Goes
  <2>2. at + 1 \in Members /\ \A m \in Members : m < at + 1 => m <= at
    BY <1>1, <1>3, MembersFacts
  <2>3. \A m \in Members : m < at' => Exited(rec', m) \/ rec'.seen[m].rev # 0
    BY <2>1, <2>2
  <2> QED BY <2>1, <2>2, <2>3 DEF RecordFacts, ProofInv
<1> QED BY <1>2, <1>3

\* Only the operator's own variables have to be typed when it alone moves.
LEMMA OperatorOnly ==
    ASSUME ProofInv, UNCHANGED <<members, machines>>, RecordFacts', rec' \in Records,
           journal' \subseteq Records, at' \in Members,
           pc' \in {"idle", "query", "step", "store", "await", "prove", "prove query"}
    PROVE  ProofInv'
  BY DEF ProofInv, TypeOK, members, machines

\* Every action of the operator keeps both.
LEMMA OperatorStep ==
    ASSUME ProofInv, Operator
    PROVE  ProofInv'
<1>0. /\ TypeOK /\ RecordFacts /\ rec \in Records /\ journal \subseteq Records
      /\ at \in Members /\ MachineOf(at) \in Nodes
  BY MachineFacts DEF ProofInv, TypeOK
<1>1. CASE Crash
  <2>1. GivesUp /\ UNCHANGED <<members, machines>>
    BY <1>1 DEF Crash, GivesUp
  <2> QED BY <1>0, <2>1, GivesUpStep, OperatorOnly
<1>2. CASE Begin
  <2>1. UNCHANGED <<members, machines>> /\ pc' = "query" /\ at' = Host /\ rec' = NewRecord
        /\ journal' = journal
    BY <1>2 DEF Begin, Goes
  <2>2. \A m \in Members : ~(m < Host)
    BY RetirementConstants DEF Host, Members
  <2>3. NewRecord.phase = 0 /\ NewRecord.cursor = 0 /\ NewRecord.released = {}
    BY DEF NewRecord
  <2>4. RecordFacts'
    BY <1>0, <2>1, <2>2, <2>3 DEF RecordFacts
  <2> QED BY <1>0, <2>1, <2>4, MembersFacts, NewRecordFacts, OperatorOnly
<1>3. CASE Rerun
  <2>1. PICK r \in journal : /\ Valid(r)
                             /\ IF r.phase = DONE THEN UNCHANGED <<rec, pc, at>>
                                ELSE rec' = r /\ Goes("step", Host)
    BY <1>3 DEF Rerun
  <2>2. UNCHANGED <<members, machines>> /\ journal' = journal
    BY <1>3 DEF Rerun
  <2>3. CASE r.phase = DONE
    <3>1. RecordFacts'
      BY <1>0, <2>1, <2>2, <2>3 DEF RecordFacts
    <3> QED BY <1>0, <2>1, <2>2, <2>3, <3>1, OperatorOnly DEF TypeOK
  <2>4. CASE r.phase # DONE
    <3>1. rec' = r /\ pc' = "step" /\ at' = Host
      BY <2>1, <2>4 DEF Goes
    <3>2. RecordFacts'
      BY <1>0, <2>1, <2>2, <2>4, <3>1 DEF RecordFacts
    <3> QED BY <1>0, <2>2, <3>1, <3>2, MembersFacts, OperatorOnly
  <2> QED BY <2>3, <2>4
<1>4. CASE Query
  <2>0. pc = "query" /\ UNCHANGED <<members, machines>> /\ journal' = journal
    BY <1>4 DEF Query
  <2>1. CASE Goes("prove query", at) /\ UNCHANGED rec
    <3>1. RecordFacts'
      BY <1>0, <2>0, <2>1 DEF RecordFacts, Goes
    <3> QED BY <1>0, <2>0, <2>1, <3>1, OperatorOnly DEF Goes
  <2>2. CASE /\ rec' = [rec EXCEPT !.seen[at] = [rev |-> rev[at], draining |-> draining[at]]]
             /\ QueryNext
    <3> DEFINE f == [rev |-> rev[at], draining |-> draining[at]]
               r == [rec EXCEPT !.seen[at] = f]
    <3>0. rev[at] \in 1..RevMax /\ draining[at] \in 0..RETIRED
      BY <1>0 DEF TypeOK
    <3>1. f \in Fences /\ f.rev # 0
      BY <3>0, RetirementConstants DEF Fences
    <3> HIDE DEF f
    <3>2. /\ r \in Records /\ r.phase = rec.phase /\ r.cursor = rec.cursor
          /\ r.released = rec.released /\ r.exited = rec.exited
          /\ r.seen[at] = f /\ \A m \in Members : m # at => r.seen[m] = rec.seen[m]
      BY <1>0, <3>1 DEF Records
    <3>3. rec' = r
      BY <2>2 DEF f
    <3> HIDE DEF r
    <3>4. rec.phase = 0 /\ rec.cursor = 0 /\ rec.released = {}
      BY <1>0, <2>0 DEF RecordFacts
    <3>5. \A m \in Members : m <= at => Exited(r, m) \/ r.seen[m].rev # 0
      <4> SUFFICES ASSUME NEW m \in Members, m <= at
                   PROVE  Exited(r, m) \/ r.seen[m].rev # 0
        OBVIOUS
      <4>1. m = at \/ m < at
        BY <1>0, RetirementConstants DEF Members
      <4> QED BY <1>0, <2>0, <3>1, <3>2, <4>1 DEF RecordFacts, Exited
    <3>6. RecordFacts' /\ pc' \in {"store", "query"} /\ at' \in Members
      BY <2>0, <2>2, <3>2, <3>3, <3>4, <3>5, QueryStep
    <3> QED BY <1>0, <2>0, <3>2, <3>3, <3>6, OperatorOnly
  <2> QED BY <1>4, <2>1, <2>2 DEF Query
<1>5. CASE QuerySkips
  <2>0. /\ pc = "query" /\ UNCHANGED <<members, machines>> /\ journal' = journal /\ rec' = rec
        /\ QueryNext /\ Exited(rec, at)
    BY <1>5 DEF QuerySkips
  <2>1. \A m \in Members : m <= at => m < at \/ m = at
    BY <1>0, RetirementConstants DEF Members
  <2>2. RecordFacts' /\ pc' \in {"store", "query"} /\ at' \in Members
    BY <1>0, <2>0, <2>1, QueryStep DEF RecordFacts
  <2> QED BY <1>0, <2>0, <2>2, OperatorOnly
<1>6. CASE Command
  <2> DEFINE m == Target(rec)
             expected == rec.seen[m].rev
             wanted == Wanted(rec)
  <2>0. /\ pc = "step" /\ rec.phase < RELEASE /\ Calls(rec) /\ UNCHANGED machines
        /\ Apply(m, wanted, expected)
    BY <1>6 DEF Command
  <2>1. m \in Members /\ Valid(rec) /\ rec.phase # DONE /\ ~AtEnd(rec) /\ wanted \in 0..RETIRED
    BY <1>0, <2>0, TargetFacts DEF RecordFacts, Calls, Wanted
  <2>2. rev' \in [Members -> 1..RevMax] /\ draining' \in [Members -> 0..RETIRED]
    BY <1>0, <2>0, <2>1, ApplyType
  <2>3. work' \in [Members -> BOOLEAN]
    <3>1. work \in [Members -> BOOLEAN]
      BY <1>0 DEF TypeOK
    <3>2. \/ work' = work
          \/ work' = [j \in Members |-> j = Host /\ work[Host]]
      BY <1>6 DEF Command
    <3>3. [j \in Members |-> j = Host /\ work[Host]] \in [Members -> BOOLEAN]
      BY Zenon
    <3> QED BY <3>1, <3>2, <3>3
  <2>4. /\ RecordFacts' /\ rec' \in Records /\ journal' = journal /\ at' \in Members
        /\ pc' \in {"store", "idle", "prove"}
    <3>1. CASE /\ rec' = Advance([rec EXCEPT !.seen[m] = [rev |-> rev'[m], draining |-> wanted]])
               /\ Goes("store", Host) /\ UNCHANGED journal
      <4> DEFINE x == [rec EXCEPT !.seen[m] = [rev |-> rev'[m], draining |-> wanted]]
      <4>1. rev'[m] \in 1..RevMax
        BY <2>1, <2>2
      <4>2. x \in Records /\ Valid(x) /\ ~Calls(x) /\ x.phase = rec.phase
        BY <1>0, <2>0, <2>1, <4>1, SeenFacts
      <4> HIDE DEF x
      <4>3. rec' = Advance(x)
        BY <3>1 DEF x
      <4> QED BY <2>1, <3>1, <4>2, <4>3, SuccessStep
    <3>2. CASE GivesUp
      BY <1>0, <3>2, GivesUpStep
    <3>3. CASE Goes("prove", m) /\ Stays
      <4>1. RecordFacts'
        BY <1>0, <2>1, <3>3 DEF RecordFacts, Goes, Stays
      <4> QED BY <1>0, <2>1, <3>3, <4>1 DEF Goes, Stays
    <3> QED BY <1>6, <3>1, <3>2, <3>3 DEF Command
  <2> QED BY <1>0, <2>0, <2>2, <2>3, <2>4 DEF ProofInv, TypeOK, machines
<1>7. CASE NoAnswer
  <2>1. /\ pc = "step" /\ Calls(rec) /\ pc' = "prove" /\ at' = Target(rec)
        /\ UNCHANGED <<members, machines>> /\ journal' = journal /\ rec' = rec
    BY <1>7 DEF NoAnswer, Goes
  <2>2. rec.phase # DONE /\ Valid(rec) /\ ~AtEnd(rec)
    BY <1>0, <2>1 DEF RecordFacts, Calls
  <2>3. Target(rec) \in Members
    BY <1>0, <2>2, TargetFacts
  <2>4. RecordFacts'
    BY <1>0, <2>1, <2>2 DEF RecordFacts
  <2> QED BY <1>0, <2>1, <2>3, <2>4, OperatorOnly
<1>8. CASE StepSkips
  <2>1. /\ pc = "step" /\ ~Calls(rec) /\ rec' = Advance(rec) /\ Goes("store", Host)
        /\ UNCHANGED <<members, machines>> /\ journal' = journal
    BY <1>8 DEF StepSkips
  <2>2. rec.phase # DONE /\ Valid(rec)
    BY <1>0, <2>1 DEF RecordFacts
  <2> QED BY <1>0, <2>1, <2>2, SuccessStep, OperatorOnly
<1>9. CASE Store
  <2>1. pc = "store" /\ Valid(rec) /\ UNCHANGED <<members, machines>> /\ journal' = {rec}
    BY <1>0, <1>9 DEF Store, RecordFacts
  <2>2. CASE rec.phase = DONE
    <3>1. rec' = NewRecord /\ pc' = "idle" /\ at' = Host
      BY <1>9, <2>1, <2>2 DEF Store, Goes
    <3>2. RecordFacts'
      BY <2>1, <3>1 DEF RecordFacts
    <3> QED BY <1>0, <2>1, <3>1, <3>2, MembersFacts, NewRecordFacts, OperatorOnly
  <2>3. CASE rec.phase # DONE
    <3>1. rec' = rec /\ pc' = "step" /\ at' = Host
      BY <1>9, <2>1, <2>3 DEF Store, Goes
    <3>2. RecordFacts'
      BY <2>1, <2>3, <3>1 DEF RecordFacts
    <3> QED BY <1>0, <2>1, <3>1, <3>2, MembersFacts, OperatorOnly
  <2> QED BY <2>2, <2>3
<1>10. CASE AwaitTimesOut
  <2>1. /\ pc = "await" /\ pc' = "prove" /\ at' = at
        /\ UNCHANGED <<members, machines>> /\ journal' = journal /\ rec' = rec
    BY <1>10 DEF AwaitTimesOut, Goes
  <2>2. RecordFacts'
    BY <1>0, <2>1 DEF RecordFacts
  <2> QED BY <1>0, <2>1, <2>2, OperatorOnly
<1>11. CASE ExitProved
  <2> DEFINE i == MachineOf(at)
             known == WithExit(rec, i)
  <2>0. UNCHANGED <<members, machines>> /\ journal' = journal /\ Proving
    BY <1>11 DEF ExitProved
  <2>1. /\ known \in Records /\ known.exited = rec.exited \cup {i} /\ known.released = rec.released
        /\ known.phase = rec.phase /\ known.cursor = rec.cursor
        /\ \A m \in Members : known.seen[m] = IF MachineOf(m) = i THEN NoFence ELSE rec.seen[m]
        /\ Valid(rec) => Valid(known)
        /\ AtEnd(known) = AtEnd(rec) /\ Target(known) = Target(rec)
    BY <1>0, ExitFacts
  <2>2. CASE pc = "prove query"
    <3>1. rec' = known /\ QueryNext
      BY <1>11, <2>2 DEF ExitProved
    <3> HIDE DEF known
    <3>2. rec.phase = 0 /\ rec.cursor = 0 /\ rec.released = {}
      BY <1>0, <2>2 DEF RecordFacts
    <3>3. \A m \in Members : m <= at => Exited(known, m) \/ known.seen[m].rev # 0
      <4> SUFFICES ASSUME NEW m \in Members, m <= at
                   PROVE  Exited(known, m) \/ known.seen[m].rev # 0
        OBVIOUS
      <4>1. m = at \/ m < at
        BY <1>0, RetirementConstants DEF Members
      <4> QED BY <1>0, <2>1, <2>2, <4>1 DEF RecordFacts, Exited
    <3>4. RecordFacts' /\ pc' \in {"store", "query"} /\ at' \in Members
      BY <2>0, <2>1, <3>1, <3>2, <3>3, QueryStep
    <3> QED BY <1>0, <2>0, <2>1, <3>1, <3>4, OperatorOnly
  <2>3. CASE pc = "prove"
    <3>1. rec' = Advance(known) /\ Goes("store", Host)
      BY <1>11, <2>3 DEF ExitProved
    <3>2. Valid(rec) /\ rec.phase # DONE /\ at = Target(rec)
      BY <1>0, <2>3 DEF RecordFacts
    <3> HIDE DEF known
    <3>3. ~Calls(known)
      BY <2>1, <3>2 DEF Calls, Exited
    <3> QED BY <1>0, <2>0, <2>1, <3>1, <3>2, <3>3, SuccessStep, OperatorOnly
  <2> QED BY <2>0, <2>2, <2>3 DEF Proving
<1>12. CASE ExitUnknown
  <2>1. GivesUp /\ UNCHANGED <<members, machines>>
    BY <1>12 DEF ExitUnknown
  <2> QED BY <1>0, <2>1, GivesUpStep, OperatorOnly
<1>13. CASE ExitRetried
  <2>1. UNCHANGED operator
    BY <1>13 DEF ExitRetried
  <2> QED BY <1>0, <1>13, <2>1, BystanderStep
<1> QED BY <1>1, <1>2, <1>3, <1>4, <1>5, <1>6, <1>7, <1>8, <1>9, <1>10, <1>11, <1>12, <1>13 DEF Operator

\* So does every action of a machine, those that answer the operator included.
LEMMA MachineStep ==
    ASSUME ProofInv, NEW i \in Nodes, Machine(i)
    PROVE  ProofInv'
<1>0. /\ TypeOK /\ RecordFacts /\ rec \in Records /\ journal \subseteq Records
      /\ at \in Members /\ i \in Members
  BY MembersFacts DEF ProofInv, TypeOK
<1>1. CASE \/ KeeperReleases(i) \/ KeeperRetries(i) \/ ChildDies(i) \/ LastExits(i)
           \/ KeeperCrashes(i) \/ RetireStops(i)
  <2>1. UNCHANGED operator
    BY <1>1 DEF KeeperReleases, KeeperRetries, ChildDies, LastExits, KeeperCrashes, RetireStops
  <2> QED BY <1>0, <1>1, <2>1, BystanderStep
<1>2. CASE RetireBegins(i)
  <2>1. /\ pc = "step" /\ rec.phase = RELEASE /\ ~AtEnd(rec) /\ i = Target(rec)
        /\ pc' = "await" /\ at' = i /\ rec' = rec /\ journal' = journal
        /\ UNCHANGED <<members, proc>>
    BY <1>2 DEF RetireBegins, Releasing, Calls, Goes
  <2>2. RecordFacts'
    BY <1>0, <2>1 DEF RecordFacts
  <2>3. TypeOK'
    BY <1>0, <1>2, <2>1 DEF RetireBegins, TypeOK, members
  <2> QED BY <2>2, <2>3 DEF ProofInv
<1>3. CASE RetireEnds(i)
  <2>1. /\ UNCHANGED <<members, proc>> /\ journal' = journal
        /\ receipt' \in [Nodes -> {"none", "prepared", "done"}] /\ kept' \in [Nodes -> BOOLEAN]
        /\ keeper' \in [Nodes -> {"ready", "retiring", "stopped", "pending", "released", "lost"}]
    BY <1>0, <1>3 DEF RetireEnds, TypeOK
  <2>2. /\ RecordFacts' /\ rec' \in Records /\ at' \in Members
        /\ pc' \in {"idle", "query", "step", "store", "await", "prove", "prove query"}
    <3>1. CASE UNCHANGED <<rec, pc, at>>
      <4>1. UNCHANGED operator
        BY <2>1, <3>1 DEF operator
      <4> QED BY <1>0, <3>1, <4>1, RecordFactsKept DEF TypeOK
    <3>2. CASE pc = "await" /\ rec' = Advance(rec) /\ Goes("store", Host)
      <4>1. Valid(rec) /\ rec.phase # DONE /\ rec.phase = RELEASE
        BY <1>0, <3>2 DEF RecordFacts
      <4> QED BY <1>0, <2>1, <3>2, <4>1, SuccessStep
    <3> QED BY <1>3, <3>1, <3>2 DEF RetireEnds, Acknowledged
  <2> QED BY <1>0, <2>1, <2>2 DEF ProofInv, TypeOK, members
<1>4. CASE RetireReplays(i)
  <2>1. /\ UNCHANGED <<members, proc, keeper, receipt>> /\ journal' = journal
        /\ kept' \in [Nodes -> BOOLEAN]
        /\ pc = "step" /\ rec.phase = RELEASE /\ rec' = Advance(rec) /\ Goes("store", Host)
    BY <1>0, <1>4 DEF RetireReplays, Releasing, TypeOK
  <2>2. Valid(rec) /\ rec.phase # DONE
    BY <1>0, <2>1 DEF RecordFacts
  <2>3. RecordFacts' /\ rec' \in Records /\ pc' = "store" /\ at' \in Members
    BY <1>0, <2>1, <2>2, SuccessStep
  <2> QED BY <1>0, <2>1, <2>3 DEF ProofInv, TypeOK, members
<1>5. CASE RetireUnsaved(i)
  <2>1. TypeOK' /\ UNCHANGED operator
    BY <1>0, <1>5 DEF RetireUnsaved, TypeOK, members, operator
  <2> QED BY <1>0, <2>1, RecordFactsKept DEF ProofInv
<1> QED BY <1>1, <1>2, <1>3, <1>4, <1>5 DEF Machine

\* Every step keeps both.
LEMMA NextProofInv == ProofInv /\ [Next]_vars => ProofInv'
<1> SUFFICES ASSUME ProofInv, [Next]_vars PROVE ProofInv'
  OBVIOUS
<1>0. Edge \in Nodes /\ Host \in Members
  BY RetirementConstants, MembersFacts DEF Nodes
<1>1. CASE Operator
  BY <1>1, OperatorStep
<1>2. ASSUME NEW i \in Nodes, Machine(i) PROVE ProofInv'
  BY <1>2, MachineStep
<1>3. ASSUME NEW i \in Nodes, NodeAdmits(i) PROVE ProofInv'
  <2>1. UNCHANGED operator
    BY <1>3 DEF NodeAdmits
  <2> QED BY <1>0, <1>3, <2>1, BystanderStep
<1>4. CASE HostAdmits
  <2>1. UNCHANGED operator
    BY <1>4 DEF HostAdmits
  <2> QED BY <1>0, <1>4, <2>1, BystanderStep
<1>5. ASSUME NEW m \in Members, Member(m) PROVE ProofInv'
  <2>1. UNCHANGED operator
    BY <1>5 DEF Member, WorkEnds, AdminCommand
  <2>2. WorkEnds(m) \/ \E action \in AdminActions : AdminCommand(m, action)
    BY <1>5 DEF Member
  <2> QED BY <1>0, <2>1, <2>2, BystanderStep
<1>6. CASE UNCHANGED vars
  <2>1. TypeOK' /\ UNCHANGED operator
    BY <1>6 DEF vars, operator, ProofInv, TypeOK
  <2> QED BY <2>1, RecordFactsKept DEF ProofInv
<1> QED BY <1>1, <1>2, <1>3, <1>4, <1>5, <1>6 DEF Next

\* Every behaviour keeps both.
THEOREM ProofInvariant == Spec => []ProofInv
  BY InitProofInv, NextProofInv, PTL DEF Spec

\* Types are kept by every command, release, save and crash.
THEOREM TypeCorrect == Spec => []TypeOK
<1>1. ProofInv => TypeOK
  BY DEF ProofInv
<1> QED BY <1>1, ProofInvariant, PTL

\* The operator never builds or stores a record that its journal would refuse.
THEOREM JournalStaysValid == Spec => []RecordsAreValid
<1>1. ProofInv => RecordsAreValid
  BY DEF ProofInv, RecordFacts, RecordsAreValid
<1> QED BY <1>1, ProofInvariant, PTL

-----------------------------------------------------------------------------
(* Evidence. *)

\* What a step may do to a machine's processes and its keeper.
Touches(j) ==
    \/ \E next \in {"released", "stopped"} : Release(j, next)
    \/ proc' = [proc EXCEPT ![j] = "dying"] /\ proc[j] = "up" /\ keeper' = keeper
    \/ proc' = [proc EXCEPT ![j] = "gone"] /\ keeper' = keeper
    \/ proc' = proc /\ keeper' = [keeper EXCEPT ![j] = "lost"]
    \/ RetireBegins(j)
    \/ RetireEnds(j)
    \/ RetireUnsaved(j)

\* Who may stop processes, and who may change a member's state.
LEMMA WhoActs ==
    ASSUME TypeOK, [Next]_vars
    PROVE  /\ (proc' = proc /\ keeper' = keeper) \/ \E j \in Nodes : Touches(j)
           /\ \/ rev' = rev /\ draining' = draining
              \/ \E m \in Members, wanted \in 0..RETIRED : Apply(m, wanted, rev[m])
              \/ Command
           /\ receipt' = receipt \/ \E j \in Nodes : RetireBegins(j) \/ RetireEnds(j) \/ RetireUnsaved(j)
<1>1. CASE Operator
  <2>1. CASE ExitRetried
    BY <2>1, MachineFacts DEF ExitRetried, TypeOK, Touches
  <2>2. CASE Command
    BY <2>2 DEF Command, machines
  <2>3. CASE ~ExitRetried /\ ~Command
    <3>1. UNCHANGED <<members, machines>> \/ UNCHANGED <<rev, draining, machines>>
      BY <1>1, <2>3 DEF Operator, Crash, Begin, Rerun, Query, QuerySkips, NoAnswer, StepSkips, Store,
                        AwaitTimesOut, ExitProved, ExitUnknown
    <3> QED BY <3>1 DEF members, machines
  <2> QED BY <2>1, <2>2, <2>3
<1>2. ASSUME NEW j \in Nodes, Machine(j)
      PROVE  /\ UNCHANGED <<rev, draining>>
             /\ Touches(j) \/ (proc' = proc /\ keeper' = keeper)
             /\ receipt' = receipt \/ RetireBegins(j) \/ RetireEnds(j) \/ RetireUnsaved(j)
  BY <1>2 DEF Machine, KeeperReleases, KeeperRetries, ChildDies, LastExits, KeeperCrashes,
              RetireBegins, RetireStops, RetireEnds, RetireUnsaved, RetireReplays, members, Touches
<1>3. CASE HostAdmits \/ \E i \in Nodes : NodeAdmits(i)
  BY <1>3 DEF HostAdmits, NodeAdmits, machines
<1>4. ASSUME NEW m \in Members, Member(m)
      PROVE  /\ UNCHANGED machines
             /\ \/ rev' = rev /\ draining' = draining
                \/ \E wanted \in 0..RETIRED : Apply(m, wanted, rev[m])
  BY <1>4 DEF Member, WorkEnds, AdminCommand
<1>5. CASE UNCHANGED vars
  BY <1>5 DEF vars
<1> QED BY <1>1, <1>2, <1>3, <1>4, <1>5 DEF Next, machines

\* What Release leaves behind is gone, or the memory stays reserved.
LEMMA ReleaseFacts ==
    ASSUME TypeOK, NEW j \in Nodes, NEW next \in {"released", "stopped"}, Release(j, next)
    PROVE  /\ \A i \in Nodes : proc[i] = "gone" => proc'[i] = "gone"
           /\ \A i \in Nodes : i # j => keeper'[i] = keeper[i]
           /\ keeper'[j] = "pending" \/ (proc'[j] = "gone" /\ keeper'[j] = next)
<1>1. PICK p \in Stopped(j) : /\ proc' = [proc EXCEPT ![j] = p]
                              /\ keeper' = [keeper EXCEPT ![j] = Released(p, next)]
  BY DEF Release
<1>2. proc[j] = "gone" => p = "gone"
  BY DEF Stopped
<1>3. Released(p, next) = "pending" \/ (p = "gone" /\ Released(p, next) = next)
  BY DEF Released
<1> QED BY <1>1, <1>2, <1>3 DEF TypeOK

\* Processes that are gone stay gone: an allocation is never loaded again.
LEMMA GoneStays ==
    ASSUME TypeOK, [Next]_vars, NEW i \in Nodes, proc[i] = "gone"
    PROVE  proc'[i] = "gone"
<1>1. CASE proc' = proc
  BY <1>1
<1>2. ASSUME NEW j \in Nodes, NEW next \in {"released", "stopped"}, Release(j, next)
      PROVE  proc'[i] = "gone"
  BY <1>2, ReleaseFacts
<1>3. ASSUME NEW j \in Nodes, \/ proc' = [proc EXCEPT ![j] = "dying"] /\ proc[j] = "up"
                              \/ proc' = [proc EXCEPT ![j] = "gone"]
      PROVE  proc'[i] = "gone"
  BY <1>3 DEF TypeOK
<1>4. ASSUME NEW j \in Nodes, RetireBegins(j) \/ RetireEnds(j) \/ RetireUnsaved(j)
      PROVE  proc' = proc
  BY <1>4 DEF RetireBegins, RetireEnds, RetireUnsaved
<1> QED BY <1>1, <1>2, <1>3, <1>4, WhoActs DEF Touches

\* A command that is not the replay of the last one never undoes a seal.
LEMMA ApplyFacts ==
    ASSUME TypeOK, NEW m \in Members, NEW wanted \in 0..RETIRED, NEW expected,
           Apply(m, wanted, expected)
    PROVE  /\ \A k \in Members : draining[k] = RETIRED => draining'[k] = RETIRED
           /\ \A k \in Members : draining'[k] = RETIRED => draining[k] = RETIRED \/ ~work[k]
           /\ Replayed(m, wanted, expected) \/ MayApply(m, wanted, expected)
              => draining'[m] = wanted
<1>1. CASE ~Replayed(m, wanted, expected) /\ MayApply(m, wanted, expected)
  BY <1>1 DEF Apply, MayApply, TypeOK
<1>2. CASE ~(~Replayed(m, wanted, expected) /\ MayApply(m, wanted, expected))
  BY <1>2 DEF Apply, Replayed, TypeOK
<1> QED BY <1>1, <1>2

\* A sealed member stays sealed.
LEMMA SealStays ==
    ASSUME ProofInv, [Next]_vars, NEW m \in Members, draining[m] = RETIRED
    PROVE  draining'[m] = RETIRED
<1>0. TypeOK
  BY DEF ProofInv
<1>1. CASE draining' = draining
  BY <1>1
<1>2. ASSUME NEW k \in Members, NEW wanted \in 0..RETIRED, Apply(k, wanted, rev[k])
      PROVE  draining'[m] = RETIRED
  BY <1>0, <1>2, ApplyFacts
<1>3. CASE Command
  <2>1. Target(rec) \in Members /\ Wanted(rec) \in 0..RETIRED
    BY <1>0, <1>3, TargetFacts DEF Command, Calls, Wanted, TypeOK, Records
  <2>2. Apply(Target(rec), Wanted(rec), rec.seen[Target(rec)].rev)
    BY <1>3 DEF Command
  <2> QED BY <1>0, <2>1, <2>2, ApplyFacts
<1> QED BY <1>0, <1>1, <1>2, <1>3, WhoActs

\* What the operator or a keeper takes for the end of a machine's processes.
Says(r, i) == i \in r.exited \cup r.released
Claimed(i) ==
    \/ receipt[i] = "done"
    \/ keeper[i] \in {"stopped", "released"}
    \/ \E r \in journal \cup {rec} : Says(r, i)

Evidence == \A i \in Nodes : Claimed(i) => proc[i] = "gone"

\* No step puts a node into a record, released or exited, that still runs.
LEMMA RecordsSayTrue ==
    ASSUME ProofInv, Evidence, [Next]_vars, NEW i \in Nodes, NEW r \in journal' \cup {rec'}, Says(r, i)
    PROVE  proc[i] = "gone"
<1>0. /\ TypeOK /\ RecordFacts /\ rec \in Records /\ at \in Members /\ MachineOf(at) \in Nodes
      /\ \A q \in journal \cup {rec} : Says(q, i) => proc[i] = "gone"
  BY MachineFacts DEF ProofInv, TypeOK, Evidence, Claimed
<1>a. ~Says(NewRecord, i)
  BY DEF Says, NewRecord
<1>b. ASSUME NEW q \in Records, q.phase # DONE, r = Advance(q),
             Says(q, i) => proc[i] = "gone",
             q.phase = RELEASE /\ ~AtEnd(q) /\ i = Target(q) => proc[i] = "gone"
      PROVE  proc[i] = "gone"
  BY <1>b, AdvanceFacts DEF Says
<1>1. CASE journal' \subseteq journal \cup {rec} /\ rec' \in journal \cup {rec, NewRecord}
  BY <1>0, <1>a, <1>1
<1>2. CASE Query /\ rec' # rec
  <2>1. /\ journal' = journal /\ rec' = [rec EXCEPT !.seen[at] = [rev |-> rev[at], draining |-> draining[at]]]
    BY <1>2 DEF Query
  <2>2. rec'.exited = rec.exited /\ rec'.released = rec.released
    BY <1>0, <2>1 DEF Records
  <2> QED BY <1>0, <2>1, <2>2 DEF Says
<1>3. CASE Command /\ ~GivesUp /\ ~Stays
  <2> DEFINE x == [rec EXCEPT !.seen[Target(rec)] = [rev |-> rev'[Target(rec)], draining |-> Wanted(rec)]]
  <2>1. /\ journal' = journal /\ rec' = Advance(x)
        /\ pc = "step" /\ rec.phase < RELEASE /\ Calls(rec)
        /\ Apply(Target(rec), Wanted(rec), rec.seen[Target(rec)].rev)
    BY <1>3 DEF Command
  <2>2. Valid(rec) /\ Target(rec) \in Members /\ Wanted(rec) \in 0..RETIRED
    BY <1>0, <2>1, TargetFacts DEF RecordFacts, Calls, Wanted
  <2>3. rev'[Target(rec)] \in 1..RevMax
    BY <1>0, <2>1, <2>2, ApplyType
  <2>4. x \in Records /\ x.phase = rec.phase /\ x.exited = rec.exited /\ x.released = rec.released
    BY <1>0, <2>1, <2>2, <2>3, SeenFacts
  <2> HIDE DEF x
  <2>5. CASE r \in journal
    BY <1>0, <2>5
  <2>6. CASE r = Advance(x)
    <3>1. Says(x, i) => proc[i] = "gone"
      BY <1>0, <2>4 DEF Says
    <3> QED BY <1>b, <2>1, <2>4, <2>6, <3>1
  <2> QED BY <2>1, <2>5, <2>6
<1>4. CASE StepSkips
  <2>1. journal' = journal /\ rec' = Advance(rec) /\ pc = "step" /\ ~Calls(rec)
    BY <1>4 DEF StepSkips
  <2>2. rec.phase # DONE
    BY <1>0, <2>1 DEF RecordFacts
  <2>3. rec.phase = RELEASE /\ ~AtEnd(rec) /\ i = Target(rec) => Says(rec, i)
    <3>1. i # Host
      BY RetirementConstants DEF Host, Nodes
    <3> QED BY <2>1, <3>1 DEF Calls, Says, Exited, MachineOf
  <2> QED BY <1>0, <1>b, <2>1, <2>2, <2>3
<1>5. CASE ExitProved
  <2> DEFINE x == WithExit(rec, MachineOf(at))
  <2>1. journal' = journal /\ proc[MachineOf(at)] = "gone"
    BY <1>5 DEF ExitProved, FenceFree
  <2>2. /\ x \in Records /\ x.exited = rec.exited \cup {MachineOf(at)} /\ x.released = rec.released
        /\ x.phase = rec.phase /\ AtEnd(x) = AtEnd(rec) /\ Target(x) = Target(rec)
    BY <1>0, ExitFacts
  <2>3. rec' = x \/ (pc = "prove" /\ rec' = Advance(x))
    BY <1>5 DEF ExitProved, Proving
  <2> HIDE DEF x
  <2>4. Says(x, i) => proc[i] = "gone"
    BY <1>0, <2>1, <2>2 DEF Says
  <2>5. CASE r \in journal \/ r = x
    BY <1>0, <2>4, <2>5
  <2>6. CASE pc = "prove" /\ r = Advance(x)
    <3>1. rec.phase # DONE /\ at = Target(rec)
      BY <1>0, <2>6 DEF RecordFacts
    <3>2. i # Host
      BY RetirementConstants DEF Host, Nodes
    <3>3. i = Target(x) => MachineOf(at) = i
      BY <2>2, <3>1, <3>2 DEF MachineOf
    <3> QED BY <1>b, <2>1, <2>2, <2>4, <2>6, <3>1, <3>3
  <2> QED BY <2>1, <2>3, <2>5, <2>6
<1>6. ASSUME NEW j \in Nodes, RetireEnds(j), rec' # rec PROVE proc[i] = "gone"
  <2>1. journal' = journal /\ pc = "await" /\ at = j /\ rec' = Advance(rec) /\ keeper[j] = "stopped"
    BY <1>6 DEF RetireEnds, Acknowledged
  <2>2. rec.phase # DONE /\ at = Target(rec)
    BY <1>0, <2>1 DEF RecordFacts
  <2>3. proc[j] = "gone"
    BY <2>1 DEF Evidence, Claimed
  <2> QED BY <1>0, <1>b, <2>1, <2>2, <2>3
<1>7. ASSUME NEW j \in Nodes, RetireReplays(j) PROVE proc[i] = "gone"
  <2>1. /\ journal' = journal /\ pc = "step" /\ rec' = Advance(rec) /\ receipt[j] = "done"
        /\ j = Target(rec)
    BY <1>7 DEF RetireReplays, Releasing, ReceiptCounts
  <2>2. rec.phase # DONE
    BY <1>0, <2>1 DEF RecordFacts
  <2>3. proc[j] = "gone"
    BY <2>1 DEF Evidence, Claimed
  <2> QED BY <1>0, <1>b, <2>1, <2>2, <2>3
<1>8. CASE \/ Crash \/ Begin \/ Rerun \/ (Query /\ rec' = rec) \/ QuerySkips \/ (Command /\ (GivesUp \/ Stays))
           \/ NoAnswer \/ Store \/ AwaitTimesOut \/ ExitUnknown \/ ExitRetried
  BY <1>1, <1>8 DEF Crash, Begin, Rerun, Query, QuerySkips, NoAnswer, Store, AwaitTimesOut,
                    ExitUnknown, ExitRetried, GivesUp, Stays, operator
<1>9. ASSUME NEW j \in Nodes, Machine(j) \/ NodeAdmits(j), ~RetireReplays(j), ~RetireEnds(j) \/ rec' = rec
      PROVE  proc[i] = "gone"
  BY <1>1, <1>9 DEF Machine, KeeperReleases, KeeperRetries, ChildDies, LastExits, KeeperCrashes,
                    RetireBegins, RetireStops, RetireEnds, RetireUnsaved, NodeAdmits, operator
<1>10. CASE HostAdmits \/ (\E m \in Members : Member(m)) \/ UNCHANGED vars
  BY <1>1, <1>10 DEF HostAdmits, Member, WorkEnds, AdminCommand, vars, operator
<1> QED BY <1>2, <1>3, <1>4, <1>5, <1>6, <1>7, <1>8, <1>9, <1>10 DEF Next, Operator

\* Evidence holds at first, when there is none.
LEMMA InitEvidence == Init => Evidence
  BY DEF Init, Evidence, Claimed, Says, NewRecord

\* Every step keeps it.
LEMMA NextEvidence == ProofInv /\ Evidence /\ [Next]_vars => Evidence'
<1> SUFFICES ASSUME ProofInv, Evidence, [Next]_vars, NEW i \in Nodes, Claimed(i)'
             PROVE  proc'[i] = "gone"
  BY DEF Evidence
<1>0. TypeOK
  BY DEF ProofInv
<1>1. proc[i] = "gone" => proc'[i] = "gone"
  BY <1>0, GoneStays
<1>2. ASSUME NEW r \in journal' \cup {rec'}, Says(r, i) PROVE proc'[i] = "gone"
  BY <1>1, <1>2, RecordsSayTrue
<1>3. CASE receipt'[i] = "done"
  <2>1. ASSUME NEW j \in Nodes, RetireEnds(j) \/ RetireUnsaved(j) PROVE proc'[i] = "gone"
    <3>1. proc[j] = "gone" /\ (receipt' = receipt \/ receipt' = [receipt EXCEPT ![j] = "done"])
      BY <2>1 DEF RetireEnds, RetireUnsaved, Evidence, Claimed
    <3> QED BY <1>0, <1>1, <1>3, <3>1 DEF Evidence, Claimed, TypeOK
  <2>2. ASSUME NEW j \in Nodes, RetireBegins(j) PROVE proc'[i] = "gone"
    <3>1. receipt' = [receipt EXCEPT ![j] = "prepared"]
      BY <2>2 DEF RetireBegins
    <3>2. receipt[i] = "done"
      BY <1>0, <1>3, <3>1 DEF TypeOK
    <3> QED BY <1>1, <3>2 DEF Evidence, Claimed
  <2>3. CASE receipt' = receipt
    BY <1>1, <1>3, <2>3 DEF Evidence, Claimed
  <2> QED BY <1>0, <2>1, <2>2, <2>3, WhoActs
<1>4. CASE keeper'[i] \in {"stopped", "released"}
  <2>0. keeper[i] \in {"stopped", "released"} => proc'[i] = "gone"
    BY <1>1 DEF Evidence, Claimed
  <2>1. ASSUME NEW j \in Nodes, NEW next \in {"released", "stopped"}, Release(j, next)
        PROVE  proc'[i] = "gone"
    BY <1>0, <1>4, <2>0, <2>1, ReleaseFacts
  <2>2. ASSUME NEW j \in Nodes, RetireBegins(j) PROVE proc'[i] = "gone"
    <3>1. \/ keeper' = [keeper EXCEPT ![j] = "retiring"]
          \/ keeper[j] = "released" /\ keeper' = [keeper EXCEPT ![j] = "stopped"]
      BY <2>2 DEF RetireBegins
    <3> QED BY <1>0, <1>4, <2>0, <3>1 DEF TypeOK
  <2>3. ASSUME NEW j \in Nodes, RetireEnds(j) \/ RetireUnsaved(j) PROVE proc'[i] = "gone"
    <3>1. keeper[j] = "stopped" /\ keeper' = [keeper EXCEPT ![j] = "released"]
      BY <2>3 DEF RetireEnds, RetireUnsaved
    <3> QED BY <1>0, <1>4, <2>0, <3>1 DEF TypeOK
  <2>4. ASSUME NEW j \in Nodes, keeper' = [keeper EXCEPT ![j] = "lost"] PROVE proc'[i] = "gone"
    BY <1>0, <1>4, <2>0, <2>4 DEF TypeOK
  <2>5. CASE keeper' = keeper
    BY <1>4, <2>0, <2>5
  <2> QED BY <1>0, <2>1, <2>2, <2>3, <2>4, <2>5, WhoActs DEF Touches
<1> QED BY <1>2, <1>3, <1>4 DEF Claimed

\* A completed receipt, an exit bit and a release bit are true of every machine.
THEOREM EvidenceHolds == Spec => []EvidenceIsTrue
<1>1. Evidence => EvidenceIsTrue
  BY DEF Evidence, Claimed, Says, EvidenceIsTrue
<1> QED BY <1>1, InitEvidence, NextEvidence, ProofInvariant, PTL DEF Spec

\* A retirement that reports DONE has left no process of the route anywhere.
THEOREM DoneIsReleased == Spec => []DoneMeansGone
<1>1. ProofInv /\ Evidence => DoneMeansGone
  BY DEF ProofInv, RecordFacts, Valid, Evidence, Claimed, Says, DoneMeansGone
<1> QED BY <1>1, InitEvidence, NextEvidence, ProofInvariant, PTL DEF Spec

-----------------------------------------------------------------------------
(* Seals. *)

\* A sealed member has no work, a seal in a record is a seal of the member,
\* and a keeper retires only after its durable intent.
Seals ==
    /\ \A m \in Members : draining[m] = RETIRED => ~work[m]
    /\ \A r \in journal \cup {rec}, m \in Members : r.seen[m].draining = RETIRED => draining[m] = RETIRED
    /\ \A i \in Nodes : Busy(i) => receipt[i] # "none"

\* No sealed member admits work again, and a seal waits for the work to end.
LEMMA SealedIsQuiet ==
    ASSUME ProofInv, Seals, [Next]_vars, NEW m \in Members, draining'[m] = RETIRED
    PROVE  ~work'[m]
<1>0. TypeOK /\ (draining[m] = RETIRED => ~work[m])
  BY DEF ProofInv, Seals
<1>1. ASSUME work'[m] => work[m] PROVE ~work'[m]
  <2>1. CASE draining[m] = RETIRED
    BY <1>0, <1>1, <2>1
  <2>2. CASE draining[m] # RETIRED
    <3>1. ASSUME NEW k \in Members, NEW wanted \in 0..RETIRED, Apply(k, wanted, rev[k]) PROVE ~work[m]
      BY <1>0, <2>2, <3>1, ApplyFacts
    <3>2. ASSUME Command PROVE ~work[m]
      <4>1. Target(rec) \in Members /\ Wanted(rec) \in 0..RETIRED
        BY <1>0, <3>2, TargetFacts DEF Command, Calls, Wanted, TypeOK, Records
      <4>2. Apply(Target(rec), Wanted(rec), rec.seen[Target(rec)].rev)
        BY <3>2 DEF Command
      <4> QED BY <1>0, <2>2, <4>1, <4>2, ApplyFacts
    <3>3. Command \/ \E k \in Members, wanted \in 0..RETIRED : Apply(k, wanted, rev[k])
      BY <1>0, <2>2, WhoActs
    <3>4. ~work[m]
      BY <3>1, <3>2, <3>3
    <3> QED BY <1>1, <3>4
  <2> QED BY <2>1, <2>2
<1>2. CASE HostAdmits
  <2>1. draining' = draining /\ draining[Host] = 0 /\ work' = [work EXCEPT ![Host] = TRUE]
    BY <1>2 DEF HostAdmits
  <2>2. m # Host /\ draining[m] = RETIRED
    BY <2>1
  <2>3. work'[m] = work[m]
    BY <1>0, <2>1, <2>2 DEF TypeOK
  <2> QED BY <1>0, <2>2, <2>3
<1>3. ASSUME NEW i \in Nodes, NodeAdmits(i) PROVE ~work'[m]
  <2>1. draining' = draining /\ draining[i] = 0 /\ work' = [work EXCEPT ![i] = TRUE]
    BY <1>3 DEF NodeAdmits
  <2>2. m # i /\ draining[m] = RETIRED
    BY <2>1
  <2>3. work'[m] = work[m]
    BY <1>0, <2>1, <2>2 DEF TypeOK
  <2> QED BY <1>0, <2>2, <2>3
<1>4. ASSUME NEW i, Release(i, "released") \/ Release(i, "stopped") \/ Ends(i) PROVE ~work'[m]
  <2>1. work'[m] => work[m]
    BY <1>4 DEF Release, Ends
  <2> QED BY <1>1, <2>1
<1>5. CASE Command
  <2>1. \/ work' = work
        \/ work' = [j \in Members |-> j = Host /\ work[Host]]
    BY <1>5 DEF Command
  <2> QED BY <1>1, <2>1
<1>6. CASE work' = work
  BY <1>1, <1>6
<1>7. ASSUME NEW k \in Members, WorkEnds(k) PROVE ~work'[m]
  <2>1. work' = [work EXCEPT ![k] = FALSE]
    BY <1>7 DEF WorkEnds
  <2>2. work'[m] => work[m]
    BY <1>0, <2>1 DEF TypeOK
  <2> QED BY <1>1, <2>2
<1>8. CASE Operator /\ ~Command
  BY <1>4, <1>6, <1>8 DEF Operator, Crash, Begin, Rerun, Query, QuerySkips, NoAnswer, StepSkips, Store,
       AwaitTimesOut, ExitProved, ExitUnknown, ExitRetried, members
<1>9. ASSUME NEW i \in Nodes, Machine(i) PROVE ~work'[m]
  BY <1>4, <1>6, <1>9 DEF Machine, KeeperReleases, KeeperRetries, ChildDies, LastExits, KeeperCrashes,
       RetireBegins, RetireStops, RetireEnds, RetireUnsaved, RetireReplays, members
<1>10. ASSUME NEW k \in Members, NEW action \in AdminActions, AdminCommand(k, action) PROVE ~work'[m]
  BY <1>6, <1>10 DEF AdminCommand
<1>11. CASE UNCHANGED vars
  BY <1>6, <1>11 DEF vars
<1> QED BY <1>2, <1>3, <1>5, <1>7, <1>8, <1>9, <1>10, <1>11 DEF Next, Member

\* A seal enters a record only from the member's own answer.
LEMMA RecordedSeals ==
    ASSUME ProofInv, Seals, [Next]_vars, NEW m \in Members, NEW r \in journal' \cup {rec'},
           r.seen[m].draining = RETIRED
    PROVE  draining'[m] = RETIRED
<1>0. /\ TypeOK /\ RecordFacts /\ rec \in Records /\ at \in Members /\ MachineOf(at) \in Nodes
      /\ \A q \in journal \cup {rec} : q.seen[m].draining = RETIRED => draining'[m] = RETIRED
  BY MachineFacts, SealStays DEF ProofInv, TypeOK, Seals
<1>a. NewRecord.seen[m].draining # RETIRED /\ NoFence.draining # RETIRED
  BY DEF NewRecord, NoFence
<1>1. CASE journal' \subseteq journal \cup {rec} /\ rec' \in journal \cup {rec, NewRecord}
  BY <1>0, <1>a, <1>1
<1>2. CASE Query /\ rec' # rec
  <2>1. /\ journal' = journal /\ rec' = [rec EXCEPT !.seen[at] = [rev |-> rev[at], draining |-> draining[at]]]
        /\ UNCHANGED members
    BY <1>2 DEF Query
  <2>2. rec'.seen[m].draining = IF m = at THEN draining[m] ELSE rec.seen[m].draining
    BY <1>0, <2>1 DEF Records
  <2> QED BY <1>0, <2>1, <2>2 DEF members
<1>3. CASE Command /\ ~GivesUp /\ ~Stays
  <2> DEFINE t == Target(rec)
             x == [rec EXCEPT !.seen[t] = [rev |-> rev'[t], draining |-> Wanted(rec)]]
  <2>1. /\ journal' = journal /\ rec' = Advance(x)
        /\ pc = "step" /\ rec.phase < RELEASE /\ Calls(rec)
        /\ Apply(t, Wanted(rec), rec.seen[t].rev)
        /\ Replayed(t, Wanted(rec), rec.seen[t].rev) \/ MayApply(t, Wanted(rec), rec.seen[t].rev)
    BY <1>3 DEF Command
  <2>2. Valid(rec) /\ t \in Members /\ Wanted(rec) \in 0..RETIRED
    BY <1>0, <2>1, TargetFacts DEF RecordFacts, Calls, Wanted
  <2>3. rev'[t] \in 1..RevMax
    BY <1>0, <2>1, <2>2, ApplyType
  <2>4. draining'[t] = Wanted(rec)
    BY <1>0, <2>1, <2>2, ApplyFacts
  <2>5. /\ x \in Records /\ x.phase = rec.phase
        /\ x.seen[t].draining = Wanted(rec) /\ (m # t => x.seen[m] = rec.seen[m])
    BY <1>0, <2>1, <2>2, <2>3, SeenFacts
  <2> HIDE DEF x, t
  <2>6. rec'.seen = x.seen
    BY <2>1, <2>5, AdvanceFacts
  <2> QED BY <1>0, <2>1, <2>4, <2>5, <2>6
<1>4. CASE StepSkips
  <2>1. journal' = journal /\ rec' = Advance(rec) /\ pc = "step"
    BY <1>4 DEF StepSkips
  <2>2. rec'.seen = rec.seen
    BY <1>0, <2>1, AdvanceFacts DEF RecordFacts
  <2> QED BY <1>0, <2>1, <2>2
<1>5. CASE ExitProved
  <2> DEFINE x == WithExit(rec, MachineOf(at))
  <2>1. /\ x \in Records /\ x.phase = rec.phase
        /\ x.seen[m] = IF MachineOf(m) = MachineOf(at) THEN NoFence ELSE rec.seen[m]
    BY <1>0, ExitFacts
  <2>2. journal' = journal /\ (rec' = x \/ (pc = "prove" /\ rec' = Advance(x)))
    BY <1>5 DEF ExitProved, Proving
  <2> HIDE DEF x
  <2>3. rec'.seen = x.seen
    BY <1>0, <2>1, <2>2, AdvanceFacts DEF RecordFacts
  <2> QED BY <1>0, <1>a, <2>1, <2>2, <2>3
<1>6. ASSUME NEW j \in Nodes, RetireReplays(j) \/ (RetireEnds(j) /\ rec' # rec)
      PROVE  draining'[m] = RETIRED
  <2>1. journal' = journal /\ rec' = Advance(rec) /\ pc \in {"step", "await"}
    BY <1>6 DEF RetireReplays, Releasing, RetireEnds, Acknowledged
  <2>2. rec'.seen = rec.seen
    BY <1>0, <2>1, AdvanceFacts DEF RecordFacts
  <2> QED BY <1>0, <2>1, <2>2
<1>7. CASE \/ Crash \/ Begin \/ Rerun \/ (Query /\ rec' = rec) \/ QuerySkips \/ (Command /\ (GivesUp \/ Stays))
           \/ NoAnswer \/ Store \/ AwaitTimesOut \/ ExitUnknown \/ ExitRetried
  BY <1>1, <1>7 DEF Crash, Begin, Rerun, Query, QuerySkips, NoAnswer, Store, AwaitTimesOut,
                    ExitUnknown, ExitRetried, GivesUp, Stays, operator
<1>8. ASSUME NEW j \in Nodes, Machine(j) \/ NodeAdmits(j), ~RetireReplays(j), ~RetireEnds(j) \/ rec' = rec
      PROVE  draining'[m] = RETIRED
  BY <1>1, <1>8 DEF Machine, KeeperReleases, KeeperRetries, ChildDies, LastExits, KeeperCrashes,
                    RetireBegins, RetireStops, RetireEnds, RetireUnsaved, NodeAdmits, operator
<1>9. CASE HostAdmits \/ (\E k \in Members : Member(k)) \/ UNCHANGED vars
  BY <1>1, <1>9 DEF HostAdmits, Member, WorkEnds, AdminCommand, vars, operator
<1> QED BY <1>2, <1>3, <1>4, <1>5, <1>6, <1>7, <1>8, <1>9 DEF Next, Operator

\* Receipts are only ever written after the intent, and never withdrawn.
LEMMA ReceiptFacts ==
    ASSUME ProofInv, Seals, [Next]_vars, NEW i \in Nodes
    PROVE  /\ receipt[i] # "none" => receipt'[i] # "none"
           /\ receipt'[i] # "none" => receipt[i] # "none" \/ RetireBegins(i)
           /\ Busy(i)' => receipt'[i] # "none"
<1>0. TypeOK
  BY DEF ProofInv
<1>1. CASE \E j \in Nodes : RetireBegins(j)
  <2>1. PICK j \in Nodes : RetireBegins(j)
    BY <1>1
  <2>2. receipt' = [receipt EXCEPT ![j] = "prepared"] /\ \A k \in Nodes : k # j => keeper'[k] = keeper[k]
    BY <1>0, <2>1 DEF RetireBegins, TypeOK
  <2> QED BY <1>0, <2>1, <2>2 DEF Seals, Busy, TypeOK
<1>2. CASE \E j \in Nodes : RetireEnds(j) \/ RetireUnsaved(j)
  <2>1. PICK j \in Nodes : RetireEnds(j) \/ RetireUnsaved(j)
    BY <1>2
  <2>2. /\ receipt' = receipt \/ receipt' = [receipt EXCEPT ![j] = "done"]
        /\ keeper[j] = "stopped" /\ keeper' = [keeper EXCEPT ![j] = "released"]
    BY <2>1 DEF RetireEnds, RetireUnsaved
  <2> QED BY <1>0, <2>2 DEF Seals, Busy, TypeOK
<1>3. CASE receipt' = receipt /\ ~(\E j \in Nodes : RetireBegins(j) \/ RetireEnds(j) \/ RetireUnsaved(j))
  <2>1. Busy(i)' => Busy(i)
    <3>1. CASE keeper' = keeper
      BY <3>1 DEF Busy
    <3>2. ASSUME NEW j \in Nodes, keeper' = [keeper EXCEPT ![j] = "lost"] PROVE Busy(i)' => Busy(i)
      BY <1>0, <3>2 DEF Busy, TypeOK
    <3>3. CASE \E j \in Nodes : KeeperReleases(j) \/ KeeperRetries(j) \/ RetireStops(j)
      <4>1. PICK j \in Nodes : KeeperReleases(j) \/ KeeperRetries(j) \/ RetireStops(j)
        BY <3>3
      <4>2. CASE RetireStops(j)
        <5>1. keeper[j] = "retiring" /\ Release(j, "stopped")
          BY <4>2 DEF RetireStops
        <5> QED BY <1>0, <5>1, ReleaseFacts DEF Busy
      <4>3. CASE KeeperReleases(j) \/ KeeperRetries(j)
        <5>1. Release(j, "released")
          BY <4>3 DEF KeeperReleases, KeeperRetries
        <5> QED BY <1>0, <5>1, ReleaseFacts DEF Busy
      <4> QED BY <4>1, <4>2, <4>3
    <3>4. CASE ExitRetried
      <4>1. MachineOf(at) \in Nodes /\ Release(MachineOf(at), "released")
        BY <1>0, <3>4, MachineFacts DEF ExitRetried, TypeOK
      <4> QED BY <1>0, <4>1, ReleaseFacts DEF Busy
    <3>5. CASE Operator /\ ~ExitRetried
      BY <3>1, <3>5 DEF Operator, Crash, Begin, Rerun, Query, QuerySkips, Command, NoAnswer, StepSkips,
           Store, AwaitTimesOut, ExitProved, ExitUnknown, machines
    <3>6. ASSUME NEW j \in Nodes, Machine(j) \/ NodeAdmits(j), ~(KeeperReleases(j) \/ KeeperRetries(j) \/ RetireStops(j))
          PROVE  Busy(i)' => Busy(i)
      BY <1>3, <3>1, <3>2, <3>6 DEF Machine, ChildDies, LastExits, KeeperCrashes, RetireReplays, NodeAdmits, machines
    <3>7. CASE HostAdmits \/ (\E k \in Members : Member(k)) \/ UNCHANGED vars
      BY <3>1, <3>7 DEF HostAdmits, Member, WorkEnds, AdminCommand, vars, machines
    <3> QED BY <3>3, <3>4, <3>5, <3>6, <3>7 DEF Next
  <2> QED BY <1>3, <2>1 DEF Seals
<1> QED BY <1>0, <1>1, <1>2, <1>3, WhoActs

\* Seals hold at first.
LEMMA InitSeals == Init => Seals
  BY DEF Init, Seals, Busy, NewRecord, NoFence

\* Every step keeps the seals.
LEMMA NextSeals == ProofInv /\ Seals /\ [Next]_vars => Seals'
  BY SealedIsQuiet, RecordedSeals, ReceiptFacts DEF Seals

\* Nothing of the route is stopped before all of it is quiet: in every
\* behaviour, for the host and each node.
THEOREM ReleaseIsQuiet == Spec => []QuietBeforeRelease
<1>1. Init => QuietBeforeRelease
  BY DEF Init, QuietBeforeRelease
<1>2. ASSUME ProofInv, Evidence, Seals, Seals', QuietBeforeRelease, [Next]_vars
      PROVE  QuietBeforeRelease'
  <2> SUFFICES ASSUME NEW i \in Nodes, receipt'[i] # "none", NEW m \in Members
               PROVE  proc'[MachineOf(m)] = "gone" \/ (draining'[m] = RETIRED /\ ~work'[m])
    BY DEF QuietBeforeRelease
  <2>0. MachineOf(m) \in Nodes /\ TypeOK
    BY MachineFacts, <1>2 DEF ProofInv
  <2>1. ASSUME proc[MachineOf(m)] = "gone" \/ draining[m] = RETIRED
        PROVE  proc'[MachineOf(m)] = "gone" \/ (draining'[m] = RETIRED /\ ~work'[m])
    <3>1. CASE proc[MachineOf(m)] = "gone"
      BY <1>2, <2>0, <3>1, GoneStays
    <3>2. CASE draining[m] = RETIRED
      <4>1. draining'[m] = RETIRED
        BY <1>2, <3>2, SealStays
      <4> QED BY <1>2, <4>1, SealedIsQuiet
    <3> QED BY <2>1, <3>1, <3>2
  <2>2. CASE receipt[i] # "none"
    BY <1>2, <2>1, <2>2 DEF QuietBeforeRelease
  <2>3. CASE RetireBegins(i)
    <3>1. pc = "step" /\ rec.phase = RELEASE
      BY <2>3 DEF RetireBegins, Releasing
    <3>2. Valid(rec)
      BY <1>2, <3>1 DEF ProofInv, RecordFacts
    <3>3. Sealed(rec, Host) /\ \A k \in Nodes : Sealed(rec, k)
      BY <3>1, <3>2 DEF Valid
    <3>4. m = Host \/ m \in Nodes
      BY RetirementConstants DEF Host, Members, Nodes
    <3>5. MachineOf(m) \in rec.exited \/ rec.seen[m].draining = RETIRED
      BY <3>3, <3>4 DEF Sealed, Exited
    <3>6. proc[MachineOf(m)] = "gone" \/ draining[m] = RETIRED
      BY <1>2, <2>0, <3>5 DEF Evidence, Claimed, Says, Seals
    <3> QED BY <2>1, <3>6
  <2> QED BY <1>2, <2>2, <2>3, ReceiptFacts
<1> QED BY <1>1, <1>2, InitEvidence, NextEvidence, InitSeals, NextSeals, ProofInvariant, PTL DEF Spec

\* The edge, and with it the host, is retired after every other node has left.
THEOREM EdgeIsLast == Spec => []EdgeLast
<1>0. Edge \in Nodes
  BY RetirementConstants DEF Nodes
<1>1. Init => EdgeLast
  BY <1>0 DEF Init, EdgeLast
<1>2. ASSUME ProofInv, Evidence, Seals, EdgeLast, [Next]_vars
      PROVE  EdgeLast'
  <2> SUFFICES ASSUME receipt'[Edge] # "none", NEW i \in Nodes \ {Edge}
               PROVE  proc'[i] = "gone"
    BY DEF EdgeLast
  <2>0. TypeOK /\ rec \in Records /\ (proc[i] = "gone" => proc'[i] = "gone")
    BY <1>2, GoneStays DEF ProofInv, TypeOK
  <2>1. CASE receipt[Edge] # "none"
    BY <1>2, <2>0, <2>1 DEF EdgeLast
  <2>2. CASE RetireBegins(Edge)
    <3>1. pc = "step" /\ rec.phase = RELEASE /\ ~AtEnd(rec) /\ Edge = Target(rec)
      BY <2>2 DEF RetireBegins, Releasing, Calls
    <3>2. Valid(rec) /\ rec.phase # DONE
      BY <1>2, <3>1 DEF ProofInv, RecordFacts
    <3>3. rec.cursor \in 0..(Count - 1) /\ Edge = Order(rec.cursor)
      BY <2>0, <3>1, <3>2, TargetFacts DEF Target
    <3>4. rec.cursor = Count - 1
      BY <3>3, OrderFacts
    <3>5. rec.released = Nodes \ {Edge}
      BY <3>1, <3>2, <3>4, OrderedOthers DEF Valid
    <3> QED BY <1>2, <2>0, <3>5 DEF Evidence, Claimed, Says
  <2> QED BY <1>0, <1>2, <2>1, <2>2, ReceiptFacts
<1> QED BY <1>1, <1>2, InitEvidence, NextEvidence, InitSeals, NextSeals, ProofInvariant, PTL DEF Spec

\* What is said of a machine that left is true, for any route and edge.
THEOREM ReleaseIsProvenCorrect == Spec => []ReleaseIsProven
BY DoneIsReleased, EvidenceHolds, PTL DEF ReleaseIsProven

\* A route comes down in order, for any route and edge.
THEOREM OrderlyReleaseCorrect == Spec => []OrderlyRelease
BY ReleaseIsQuiet, EdgeIsLast, PTL DEF OrderlyRelease
=============================================================================
