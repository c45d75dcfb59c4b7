---------------------------- MODULE ExpertCalls ----------------------------
(* An expert call from end to end, for every value of the constants: the      *)
(* round of a layer in a chat (ExpertClient), the tracker's relay             *)
(* (TrackerRelay) and the node that computes (ExpertNode), next to the        *)
(* control that drains and retires a node. part names the component that      *)
(* moves in a behaviour; the calls use one set of registers, under the names  *)
(* of their own modules.                                                      *)
EXTENDS Integers, FiniteSets, Sequences, FiniteSetTheorems, FunctionTheorems, WellFoundedInduction, NaturalsInduction, TLAPS

(***************************************************************************)
(* Drain, resume and retire of a Segment node: lmb_node_control_apply       *)
(* (lumabri_node_control.h) with the admissions it is serialised with under *)
(* the node's sessions_lock (segment_node.c): OPEN and Hybrid expert calls. *)
(* Keepers act on the last snapshot they were sent, which may be stale: a   *)
(* reply can be lost, a command can arrive after another keeper's, and the  *)
(* node may have restarted under a new random instance.                     *)
(*                                                                          *)
(* Abstractions.  The instance is a number that never repeats.  A command   *)
(* the node answers BUSY (sessions_lock taken) or refuses changes nothing   *)
(* but the keeper's snapshot.  acked is a history variable: the commands    *)
(* answered with status 0.                                                  *)
(***************************************************************************)

CONSTANTS Keepers,          \* controllers
          SessionSlots,     \* the node's session slots
          MaxExperts,       \* bound on concurrent Hybrid calls
          RevMax,           \* UINT64_MAX for revisions
          MaxInstance       \* bound on restarts

ASSUME ControlConstants ==
    /\ RevMax \in Nat \ {0} /\ MaxExperts \in Nat /\ MaxInstance \in Nat
    /\ IsFiniteSet(SessionSlots)

VARIABLES instance, revision,
          draining,         \* 0 accepting, 1 draining, 2 RETIRED
          used,             \* slots with a session
          experts,          \* Hybrid calls in flight
          view,             \* keeper -> last snapshot
          acked             \* history variable

vars == <<instance, revision, draining, used, experts, view, acked>>

RETIRED == 2
Actions == {"DRAIN", "RESUME", "RETIRE"}
WantedState(action) ==
    CASE action = "DRAIN" -> 1 [] action = "RESUME" -> 0 [] action = "RETIRE" -> RETIRED

Snapshot == [instance |-> instance, revision |-> revision, draining |-> draining]

\* A replay recognised by its revision alone.
BugReplayed(action, rev) == revision > 1 /\ rev = revision - 1

\* The command that made the present state, sent again.
Replayed(action, rev) ==
    revision > 1 /\ rev = revision - 1 /\ draining = WantedState(action)

\* A retire that trusts the keeper to have waited for the drain.
BugMayApply(action, rev) ==
    /\ draining # RETIRED
    /\ action = "RETIRE" => draining # 0
    /\ rev = revision /\ revision # RevMax

\* A resume that reopens a sealed node.
BugMayApplySealed(action, rev) ==
    /\ action = "RETIRE" => draining # 0 /\ used = {} /\ experts = 0
    /\ rev = revision /\ revision # RevMax

MayApply(action, rev) ==
    /\ draining # RETIRED
    /\ action = "RETIRE" => draining # 0 /\ used = {} /\ experts = 0
    /\ rev = revision /\ revision # RevMax

Init ==
    /\ instance = 1 /\ revision = 1 /\ draining = 0
    /\ used = {} /\ experts = 0
    /\ view = [k \in Keepers |-> Snapshot]
    /\ acked = {}

\* handle_open of a session the node does not have yet.
Open(s) ==
    /\ draining = 0 /\ s \notin used
    /\ used' = used \cup {s}
    /\ UNCHANGED <<instance, revision, draining, experts, view, acked>>

\* CLOSE or the reaper.
Release(s) ==
    /\ s \in used
    /\ used' = used \ {s}
    /\ UNCHANGED <<instance, revision, draining, experts, view, acked>>

ExpertBegin ==
    /\ draining = 0 /\ experts < MaxExperts
    /\ experts' = experts + 1
    /\ UNCHANGED <<instance, revision, draining, used, view, acked>>

ExpertEnd ==
    /\ experts > 0
    /\ experts' = experts - 1
    /\ UNCHANGED <<instance, revision, draining, used, view, acked>>

Query(k) ==
    /\ view' = [view EXCEPT ![k] = Snapshot]
    /\ UNCHANGED <<instance, revision, draining, used, experts, acked>>

\* A retire that seals the node without a revision of its own.
BugNextRevision(action) == IF action = "RETIRE" THEN revision ELSE revision + 1

NextRevision(action) == revision + 1

\* lmb_node_control_apply with the keeper's snapshot.  The answer carries the
\* state after the command, unless it is lost on the way.
Command(k, action, lost) ==
    LET v == view[k]
        ours == v.instance = instance
        replay == ours /\ Replayed(action, v.revision)
        apply == ours /\ ~replay /\ MayApply(action, v.revision)
    IN  /\ UNCHANGED <<instance, used, experts>>
        /\ IF apply
           THEN draining' = WantedState(action) /\ revision' = NextRevision(action)
           ELSE UNCHANGED <<draining, revision>>
        /\ acked' = IF apply \/ replay
                    THEN acked \cup {[instance |-> instance, revision |-> v.revision,
                                      wanted |-> WantedState(action)]}
                    ELSE acked
        /\ view' = IF lost THEN view ELSE [view EXCEPT ![k] = Snapshot']

\* The process dies and the machine's keeper starts another.
Restart ==
    /\ instance < MaxInstance
    /\ instance' = instance + 1
    /\ revision' = 1 /\ draining' = 0 /\ used' = {} /\ experts' = 0
    /\ UNCHANGED <<view, acked>>

Next ==
    \/ \E s \in SessionSlots : Open(s) \/ Release(s)
    \/ ExpertBegin \/ ExpertEnd
    \/ \E k \in Keepers : \/ Query(k)
                          \/ \E action \in Actions, lost \in BOOLEAN : Command(k, action, lost)
    \/ Restart

Spec == Init /\ [][Next]_vars

-----------------------------------------------------------------------------
\* The state the control thread keeps.
TypeOK ==
    /\ instance \in Nat /\ revision \in 1..RevMax /\ draining \in 0..RETIRED
    /\ used \subseteq SessionSlots /\ experts \in 0..MaxExperts
    /\ view \in [Keepers -> [instance : Nat, revision : 1..RevMax, draining : 0..RETIRED]]
    /\ acked \subseteq [instance : Nat, revision : 1..RevMax, wanted : 0..RETIRED]

\* A retired node is empty and stays empty: no session or expert call is in
\* it when it is sealed and none gets in afterwards, so a keeper that holds
\* the seal may delete the weights.
RetiredIsEmpty == draining = RETIRED => used = {} /\ experts = 0

\* A seal is final while the process lives.
SealIsFinal ==
    [][(draining = RETIRED /\ instance' = instance) =>
        (draining' = RETIRED /\ revision' = revision)]_vars

\* A revision names one state: a keeper whose snapshot has the present
\* instance and revision knows whether the node drains.
RevisionNamesState ==
    \A k \in Keepers :
        (view[k].instance = instance /\ view[k].revision = revision)
        => view[k].draining = draining

\* Two keepers that act on the same snapshot are never both told that their
\* different commands succeeded, however answers were lost and repeated.
AcksAgree ==
    \A a, b \in acked :
        (a.instance = b.instance /\ a.revision = b.revision) => a.wanted = b.wanted

\* What a keeper may conclude from a node's answers: a retired node is empty,
\* a revision names one state, and conflicting commands never both succeed.
ControlSound == RetiredIsEmpty /\ RevisionNamesState /\ AcksAgree
------------------------------------------------------------------------------
CONSTANTS Kind,                           \* what a relay or a round is, by its name
          Relays, RelayPeer, RelayConn, RelayWanted, RelayInflight, RelayConcurrency, RelayConnects,
          Call, Relayed, Source, SourceOf, Expert, ExpertOf, CacheSlot, NodeCompute, NodeWaiters, NodeTickets,
          Rounds, RoundPeer, Liar, PoolMax, Strikes, MaxWaits, Probes, MaxRounds, None
VARIABLES part,
          r1, r2, r3, r4, r5, r6, r7, r8, r9, r10, r11, r12, r13, r14, r15, r16, r17, r18, r19, r20
registers == <<r1, r2, r3, r4, r5, r6, r7, r8, r9, r10, r11, r12, r13, r14, r15, r16, r17, r18, r19, r20>>

(* The registers of the tracker's relay.                                      *)
tun == r1
ctrl == r2
wire == r3
box == r4
rex == r5
outq == r6
rq_next == r7
stage == r8
answer == r9
cand == r10
turn_of == r11
refs == r12
rate == r13
connects == r14
(* Calls compete for a peer's mailbox, or for its EXEC slots.                 *)
Relay(k) == INSTANCE TrackerRelay WITH
    Peer <- RelayPeer, Conn <- RelayConn, Reader <- Kind[k].reader, Seg <- Kind[k].seg,
    Exec <- Kind[k].exec, Target <- Kind[k].target, Wanted <- RelayWanted, Inflight <- RelayInflight,
    Concurrency <- RelayConcurrency, MaxConnects <- RelayConnects, next <- rq_next, pc <- stage, at <- turn_of

(* The registers of an expert node.                                           *)
pc == r1
asleep == r2
pinned == r3
cache == r4
tick == r5
gate_free == r6
queue == r7
seq == r8
served == r9
in_flight == r10
tickets == r11
inline == r12
paused == r13
holds == r14
(* Calls compete for the weight cache and the kernel of a node.               *)
Kernels == INSTANCE ExpertNode WITH
    Compute <- NodeCompute, MaxWaiters <- NodeWaiters, Tickets <- NodeTickets,
    free <- gate_free, granted <- served, inflight <- in_flight

(* The registers of a layer round.                                            *)
round == r1
round_pc == r2
expert == r3
calls == r4
hedge == r5
asked_again == r6
tried == r7
res == r8
sum == r9
pooled == r10
inflight == r11
standing == r12
fails == r13
cooling == r14
waited == r15
sick == r16
demoted == r17
rejected == r18
probes == r19
disputed == r20
(* A chatter sends the experts of a layer to their replicas.                  *)
Round(k) == INSTANCE ExpertClient WITH
    Peer <- RoundPeer, Owners <- Kind[k].owners, K <- Kind[k].experts, Local <- Kind[k].here,
    Exec2 <- Kind[k].exec2, Covered <- Kind[k].covered, Policy <- Kind[k].policy, Batch <- Kind[k].batch,
    pc <- round_pc, k <- expert, again <- asked_again, fd <- calls, out <- sum, pool <- pooled, dead <- standing

PartsInit == \/ \E k \in Relays : part = k /\ Relay(k)!Init
             \/ part = "node" /\ Kernels!Init
             \/ \E k \in Rounds : part = k /\ Round(k)!Init
PartsNext == /\ part' = part
             /\ \/ \E k \in Relays : part = k /\ Relay(k)!Next
                \/ part = "node" /\ Kernels!Next
                \/ \E k \in Rounds : part = k /\ Round(k)!Next
PartsSpec == PartsInit /\ [][PartsNext]_<<part, registers>>

(* An expert call gets its own answer and leaves nothing behind, in the relay,*)
(* the node and the round: see TrackerRelay, ExpertNode, ExpertClient.        *)
CallSound ==
    /\ \A k \in Relays : part = k => Relay(k)!AnswerIsOwn /\ Relay(k)!NothingLeaks
    /\ part = "node" => Kernels!ExecSound
    /\ \A k \in Rounds : part = k => Round(k)!RoundSound
------------------------------------------------------------------------------
(***************************************************************************)
(* Proofs for any keepers, slots and limits.  AcksAgree is not inductive:   *)
(* what a step keeps is that acknowledged revisions and snapshots lie in    *)
(* the past, and that the newest acknowledged command is the one that made  *)
(* the present state.                                                       *)
(***************************************************************************)
ViewsPast ==
    \A k \in Keepers :
        /\ view[k].instance <= instance
        /\ view[k].instance = instance => view[k].revision <= revision

AcksPast ==
    \A a \in acked :
        /\ a.instance <= instance
        /\ a.instance = instance => a.revision < revision
        /\ (a.instance = instance /\ a.revision = revision - 1) => a.wanted = draining

Inv == /\ TypeOK /\ RetiredIsEmpty /\ RevisionNamesState /\ AcksAgree
       /\ ViewsPast /\ AcksPast

\* What a step owes: the invariant, and the seal.
StepOK ==
    /\ Inv'
    /\ (draining = RETIRED /\ instance' = instance) =>
         (draining' = RETIRED /\ revision' = revision)

\* A node that just started accepts, is empty, and nobody has seen it.
LEMMA InitInv == Init => Inv
BY ControlConstants DEF Init, Inv, TypeOK, RetiredIsEmpty, RevisionNamesState, AcksAgree,
   ViewsPast, AcksPast, Snapshot, RETIRED

\* OPEN, release and Hybrid calls: a sealed node admits none of them.
LEMMA AdmissionStep ==
    ASSUME Inv, (\E s \in SessionSlots : Open(s) \/ Release(s)) \/ ExpertBegin \/ ExpertEnd
    PROVE  StepOK
<1>1. /\ instance' = instance /\ revision' = revision /\ draining' = draining
      /\ view' = view /\ acked' = acked
    BY DEF Open, Release, ExpertBegin, ExpertEnd
<1>2. used' \subseteq SessionSlots /\ experts' \in 0..MaxExperts
    BY ControlConstants DEF Inv, TypeOK, Open, Release, ExpertBegin, ExpertEnd
<1>3. RetiredIsEmpty'
    BY <1>1 DEF Inv, RetiredIsEmpty, RETIRED, TypeOK, Open, Release, ExpertBegin, ExpertEnd
<1>4. TypeOK'
    BY <1>1, <1>2 DEF Inv, TypeOK
<1>5. RevisionNamesState' /\ AcksAgree' /\ ViewsPast' /\ AcksPast'
    BY <1>1 DEF Inv, RevisionNamesState, AcksAgree, ViewsPast, AcksPast
<1> QED BY <1>1, <1>3, <1>4, <1>5 DEF StepOK, Inv

\* What lmb_node_control_reply reports.
LEMMA SnapshotFields ==
    /\ Snapshot.instance = instance /\ Snapshot.revision = revision
    /\ Snapshot.draining = draining
BY DEF Snapshot

\* A query only refreshes a keeper's snapshot.
LEMMA QueryStep ==
    ASSUME Inv, NEW k \in Keepers, Query(k)
    PROVE  StepOK
<1>1. /\ instance' = instance /\ revision' = revision /\ draining' = draining
      /\ used' = used /\ experts' = experts /\ acked' = acked
      /\ view' = [view EXCEPT ![k] = Snapshot]
    BY DEF Query
<1>2. Snapshot \in [instance : Nat, revision : 1..RevMax, draining : 0..RETIRED]
    BY DEF Inv, TypeOK, Snapshot
<1>3. TypeOK'
    BY <1>1, <1>2 DEF Inv, TypeOK
<1>4. RetiredIsEmpty' /\ AcksAgree' /\ AcksPast'
    BY <1>1 DEF Inv, RetiredIsEmpty, AcksAgree, AcksPast
<1>5. \A j \in Keepers : view'[j] = IF j = k THEN Snapshot ELSE view[j]
    BY <1>1 DEF Inv, TypeOK
<1>6. RevisionNamesState' /\ ViewsPast'
    BY <1>1, <1>5, SnapshotFields DEF Inv, TypeOK, RevisionNamesState, ViewsPast
<1> QED BY <1>1, <1>3, <1>4, <1>6 DEF StepOK, Inv

\* The state each command asks for.
LEMMA WantedType ==
    ASSUME NEW action \in Actions
    PROVE  WantedState(action) \in 0..RETIRED /\ (WantedState(action) = RETIRED <=> action = "RETIRE")
BY DEF Actions, WantedState, RETIRED

\* A command: replayed, applied or refused, with its reply lost or not.
LEMMA CommandStep ==
    ASSUME Inv, NEW k \in Keepers, NEW action \in Actions, NEW lost \in BOOLEAN,
           Command(k, action, lost)
    PROVE  StepOK
<1> DEFINE v == view[k]
           ours == v.instance = instance
           replay == ours /\ Replayed(action, v.revision)
           apply == ours /\ ~replay /\ MayApply(action, v.revision)
           ack == [instance |-> instance, revision |-> v.revision,
                   wanted |-> WantedState(action)]
           new == [instance |-> instance', revision |-> revision', draining |-> draining']
<1>1. /\ instance' = instance /\ used' = used /\ experts' = experts
      /\ apply => draining' = WantedState(action) /\ revision' = revision + 1
      /\ ~apply => draining' = draining /\ revision' = revision
      /\ acked' = IF apply \/ replay THEN acked \cup {ack} ELSE acked
      /\ view' = IF lost THEN view ELSE [view EXCEPT ![k] = new]
    BY DEF Command, NextRevision, Snapshot
<1>2. /\ instance \in Nat /\ revision \in 1..RevMax /\ draining \in 0..RETIRED
      /\ v \in [instance : Nat, revision : 1..RevMax, draining : 0..RETIRED]
      /\ RevMax \in Nat
    BY ControlConstants DEF Inv, TypeOK
<1>3. /\ apply => v.revision = revision /\ revision # RevMax /\ draining # RETIRED
      /\ apply /\ action = "RETIRE" => used = {} /\ experts = 0
      /\ replay => v.revision = revision - 1 /\ draining = WantedState(action)
    BY DEF MayApply, Replayed
<1>4. revision' \in 1..RevMax /\ draining' \in 0..RETIRED /\ revision' >= revision
    BY <1>1, <1>2, <1>3, WantedType
<1>5. ack \in [instance : Nat, revision : 1..RevMax, wanted : 0..RETIRED]
      /\ ack.instance = instance /\ ack.revision = v.revision /\ ack.wanted = WantedState(action)
    BY <1>2, WantedType
<1>6. \A j \in Keepers : view'[j] = IF j = k /\ ~lost THEN new ELSE view[j]
    BY <1>1 DEF Inv, TypeOK
<1>7. /\ new.instance = instance /\ new.revision = revision' /\ new.draining = draining'
    BY <1>1
<1> HIDE DEF ack, new, replay, apply, ours, v
<1>8. TypeOK'
    <2>1. new \in [instance : Nat, revision : 1..RevMax, draining : 0..RETIRED]
        BY <1>1, <1>2, <1>4 DEF new
    <2>2. view' \in [Keepers -> [instance : Nat, revision : 1..RevMax, draining : 0..RETIRED]]
        BY <1>1, <2>1 DEF Inv, TypeOK
    <2> QED BY <1>1, <1>2, <1>4, <1>5, <2>2 DEF Inv, TypeOK
<1>9. RetiredIsEmpty'
    BY <1>1, <1>3, WantedType DEF Inv, RetiredIsEmpty
<1>10. ViewsPast'
    <2> SUFFICES ASSUME NEW j \in Keepers
                 PROVE  /\ view'[j].instance <= instance
                        /\ view'[j].instance = instance => view'[j].revision <= revision'
        BY <1>1 DEF ViewsPast
    <2>1. CASE j = k /\ ~lost
        BY <1>2, <1>4, <1>6, <1>7, <2>1
    <2>2. CASE ~(j = k /\ ~lost)
        <3>1. view'[j] = view[j] /\ view[j].revision \in Nat
            BY <1>6, <2>2 DEF Inv, TypeOK
        <3> QED BY <3>1, <1>2, <1>4 DEF Inv, ViewsPast
    <2> QED BY <2>1, <2>2
<1>11. RevisionNamesState'
    <2> SUFFICES ASSUME NEW j \in Keepers, view'[j].instance = instance,
                        view'[j].revision = revision'
                 PROVE  view'[j].draining = draining'
        BY <1>1 DEF RevisionNamesState
    <2>1. CASE j = k /\ ~lost
        BY <1>6, <1>7, <2>1
    <2>2. CASE ~(j = k /\ ~lost)
        <3>1. view'[j] = view[j] /\ view[j].revision <= revision
            BY <1>6, <2>2 DEF Inv, ViewsPast
        <3>2. ~apply
            BY <1>1, <1>2, <3>1
        <3> QED BY <1>1, <3>1, <3>2 DEF Inv, RevisionNamesState
    <2> QED BY <2>1, <2>2
<1>12. AcksPast'
    <2> SUFFICES ASSUME NEW a \in acked'
                 PROVE  /\ a.instance <= instance
                        /\ a.instance = instance => a.revision < revision'
                        /\ (a.instance = instance /\ a.revision = revision' - 1)
                             => a.wanted = draining'
        BY <1>1 DEF AcksPast
    <2>1. CASE a \in acked
        <3>1. a.revision \in Nat
            BY <2>1 DEF Inv, TypeOK
        <3> QED BY <1>1, <1>2, <2>1, <3>1 DEF Inv, AcksPast
    <2>2. CASE a = ack /\ apply
        BY <1>1, <1>2, <1>3, <1>5, <2>2
    <2>3. CASE a = ack /\ replay /\ ~apply
        BY <1>1, <1>2, <1>3, <1>5, <2>3
    <2> QED BY <1>1, <2>1, <2>2, <2>3
<1>13. AcksAgree'
    <2>1. ASSUME NEW a \in acked, a.instance = instance, a.revision = v.revision,
                 apply \/ replay
          PROVE  a.wanted = WantedState(action)
        <3>1. a.revision < revision
            BY <2>1 DEF Inv, AcksPast
        <3>2. replay
            BY <1>2, <1>3, <2>1, <3>1
        <3> QED BY <1>3, <2>1, <3>2 DEF Inv, AcksPast
    <2> QED BY <1>1, <1>5, <2>1 DEF Inv, AcksAgree
<1>14. (draining = RETIRED) => draining' = RETIRED /\ revision' = revision
    BY <1>1, <1>3
<1> QED BY <1>1, <1>8, <1>9, <1>10, <1>11, <1>12, <1>13, <1>14 DEF StepOK, Inv

\* A new process instance starts over; old snapshots name the old one.
LEMMA RestartStep ==
    ASSUME Inv, Restart
    PROVE  StepOK
<1>1. /\ instance' = instance + 1 /\ revision' = 1 /\ draining' = 0
      /\ used' = {} /\ experts' = 0 /\ view' = view /\ acked' = acked
      /\ instance \in Nat
    BY DEF Restart, Inv, TypeOK
<1>2. TypeOK' /\ RetiredIsEmpty'
    BY <1>1, ControlConstants DEF Inv, TypeOK, RetiredIsEmpty, RETIRED
<1>3. /\ \A j \in Keepers : view[j].instance <= instance /\ view[j].instance \in Nat
      /\ \A a \in acked : a.instance <= instance /\ a.instance \in Nat
    BY DEF Inv, TypeOK, ViewsPast, AcksPast
<1>4. RevisionNamesState' /\ ViewsPast' /\ AcksPast'
    BY <1>1, <1>3 DEF RevisionNamesState, ViewsPast, AcksPast
<1>5. AcksAgree'
    BY <1>1 DEF Inv, AcksAgree
<1> QED BY <1>1, <1>2, <1>4, <1>5 DEF StepOK, Inv

\* Every step of node and keepers keeps the invariant and the seal.
LEMMA StepInv ==
    ASSUME Inv, [Next]_vars
    PROVE  StepOK
<1>1. CASE UNCHANGED vars
    BY <1>1 DEF vars, StepOK, Inv, TypeOK, RetiredIsEmpty, RevisionNamesState, AcksAgree,
                ViewsPast, AcksPast
<1>2. CASE (\E s \in SessionSlots : Open(s) \/ Release(s)) \/ ExpertBegin \/ ExpertEnd
    BY <1>2, AdmissionStep
<1>3. ASSUME NEW k \in Keepers, Query(k) PROVE StepOK
    BY <1>3, QueryStep
<1>4. ASSUME NEW k \in Keepers, NEW action \in Actions, NEW lost \in BOOLEAN,
             Command(k, action, lost)
      PROVE  StepOK
    BY <1>4, CommandStep
<1>5. CASE Restart
    BY <1>5, RestartStep
<1> QED BY <1>1, <1>2, <1>3, <1>4, <1>5 DEF Next

\* The invariant holds in every behaviour.
LEMMA InvAlways == Spec => []Inv
<1>1. Inv /\ [Next]_vars => Inv'
    BY StepInv DEF StepOK
<1> QED BY <1>1, InitInv, PTL DEF Spec

\* A node that lmb_node_control_apply has retired holds no session and no
\* expert call, whatever admissions and commands raced with the retirement.
THEOREM RetiredCorrect == Spec => []RetiredIsEmpty
<1>1. Inv => RetiredIsEmpty
    BY DEF Inv
<1> QED BY <1>1, InvAlways, PTL

\* Only a restart of the process ends a retirement.
THEOREM SealCorrect == Spec => SealIsFinal
<1>1. Inv /\ [Next]_vars =>
        [(draining = RETIRED /\ instance' = instance) =>
            (draining' = RETIRED /\ revision' = revision)]_vars
    BY StepInv DEF StepOK
<1> QED BY <1>1, InvAlways, PTL DEF Spec, SealIsFinal

\* A keeper's snapshot of the present revision is the present state.
THEOREM RevisionCorrect == Spec => []RevisionNamesState
<1>1. Inv => RevisionNamesState
    BY DEF Inv
<1> QED BY <1>1, InvAlways, PTL

\* Acknowledgements of one revision agree.
THEOREM AcksCorrect == Spec => []AcksAgree
<1>1. Inv => AcksAgree
    BY DEF Inv
<1> QED BY <1>1, InvAlways, PTL

\* A keeper concludes rightly from a node's answers.
THEOREM ControlSoundCorrect == Spec => []ControlSound
BY RetiredCorrect, RevisionCorrect, AcksCorrect, PTL DEF ControlSound
------------------------------------------------------------------------------
\* Two sets that agree but for one element count the same but for it.
LEMMA CardShift ==
    ASSUME NEW S, NEW T, NEW c, IsFiniteSet(S), S \ {c} = T \ {c}
    PROVE  /\ IsFiniteSet(T) /\ Cardinality(S) \in Nat /\ Cardinality(T) \in Nat
           /\ Cardinality(T) + (IF c \in S THEN 1 ELSE 0) = Cardinality(S) + (IF c \in T THEN 1 ELSE 0)
<1>1. IsFiniteSet(S \ {c}) /\ Cardinality(S \ {c}) = IF c \in S THEN Cardinality(S) - 1 ELSE Cardinality(S)
  BY FS_RemoveElement
<1>2. IsFiniteSet(T)
  <2>1. IsFiniteSet((S \ {c}) \cup {c})
    BY <1>1, FS_AddElement
  <2>2. T \in SUBSET ((S \ {c}) \cup {c})
    OBVIOUS
  <2> QED BY <2>1, <2>2, FS_Subset
<1>3. Cardinality(T \ {c}) = IF c \in T THEN Cardinality(T) - 1 ELSE Cardinality(T)
  BY <1>2, FS_RemoveElement
<1>4. Cardinality(S) \in Nat /\ Cardinality(T) \in Nat
  BY <1>2, FS_CardinalityType
<1> QED BY <1>1, <1>2, <1>3, <1>4

(* The tracker's relay (TrackerRelay), k the name it goes by.                 *)
RelayConstants(k) ==
    /\ IsFiniteSet(RelayPeer) /\ IsFiniteSet(Relay(k)!Request)
       /\ None \notin RelayPeer \cup RelayConn \cup Relay(k)!Request
    /\ \A r \in Kind[k].seg \cup Kind[k].target : RelayWanted[r] \in RelayPeer
    /\ Relay(k)!Boxed \cap (Kind[k].exec \cup Kind[k].target) = {} /\ Kind[k].reader \cap Kind[k].seg = {}
RelayFrame(k) == [id : Nat, who : Relay(k)!Request]
Mail(k) == [who : Relay(k)!Request \cup {None}, id : Nat, sent : BOOLEAN, done : BOOLEAN,
     from : Relay(k)!Request \cup {None}]
ExecSlot(k) == [id : Nat, who : Kind[k].exec \cup Kind[k].target, done : BOOLEAN, from : Relay(k)!Request \cup {None}]
RelayType(k) ==
    /\ tun \in [RelayConn -> RelayPeer \cup {None}] /\ ctrl \in [RelayPeer -> RelayConn \cup {None}]
       /\ wire \in [RelayConn -> SUBSET RelayFrame(k)]
    /\ box \in [RelayPeer -> Mail(k)]
    /\ rex \in [RelayPeer -> SUBSET ExecSlot(k)]
    /\ outq \in [RelayPeer -> Seq(RelayFrame(k))] /\ rq_next \in [RelayPeer -> Nat]
    /\ stage \in [Relay(k)!Request -> {"new", "wait", "posted", "done"}]
    /\ cand \in [Relay(k)!Request -> Seq(RelayPeer)] /\ turn_of \in [Relay(k)!Request -> Nat]
    /\ answer \in [Relay(k)!Request -> Relay(k)!Request \cup {None, "refused", "failed"}]
       /\ refs \in [RelayPeer -> Int] /\ rate \in Int
Taken(k, r) == stage[r] \in {"wait", "posted"}
ChoiceInv(k) == \A r \in Relay(k)!Request :
    /\ stage[r] = "new" => cand[r] = <<>> /\ turn_of[r] = 1
    /\ Taken(k, r) => turn_of[r] \in DOMAIN cand[r]
Stub(k, e) == [id |-> e.id, who |-> e.who]
Stubs(k, p) == {outq[p][i] : i \in DOMAIN outq[p]} \cup (UNION {wire[c] : c \in {d \in RelayConn : tun[d] = p}})
               \cup {Stub(k, e) : e \in rex[p]} \cup {Stub(k, b) : b \in {box[p]} \ {Relay(k)!Idle}}
NumberInv(k) ==
    /\ \A c \in RelayConn : tun[c] = None => wire[c] = {}
    /\ \A p \in RelayPeer : \A f \in Stubs(k, p) : f.id <= rq_next[p]
    /\ \A p \in RelayPeer : \A f, g \in Stubs(k, p) : f.id = g.id => f.who = g.who
SlotInv(k) ==
    /\ \A p \in RelayPeer : \A e \in rex[p] : stage[e.who] = "posted" /\ Relay(k)!At(e.who) = p
       /\ e.from \in {None, e.who}
    /\ \A p \in RelayPeer : \A e, f \in rex[p] : e.who = f.who => e = f
    /\ \A r \in Kind[k].exec \cup Kind[k].target : stage[r] = "posted" => \E e \in rex[Relay(k)!At(r)] : e.who = r
BoxInv(k) ==
    /\ \A p \in RelayPeer : LET b == box[p] IN
         IF b.who = None THEN b = Relay(k)!Idle
         ELSE b.who \in Relay(k)!Boxed /\ stage[b.who] = "posted" /\ Relay(k)!At(b.who) = p
              /\ b.from \in {None, b.who}
    /\ \A r \in Relay(k)!Boxed : stage[r] = "posted" => box[Relay(k)!At(r)].who = r
RelayCountInv(k) ==
    /\ rate = Cardinality({r \in Kind[k].seg : Taken(k, r)})
    /\ \A p \in RelayPeer : refs[p] = Cardinality({r \in Relay(k)!Request : Taken(k, r) /\ p \in Relay(k)!Tries(r)})
RelayInv(k) == RelayType(k) /\ ChoiceInv(k) /\ NumberInv(k) /\ SlotInv(k) /\ BoxInv(k) /\ RelayCountInv(k)
     /\ Relay(k)!AnswerIsOwn

\* The module of the relay counts as this one does.
LEMMA RelayCounts == ASSUME NEW k PROVE \A S : Relay(k)!Cardinality(S) = Cardinality(S)
  BY DEF Relay!Cardinality, Cardinality

\* The frames, slots and mailbox of a peer hold numbered requests.
LEMMA StubsAre == ASSUME NEW k, RelayType(k), BoxInv(k), NEW p \in RelayPeer PROVE Stubs(k, p) \subseteq RelayFrame(k)
<1>1. \A i \in DOMAIN outq[p] : outq[p][i] \in RelayFrame(k)
  BY DEF RelayType
<1>2. \A c \in RelayConn : wire[c] \subseteq RelayFrame(k)
  BY DEF RelayType
<1>3. \A e \in rex[p] : Stub(k, e) \in RelayFrame(k)
  BY DEF RelayType, RelayFrame, Stub, Relay!Request, ExecSlot
<1>4. box[p] # Relay(k)!Idle => Stub(k, box[p]) \in RelayFrame(k)
  BY DEF RelayType, BoxInv, RelayFrame, Stub, Mail
<1> QED BY <1>1, <1>2, <1>3, <1>4 DEF Stubs

\* Nothing new is numbered.
LEMMA NumberKept ==
    ASSUME NEW k, NumberInv(k), rq_next' = rq_next, \A c \in RelayConn : tun'[c] = None => wire'[c] = {},
           \A p \in RelayPeer : Stubs(k, p)' \subseteq Stubs(k, p)
    PROVE  NumberInv(k)'
<1>1. \A p \in RelayPeer : \A f \in Stubs(k, p)' : f \in Stubs(k, p)
  OBVIOUS
<1>2. \A p \in RelayPeer : \A f \in Stubs(k, p)' : f.id <= rq_next'[p]
  BY <1>1 DEF NumberInv
<1>3. \A p \in RelayPeer : \A f, g \in Stubs(k, p)' : f.id = g.id => f.who = g.who
  BY <1>1 DEF NumberInv
<1> QED BY <1>2, <1>3 DEF NumberInv

\* One request more takes the next number of its peer.
LEMMA Numbered ==
    ASSUME NEW k, RelayType(k), BoxInv(k), NumberInv(k), NEW p \in RelayPeer, NEW r \in Relay(k)!Request,
           rq_next' = [rq_next EXCEPT ![p] = @ + 1],
           UNCHANGED <<tun, wire>>,
           \A q \in RelayPeer : Stubs(k, q)' \subseteq Stubs(k, q)
                \cup (IF q = p THEN {[id |-> rq_next[p] + 1, who |-> r]} ELSE {})
    PROVE  NumberInv(k)'
<1> DEFINE n == [id |-> rq_next[p] + 1, who |-> r]
<1>1. n.id = rq_next[p] + 1 /\ rq_next[p] \in Nat
  BY DEF RelayType
<1>2. \A q \in RelayPeer : rq_next'[q] = IF q = p THEN rq_next[q] + 1 ELSE rq_next[q]
  BY DEF RelayType
<1>3. \A q \in RelayPeer : \A f \in Stubs(k, q) : f.id \in Nat /\ f.id <= rq_next[q] /\ rq_next[q] \in Nat
  <2>1. ASSUME NEW q \in RelayPeer, NEW f \in Stubs(k, q)
        PROVE  f.id \in Nat /\ f.id <= rq_next[q] /\ rq_next[q] \in Nat
    <3>1. f \in RelayFrame(k)
      BY StubsAre, Zenon
    <3>2. f.id \in Nat
      BY <3>1 DEF RelayFrame
    <3>3. f.id <= rq_next[q] /\ rq_next[q] \in Nat
      BY DEF NumberInv, RelayType
    <3> QED BY <3>2, <3>3
  <2> QED BY <2>1
<1>4. \A q \in RelayPeer : \A f \in Stubs(k, q)' : f \in Stubs(k, q) \/ (q = p /\ f = n)
  OBVIOUS
<1> HIDE DEF n
<1>5. \A q \in RelayPeer : \A f \in Stubs(k, q)' : f.id <= rq_next'[q]
  BY <1>1, <1>2, <1>3, <1>4
<1>6. ASSUME NEW q \in RelayPeer, NEW f \in Stubs(k, q)', NEW g \in Stubs(k, q)', f.id = g.id PROVE f.who = g.who
  <2>1. CASE f \in Stubs(k, q) /\ g \in Stubs(k, q)
    BY <1>6, <2>1 DEF NumberInv
  <2>2. CASE f = n /\ g = n
    BY <2>2
  <2>3. CASE f \in Stubs(k, q) /\ g = n /\ q = p
    BY <1>1, <1>3, <1>6, <2>3
  <2>4. CASE g \in Stubs(k, q) /\ f = n /\ q = p
    BY <1>1, <1>3, <1>6, <2>4
  <2> QED BY <1>4, <2>1, <2>2, <2>3, <2>4
<1> QED BY <1>5, <1>6 DEF NumberInv

\* The EXEC slots when nothing about the requests that hold them changes.
LEMMA SlotKept ==
    ASSUME NEW k, RelayType(k), SlotInv(k), rex' = rex,
           \A x \in Kind[k].exec \cup Kind[k].target : /\ stage[x] = "posted" <=> stage'[x] = "posted"
                                                       /\ stage[x] = "posted" => Relay(k)!At(x)' = Relay(k)!At(x)
    PROVE  SlotInv(k)'
<1>1. \A p \in RelayPeer : \A e \in rex[p] : e.who \in Kind[k].exec \cup Kind[k].target
  BY DEF RelayType, ExecSlot
<1>2. \A p \in RelayPeer : \A e \in rex'[p] : stage'[e.who] = "posted" /\ Relay(k)!At(e.who)' = p
        /\ e.from \in {None, e.who}
  BY <1>1 DEF SlotInv
<1>3. \A r \in Kind[k].exec \cup Kind[k].target : stage'[r] = "posted" => \E e \in rex'[Relay(k)!At(r)'] : e.who = r
  BY DEF SlotInv
<1>4. \A p \in RelayPeer : \A e, f \in rex'[p] : e.who = f.who => e = f
  BY DEF SlotInv
<1> QED BY <1>2, <1>3, <1>4 DEF SlotInv
LEMMA BoxKept ==
    ASSUME NEW k, RelayType(k), BoxInv(k), box' = box,
           \A x \in Relay(k)!Boxed : /\ stage[x] = "posted" <=> stage'[x] = "posted"
                                     /\ stage[x] = "posted" => Relay(k)!At(x)' = Relay(k)!At(x)
    PROVE  BoxInv(k)'
<1>1. ASSUME NEW p \in RelayPeer, NEW b, b = box[p], b.who # None
      PROVE  b.who \in Relay(k)!Boxed /\ stage'[b.who] = "posted" /\ Relay(k)!At(b.who)' = p
               /\ b.from \in {None, b.who}
  <2>1. b.who \in Relay(k)!Boxed /\ stage[b.who] = "posted" /\ Relay(k)!At(b.who) = p /\ b.from \in {None, b.who}
    BY <1>1 DEF BoxInv
  <2> QED BY <2>1
<1>2. \A r \in Relay(k)!Boxed : stage'[r] = "posted" => box'[Relay(k)!At(r)'].who = r
  BY DEF BoxInv
<1>3. \A p \in RelayPeer : box'[p].who = None => box'[p] = Relay(k)!Idle
  BY DEF BoxInv
<1> QED BY <1>1, <1>2, <1>3 DEF BoxInv

\* A request that moves changes what is counted by what it takes or gives.
LEMMA CountMoved ==
    ASSUME NEW k, RelayConstants(k), RelayType(k), RelayCountInv(k), NEW r \in Relay(k)!Request, NEW s,
           stage' = [stage EXCEPT ![r] = s],
           \A q \in Relay(k)!Request \ {r} : cand'[q] = cand[q],
           rate' = rate + (IF r \in Kind[k].seg /\ s \in {"wait", "posted"} THEN 1 ELSE 0)
                        - (IF r \in Kind[k].seg /\ Taken(k, r) THEN 1 ELSE 0),
           \A p \in RelayPeer : refs'[p] = refs[p]
                + (IF s \in {"wait", "posted"} /\ p \in Relay(k)!Tries(r)' THEN 1 ELSE 0)
                                                   - (IF Taken(k, r) /\ p \in Relay(k)!Tries(r) THEN 1 ELSE 0)
    PROVE  RelayCountInv(k)'
<1>1. \A q \in Relay(k)!Request : stage'[q] = IF q = r THEN s ELSE stage[q]
  BY DEF RelayType
<1>2. \A q \in Relay(k)!Request : Taken(k, q)' <=> IF q = r THEN s \in {"wait", "posted"} ELSE Taken(k, q)
  BY <1>1 DEF Taken
<1>3. \A q \in Relay(k)!Request \ {r} : Relay(k)!Tries(q)' = Relay(k)!Tries(q)
  BY DEF Relay!Tries
<1>4. IsFiniteSet(Relay(k)!Request) /\ Kind[k].seg \subseteq Relay(k)!Request
  BY DEF RelayConstants, Relay!Request
<1>5. rate' = Cardinality({q \in Kind[k].seg : Taken(k, q)'})
  <2> DEFINE A == {q \in Kind[k].seg : Taken(k, q)}
             B == {q \in Kind[k].seg : Taken(k, q)'}
  <2>1. A \in SUBSET Relay(k)!Request /\ A \ {r} = B \ {r} /\ (r \in A <=> r \in Kind[k].seg /\ Taken(k, r))
        /\ (r \in B <=> r \in Kind[k].seg /\ s \in {"wait", "posted"})
    BY <1>2, <1>4
  <2>2. IsFiniteSet(A)
    BY <1>4, <2>1, FS_Subset
  <2>3. rate = Cardinality(A)
    BY DEF RelayCountInv
  <2>4. rate' = rate + (IF r \in B THEN 1 ELSE 0) - (IF r \in A THEN 1 ELSE 0)
    BY <2>1
  <2> HIDE DEF A, B
  <2>5. Cardinality(A) \in Nat /\ Cardinality(B) \in Nat
        /\ Cardinality(B) + (IF r \in A THEN 1 ELSE 0) = Cardinality(A) + (IF r \in B THEN 1 ELSE 0)
    BY <2>1, <2>2, CardShift
  <2>6. rate' = Cardinality(B)
    BY <2>3, <2>4, <2>5
  <2> QED BY <2>6 DEF B
<1>6. ASSUME NEW p \in RelayPeer
      PROVE  refs'[p] = Cardinality({q \in Relay(k)!Request : Taken(k, q)' /\ p \in Relay(k)!Tries(q)'})
  <2> DEFINE A == {q \in Relay(k)!Request : Taken(k, q) /\ p \in Relay(k)!Tries(q)}
             B == {q \in Relay(k)!Request : Taken(k, q)' /\ p \in Relay(k)!Tries(q)'}
  <2>1. A \in SUBSET Relay(k)!Request /\ A \ {r} = B \ {r} /\ (r \in A <=> Taken(k, r) /\ p \in Relay(k)!Tries(r))
        /\ (r \in B <=> s \in {"wait", "posted"} /\ p \in Relay(k)!Tries(r)')
    BY <1>2, <1>3
  <2>2. IsFiniteSet(A)
    BY <1>4, <2>1, FS_Subset
  <2>3. refs[p] = Cardinality(A)
    BY DEF RelayCountInv
  <2>4. refs'[p] = refs[p] + (IF r \in B THEN 1 ELSE 0) - (IF r \in A THEN 1 ELSE 0)
    BY <2>1
  <2> HIDE DEF A, B
  <2>5. Cardinality(A) \in Nat /\ Cardinality(B) \in Nat
        /\ Cardinality(B) + (IF r \in A THEN 1 ELSE 0) = Cardinality(A) + (IF r \in B THEN 1 ELSE 0)
    BY <2>1, <2>2, CardShift
  <2>6. refs'[p] = Cardinality(B)
    BY <2>3, <2>4, <2>5
  <2> QED BY <2>6 DEF B
<1> QED BY <1>5, <1>6 DEF RelayCountInv

\* A request that ends gives back what it took.
LEMMA EndStep ==
    ASSUME NEW k, RelayConstants(k), RelayType(k), ChoiceInv(k), RelayCountInv(k), Relay(k)!AnswerIsOwn,
           NEW r \in Relay(k)!Request, NEW out,
           stage[r] # "done", out \in {"refused", "failed", r}, Relay(k)!End(r, out)
    PROVE  /\ RelayCountInv(k)' /\ ChoiceInv(k)' /\ Relay(k)!AnswerIsOwn'
           /\ stage' \in [Relay(k)!Request -> {"new", "wait", "posted", "done"}] /\ cand' = cand /\ turn_of' = turn_of
           /\ answer' \in [Relay(k)!Request -> Relay(k)!Request \cup {None, "refused", "failed"}]
              /\ refs' \in [RelayPeer -> Int] /\ rate' \in Int
           /\ \A x \in Relay(k)!Request \ {r} : stage'[x] = stage[x]
           /\ stage'[r] = "done"
<1>1. /\ stage' = [stage EXCEPT ![r] = "done"] /\ answer' = [answer EXCEPT ![r] = out]
      /\ refs' = [p \in RelayPeer |-> refs[p] - IF p \in Relay(k)!Tries(r) THEN 1 ELSE 0]
      /\ rate' = (IF r \in Kind[k].seg /\ stage[r] # "new" THEN rate - 1 ELSE rate)
      /\ cand' = cand /\ turn_of' = turn_of
  BY DEF Relay!End
<1>2. /\ stage' \in [Relay(k)!Request -> {"new", "wait", "posted", "done"}]
      /\ answer' \in [Relay(k)!Request -> Relay(k)!Request \cup {None, "refused", "failed"}]
         /\ refs' \in [RelayPeer -> Int] /\ rate' \in Int
      /\ stage'[r] = "done" /\ \A x \in Relay(k)!Request \ {r} : stage'[x] = stage[x]
  BY <1>1 DEF RelayType
<1>3. Relay(k)!AnswerIsOwn'
  BY <1>1 DEF RelayType, Relay!AnswerIsOwn
<1>4. ChoiceInv(k)'
  BY <1>1, <1>2 DEF RelayType, ChoiceInv, Taken
<1>5. Taken(k, r) <=> stage[r] # "new"
  BY DEF RelayType, Taken
<1>6. stage[r] = "new" => Relay(k)!Tries(r) = {}
  BY DEF ChoiceInv, Relay!Tries
<1>7. \A p \in RelayPeer : refs'[p] = refs[p] + 0 - (IF Taken(k, r) /\ p \in Relay(k)!Tries(r) THEN 1 ELSE 0)
  BY <1>1, <1>5, <1>6 DEF RelayType
<1>8. rate' = rate + 0 - (IF r \in Kind[k].seg /\ Taken(k, r) THEN 1 ELSE 0)
  BY <1>1, <1>5 DEF RelayType
<1>9. RelayCountInv(k)'
  <2>1. "done" \notin {"wait", "posted"}
    OBVIOUS
  <2>2. rate' = rate + (IF r \in Kind[k].seg /\ "done" \in {"wait", "posted"} THEN 1 ELSE 0)
                     - (IF r \in Kind[k].seg /\ Taken(k, r) THEN 1 ELSE 0)
    BY <1>8, <2>1
  <2>3. \A p \in RelayPeer : refs'[p] = refs[p]
          + (IF "done" \in {"wait", "posted"} /\ p \in Relay(k)!Tries(r)' THEN 1 ELSE 0)
                                              - (IF Taken(k, r) /\ p \in Relay(k)!Tries(r) THEN 1 ELSE 0)
    BY <1>7, <2>1
  <2> QED BY <1>1, <2>2, <2>3, CountMoved
<1> QED BY <1>1, <1>2, <1>3, <1>4, <1>9

\* At the start nothing is numbered, held or counted.
LEMMA RelayStart == ASSUME NEW k, RelayConstants(k), Relay(k)!Init PROVE RelayInv(k)
<1>1. RelayType(k)
  BY DEF Relay!Init, RelayType, Relay!Request, Relay!Idle, Mail
<1>2. ChoiceInv(k) /\ Relay(k)!AnswerIsOwn
  BY DEF Relay!Init, ChoiceInv, Taken, Relay!AnswerIsOwn
<1>3. \A p \in RelayPeer : Stubs(k, p) = {}
  BY DEF Relay!Init, Stubs
<1>4. NumberInv(k)
  BY <1>3 DEF Relay!Init, NumberInv
<1>5. SlotInv(k) /\ BoxInv(k)
  BY DEF Relay!Init, SlotInv, BoxInv, Relay!Request, Relay!Boxed, Relay!Idle
<1>6. RelayCountInv(k)
  <2>1. {r \in Kind[k].seg : Taken(k, r)} = {}
          /\ \A p \in RelayPeer : {r \in Relay(k)!Request : Taken(k, r) /\ p \in Relay(k)!Tries(r)} = {}
    BY DEF Relay!Init, Taken, Relay!Request
  <2> QED BY <2>1, FS_EmptySet DEF Relay!Init, RelayCountInv
<1> QED BY <1>1, <1>2, <1>4, <1>5, <1>6 DEF RelayInv

\* A peer registers.
LEMMA ConnectStep ==
    ASSUME NEW k, RelayConstants(k), RelayInv(k), NEW c \in RelayConn, NEW p \in RelayPeer, Relay(k)!Connect(c, p)
    PROVE  RelayInv(k)'
<1> USE DEF RelayInv
<1>1. /\ tun[c] = None /\ tun' = [tun EXCEPT ![c] = p] /\ ctrl' = [ctrl EXCEPT ![p] = c]
      /\ UNCHANGED <<wire, box, rex, outq, rq_next, stage, cand, turn_of, answer, refs, rate>>
  BY DEF Relay!Connect
<1>2. RelayType(k)'
  BY <1>1 DEF RelayType
<1>3. ChoiceInv(k)' /\ RelayCountInv(k)' /\ Relay(k)!AnswerIsOwn'
  <2>1. UNCHANGED <<stage, cand, turn_of, answer, refs, rate>>
    BY <1>1
  <2>2. ChoiceInv(k)'
    BY <2>1 DEF ChoiceInv, Taken
  <2>3. RelayCountInv(k)'
    BY <2>1 DEF RelayCountInv, Taken, Relay!Tries
  <2> QED BY <2>1, <2>2, <2>3 DEF Relay!AnswerIsOwn
<1>4. SlotInv(k)'
  BY <1>1, SlotKept DEF Relay!At
<1>5. BoxInv(k)'
  BY <1>1, BoxKept DEF Relay!At
<1>6. \A d \in RelayConn : tun'[d] = IF d = c THEN p ELSE tun[d]
  BY <1>1 DEF RelayType
<1>7. wire[c] = {}
  BY <1>1 DEF NumberInv
<1>8. ASSUME NEW q \in RelayPeer PROVE Stubs(k, q)' \subseteq Stubs(k, q)
  <2>1. UNION {wire[d] : d \in {e \in RelayConn : tun'[e] = q}}
          \subseteq UNION {wire[d] : d \in {e \in RelayConn : tun[e] = q}}
    BY <1>6, <1>7
  <2> QED BY <1>1, <2>1 DEF Stubs, Stub
<1>9. NumberInv(k)'
  <2>1. \A d \in RelayConn : tun'[d] = None => wire'[d] = {}
    BY <1>1, <1>6, <1>7 DEF NumberInv
  <2> QED BY <1>1, <1>8, <2>1, NumberKept
<1> QED BY <1>2, <1>3, <1>4, <1>5, <1>9

\* What concerns no posted request touches neither mailboxes nor slots.
LEMMA Outside ==
    ASSUME NEW k, RelayType(k), NumberInv(k), SlotInv(k), BoxInv(k),
           UNCHANGED <<tun, ctrl, connects, wire, box, rex, outq, rq_next>>,
           stage' \in [Relay(k)!Request -> {"new", "wait", "posted", "done"}],
                cand' \in [Relay(k)!Request -> Seq(RelayPeer)],
           turn_of' \in [Relay(k)!Request -> Nat],
                answer' \in [Relay(k)!Request -> Relay(k)!Request \cup {None, "refused", "failed"}],
           refs' \in [RelayPeer -> Int], rate' \in Int,
           \A x \in Relay(k)!Request : /\ stage[x] = "posted" <=> stage'[x] = "posted"
                                       /\ stage[x] = "posted" => cand'[x] = cand[x] /\ turn_of'[x] = turn_of[x]
    PROVE  RelayType(k)' /\ NumberInv(k)' /\ SlotInv(k)' /\ BoxInv(k)'
<1>1. RelayType(k)'
  BY DEF RelayType
<1>2. NumberInv(k)'
  BY DEF NumberInv, Stubs, Stub
<1>3. Relay(k)!Boxed \subseteq Relay(k)!Request /\ Kind[k].exec \cup Kind[k].target \subseteq Relay(k)!Request
  BY DEF Relay!Boxed, Relay!Request
<1>4. SlotInv(k)'
  BY <1>3, SlotKept DEF Relay!At
<1>5. BoxInv(k)'
  BY <1>3, BoxKept DEF Relay!At
<1> QED BY <1>1, <1>2, <1>4, <1>5

\* A request is refused before it takes anything.
LEMMA RefuseStep ==
    ASSUME NEW k, RelayConstants(k), RelayInv(k), NEW r \in Relay(k)!Request, Relay(k)!Refuse(r)
    PROVE  RelayInv(k)'
<1> USE DEF RelayInv
<1>1. stage[r] = "new" /\ Relay(k)!End(r, "refused")
        /\ UNCHANGED <<tun, ctrl, connects, wire, box, rex, outq, rq_next>>
  BY DEF Relay!Refuse
<1>2. /\ RelayCountInv(k)' /\ ChoiceInv(k)' /\ Relay(k)!AnswerIsOwn'
      /\ stage' \in [Relay(k)!Request -> {"new", "wait", "posted", "done"}] /\ cand' = cand /\ turn_of' = turn_of
      /\ answer' \in [Relay(k)!Request -> Relay(k)!Request \cup {None, "refused", "failed"}]
         /\ refs' \in [RelayPeer -> Int] /\ rate' \in Int
      /\ \A x \in Relay(k)!Request \ {r} : stage'[x] = stage[x]
      /\ stage'[r] = "done"
  BY <1>1, EndStep
<1>3. cand' \in [Relay(k)!Request -> Seq(RelayPeer)] /\ turn_of' \in [Relay(k)!Request -> Nat]
  BY <1>2 DEF RelayType
<1>4. \A x \in Relay(k)!Request : /\ stage[x] = "posted" <=> stage'[x] = "posted"
                                 /\ stage[x] = "posted" => cand'[x] = cand[x] /\ turn_of'[x] = turn_of[x]
  BY <1>1, <1>2
<1>5. RelayType(k)' /\ NumberInv(k)' /\ SlotInv(k)' /\ BoxInv(k)'
  BY <1>1, <1>2, <1>3, <1>4, Outside
<1> QED BY <1>2, <1>5

\* A request takes the peer it was given.
LEMMA TakeStep ==
    ASSUME NEW k, RelayConstants(k), RelayInv(k), NEW r \in Relay(k)!Request, NEW p \in RelayPeer,
           Relay(k)!Take(r, p),
           rate' = rate + (IF r \in Kind[k].seg THEN 1 ELSE 0)
    PROVE  RelayInv(k)'
<1> USE DEF RelayInv
<1>1. /\ stage[r] = "new" /\ refs' = [refs EXCEPT ![p] = @ + 1]
      /\ cand' = [cand EXCEPT ![r] = <<p>>] /\ stage' = [stage EXCEPT ![r] = "wait"]
      /\ UNCHANGED <<tun, ctrl, connects, wire, box, rex, outq, rq_next, turn_of, answer>>
  BY DEF Relay!Take
<1>2. <<p>> \in Seq(RelayPeer) /\ DOMAIN <<p>> = {1} /\ <<p>>[1] = p
  OBVIOUS
<1>3. /\ stage' \in [Relay(k)!Request -> {"new", "wait", "posted", "done"}]
      /\ cand' \in [Relay(k)!Request -> Seq(RelayPeer)] /\ turn_of' \in [Relay(k)!Request -> Nat]
      /\ answer' \in [Relay(k)!Request -> Relay(k)!Request \cup {None, "refused", "failed"}]
         /\ refs' \in [RelayPeer -> Int] /\ rate' \in Int
  <2>1. cand' \in [Relay(k)!Request -> Seq(RelayPeer)]
    <3> HIDE DEF RelayInv
    <3>1. cand \in [Relay(k)!Request -> Seq(RelayPeer)]
      BY DEF RelayInv, RelayType
    <3> QED BY <1>1, <1>2, <3>1
  <2> QED BY <1>1, <2>1 DEF RelayType
<1>4. \A x \in Relay(k)!Request : /\ stage[x] = "posted" <=> stage'[x] = "posted"
                                  /\ stage[x] = "posted" => cand'[x] = cand[x] /\ turn_of'[x] = turn_of[x]
  BY <1>1 DEF RelayType
<1>5. RelayType(k)' /\ NumberInv(k)' /\ SlotInv(k)' /\ BoxInv(k)'
  BY <1>1, <1>3, <1>4, Outside
<1>6. cand'[r] = <<p>> /\ (\A q \in Relay(k)!Request \ {r} : cand'[q] = cand[q] /\ stage'[q] = stage[q])
        /\ turn_of[r] = 1
  BY <1>1 DEF RelayType, ChoiceInv
<1>7. ChoiceInv(k)'
  BY <1>1, <1>2, <1>6 DEF ChoiceInv, Taken, RelayType
<1>8. Relay(k)!AnswerIsOwn'
  BY <1>1 DEF Relay!AnswerIsOwn
<1>9. ~Taken(k, r) /\ Relay(k)!Tries(r)' = {p}
  BY <1>1, <1>2, <1>6 DEF Taken, Relay!Tries
<1>10. RelayCountInv(k)'
  <2>1. "wait" \in {"wait", "posted"}
    OBVIOUS
  <2>2. rate' = rate + (IF r \in Kind[k].seg /\ "wait" \in {"wait", "posted"} THEN 1 ELSE 0)
                     - (IF r \in Kind[k].seg /\ Taken(k, r) THEN 1 ELSE 0)
    BY <1>9, <2>1 DEF RelayType
  <2>3. \A q \in RelayPeer : refs'[q] = refs[q]
          + (IF "wait" \in {"wait", "posted"} /\ q \in Relay(k)!Tries(r)' THEN 1 ELSE 0)
                                              - (IF Taken(k, r) /\ q \in Relay(k)!Tries(r) THEN 1 ELSE 0)
    BY <1>1, <1>9, <2>1 DEF RelayType
  <2>4. \A q \in Relay(k)!Request \ {r} : cand'[q] = cand[q]
    BY <1>6
  <2>5. stage' = [stage EXCEPT ![r] = "wait"]
    BY <1>1
  <2> HIDE DEF RelayInv
  <2>6. RelayType(k) /\ RelayCountInv(k)
    BY DEF RelayInv
  <2> QED BY <2>2, <2>3, <2>4, <2>5, <2>6, CountMoved, Zenon
<1> QED BY <1>5, <1>7, <1>8, <1>10

\* REXEC takes every live peer, in some order.
LEMMA SelectAllStep ==
    ASSUME NEW k, RelayConstants(k), RelayInv(k), NEW r \in Relay(k)!Request, Relay(k)!SelectAll(r)
    PROVE  RelayInv(k)'
<1> USE DEF RelayInv
<1> DEFINE live == {p \in RelayPeer : ctrl[p] # None}
<1>0. PICK q \in Relay(k)!Orders : q # <<>> /\ cand' = [cand EXCEPT ![r] = q]
        /\ refs' = [p \in RelayPeer |-> refs[p] + IF ctrl[p] # None THEN 1 ELSE 0]
  BY DEF Relay!SelectAll
<1>1. /\ stage[r] = "new" /\ r \in Kind[k].exec /\ stage' = [stage EXCEPT ![r] = "wait"]
      /\ UNCHANGED <<tun, ctrl, connects, wire, box, rex, outq, rq_next, turn_of, answer, rate>>
  BY DEF Relay!SelectAll
<1>2. IsFiniteSet(live) /\ Cardinality(live) \in Nat
  <2>1. live \in SUBSET RelayPeer
    OBVIOUS
  <2> QED BY <2>1, FS_Subset, FS_CardinalityType DEF RelayConstants
<1>3. q \in [1 .. Cardinality(live) -> live] /\ \A i, j \in DOMAIN q : i # j => q[i] # q[j]
  <2>1. Relay(k)!Cardinality(live) = Cardinality(live)
    BY RelayCounts
  <2>2. q \in [1 .. Relay(k)!Cardinality(live) -> live] /\ \A i, j \in DOMAIN q : i # j => q[i] # q[j]
    BY <1>0 DEF Relay!Orders
  <2> HIDE DEF live
  <2> QED BY <2>1, <2>2
<1> HIDE DEF live
<1>4. q \in Seq(RelayPeer) /\ DOMAIN q = 1 .. Cardinality(live) /\ 1 \in DOMAIN q
  <2>1. q \in Seq(live)
    BY <1>2, <1>3
  <2>2. Len(q) = Cardinality(live)
    BY <1>2, <1>3, <2>1
  <2>3. Len(q) # 0
    BY <1>0, <2>1
  <2>4. q \in Seq(RelayPeer)
    BY <1>2, <1>3 DEF live
  <2> QED BY <1>2, <1>3, <2>2, <2>3, <2>4
<1>5. {q[i] : i \in DOMAIN q} = live
  <2>1. IsFiniteSet(1 .. Cardinality(live)) /\ Cardinality(1 .. Cardinality(live)) = Cardinality(live)
    BY <1>2, FS_Interval
  <2>2. q \in Injection(1 .. Cardinality(live), live)
    BY <1>3 DEF Injection, IsInjective
  <2>3. q \in Surjection(1 .. Cardinality(live), live)
    BY <1>2, <2>1, <2>2, FS_Injection
  <2> QED BY <1>3, <2>3 DEF Surjection
<1>6. /\ stage' \in [Relay(k)!Request -> {"new", "wait", "posted", "done"}]
      /\ cand' \in [Relay(k)!Request -> Seq(RelayPeer)] /\ turn_of' \in [Relay(k)!Request -> Nat]
      /\ answer' \in [Relay(k)!Request -> Relay(k)!Request \cup {None, "refused", "failed"}]
         /\ refs' \in [RelayPeer -> Int] /\ rate' \in Int
  BY <1>0, <1>1, <1>4 DEF RelayType
<1>7. \A x \in Relay(k)!Request : /\ stage[x] = "posted" <=> stage'[x] = "posted"
                                  /\ stage[x] = "posted" => cand'[x] = cand[x] /\ turn_of'[x] = turn_of[x]
  BY <1>0, <1>1 DEF RelayType
<1>8. RelayType(k)' /\ NumberInv(k)' /\ SlotInv(k)' /\ BoxInv(k)'
  BY <1>1, <1>6, <1>7, Outside
<1>9. cand'[r] = q /\ (\A x \in Relay(k)!Request \ {r} : cand'[x] = cand[x] /\ stage'[x] = stage[x]) /\ turn_of[r] = 1
  BY <1>0, <1>1 DEF RelayType, ChoiceInv
<1>10. ChoiceInv(k)'
  BY <1>1, <1>4, <1>9 DEF ChoiceInv, Taken, RelayType
<1>11. Relay(k)!AnswerIsOwn'
  BY <1>1 DEF Relay!AnswerIsOwn
<1>12. ~Taken(k, r) /\ Relay(k)!Tries(r)' = live /\ r \notin Kind[k].seg
  BY <1>1, <1>5, <1>9 DEF Taken, Relay!Tries, RelayConstants, Relay!Boxed
<1>13. RelayCountInv(k)'
  <2>1. "wait" \in {"wait", "posted"}
    OBVIOUS
  <2>2. rate' = rate + (IF r \in Kind[k].seg /\ "wait" \in {"wait", "posted"} THEN 1 ELSE 0)
                     - (IF r \in Kind[k].seg /\ Taken(k, r) THEN 1 ELSE 0)
    BY <1>1, <1>12, <2>1 DEF RelayType
  <2>3. \A p \in RelayPeer : refs'[p] = refs[p]
          + (IF "wait" \in {"wait", "posted"} /\ p \in Relay(k)!Tries(r)' THEN 1 ELSE 0)
                                              - (IF Taken(k, r) /\ p \in Relay(k)!Tries(r) THEN 1 ELSE 0)
    BY <1>0, <1>12, <2>1 DEF RelayType, live
  <2> QED BY <1>1, <1>9, <2>2, <2>3, CountMoved
<1> QED BY <1>8, <1>10, <1>11, <1>13

\* A request that waits or is posted, and stays so, keeps what it took.
LEMMA Holding ==
    ASSUME NEW k, RelayType(k), ChoiceInv(k), RelayCountInv(k), Relay(k)!AnswerIsOwn, NEW r \in Relay(k)!Request,
           Taken(k, r), NEW s \in {"wait", "posted"},
           stage' = [stage EXCEPT ![r] = s], cand' = cand, \A x \in Relay(k)!Request \ {r} : turn_of'[x] = turn_of[x],
           turn_of' \in [Relay(k)!Request -> Nat], turn_of'[r] \in DOMAIN cand[r], UNCHANGED <<answer, refs, rate>>
    PROVE  RelayCountInv(k)' /\ ChoiceInv(k)' /\ Relay(k)!AnswerIsOwn'
             /\ stage' \in [Relay(k)!Request -> {"new", "wait", "posted", "done"}]
<1>1. stage' \in [Relay(k)!Request -> {"new", "wait", "posted", "done"}]
        /\ \A x \in Relay(k)!Request : stage'[x] = IF x = r THEN s ELSE stage[x]
  BY DEF RelayType
<1>2. \A x \in Relay(k)!Request : Taken(k, x)' = Taken(k, x)
  BY <1>1 DEF Taken
<1>3. Kind[k].seg \subseteq Relay(k)!Request
  BY DEF Relay!Request
<1>4. RelayCountInv(k)'
  <2>1. {x \in Kind[k].seg : Taken(k, x)'} = {x \in Kind[k].seg : Taken(k, x)}
    BY <1>2, <1>3
  <2>2. \A p \in RelayPeer : {x \in Relay(k)!Request : Taken(k, x)' /\ p \in Relay(k)!Tries(x)'}
          = {x \in Relay(k)!Request : Taken(k, x) /\ p \in Relay(k)!Tries(x)}
    BY <1>2 DEF Relay!Tries
  <2> QED BY <2>1, <2>2 DEF RelayCountInv
<1>5. ChoiceInv(k)'
  BY <1>1, <1>2 DEF ChoiceInv
<1> QED BY <1>1, <1>4, <1>5 DEF Relay!AnswerIsOwn

\* A candidate failed: the next one is tried, or the request ends.
LEMMA FailureStep ==
    ASSUME NEW k, RelayConstants(k), RelayType(k), ChoiceInv(k), RelayCountInv(k), Relay(k)!AnswerIsOwn,
           NEW r \in Relay(k)!Request, Taken(k, r), Relay(k)!AfterFailure(r)
    PROVE  /\ RelayCountInv(k)' /\ ChoiceInv(k)' /\ Relay(k)!AnswerIsOwn'
           /\ stage' \in [Relay(k)!Request -> {"new", "wait", "posted", "done"}] /\ cand' = cand
              /\ turn_of' \in [Relay(k)!Request -> Nat]
           /\ answer' \in [Relay(k)!Request -> Relay(k)!Request \cup {None, "refused", "failed"}]
              /\ refs' \in [RelayPeer -> Int] /\ rate' \in Int
           /\ \A x \in Relay(k)!Request \ {r} : stage'[x] = stage[x] /\ turn_of'[x] = turn_of[x]
           /\ stage'[r] \in {"wait", "done"}
<1>1. CASE turn_of[r] < Len(cand[r])
  <2>1. turn_of' = [turn_of EXCEPT ![r] = @ + 1] /\ stage' = [stage EXCEPT ![r] = "wait"]
          /\ UNCHANGED <<cand, answer, refs, rate>>
    BY <1>1 DEF Relay!AfterFailure
  <2>2. turn_of[r] \in Nat /\ cand[r] \in Seq(RelayPeer)
    BY DEF RelayType
  <2>3. /\ turn_of' \in [Relay(k)!Request -> Nat] /\ turn_of'[r] = turn_of[r] + 1
        /\ \A x \in Relay(k)!Request \ {r} : stage'[x] = stage[x] /\ turn_of'[x] = turn_of[x]
        /\ stage'[r] = "wait"
    BY <2>1 DEF RelayType
  <2>4. turn_of'[r] \in DOMAIN cand[r]
    BY <1>1, <2>2, <2>3
  <2>5. RelayCountInv(k)' /\ ChoiceInv(k)' /\ Relay(k)!AnswerIsOwn'
          /\ stage' \in [Relay(k)!Request -> {"new", "wait", "posted", "done"}]
    BY <2>1, <2>3, <2>4, Holding
  <2> QED BY <2>1, <2>3, <2>5 DEF RelayType
<1>2. CASE ~(turn_of[r] < Len(cand[r]))
  <2>1. Relay(k)!End(r, "failed") /\ stage[r] # "done"
    BY <1>2 DEF Relay!AfterFailure, Taken
  <2>2. /\ RelayCountInv(k)' /\ ChoiceInv(k)' /\ Relay(k)!AnswerIsOwn'
        /\ stage' \in [Relay(k)!Request -> {"new", "wait", "posted", "done"}] /\ cand' = cand /\ turn_of' = turn_of
        /\ answer' \in [Relay(k)!Request -> Relay(k)!Request \cup {None, "refused", "failed"}]
           /\ refs' \in [RelayPeer -> Int] /\ rate' \in Int
        /\ \A x \in Relay(k)!Request \ {r} : stage'[x] = stage[x]
        /\ stage'[r] = "done"
    BY <2>1, EndStep
  <2> QED BY <2>2 DEF RelayType
<1> QED BY <1>1, <1>2

\* A mailbox held too long, or EXEC slots all taken until the deadline.
LEMMA QueueTimeoutStep ==
    ASSUME NEW k, RelayConstants(k), RelayInv(k), NEW r \in Relay(k)!Request, Relay(k)!QueueTimeout(r)
    PROVE  RelayInv(k)'
<1> USE DEF RelayInv
<1>1. stage[r] = "wait" /\ Relay(k)!End(r, "failed")
        /\ UNCHANGED <<tun, ctrl, connects, wire, box, rex, outq, rq_next>>
  BY DEF Relay!QueueTimeout
<1>2. /\ RelayCountInv(k)' /\ ChoiceInv(k)' /\ Relay(k)!AnswerIsOwn'
      /\ stage' \in [Relay(k)!Request -> {"new", "wait", "posted", "done"}] /\ cand' = cand /\ turn_of' = turn_of
      /\ answer' \in [Relay(k)!Request -> Relay(k)!Request \cup {None, "refused", "failed"}]
         /\ refs' \in [RelayPeer -> Int] /\ rate' \in Int
      /\ \A x \in Relay(k)!Request \ {r} : stage'[x] = stage[x]
      /\ stage'[r] = "done"
  BY <1>1, EndStep
<1>3. cand' \in [Relay(k)!Request -> Seq(RelayPeer)] /\ turn_of' \in [Relay(k)!Request -> Nat]
  BY <1>2 DEF RelayType
<1>4. \A x \in Relay(k)!Request : /\ stage[x] = "posted" <=> stage'[x] = "posted"
                                  /\ stage[x] = "posted" => cand'[x] = cand[x] /\ turn_of'[x] = turn_of[x]
  BY <1>1, <1>2
<1>5. RelayType(k)' /\ NumberInv(k)' /\ SlotInv(k)' /\ BoxInv(k)'
  BY <1>1, <1>2, <1>3, <1>4, Outside
<1> QED BY <1>2, <1>5
LEMMA SaturatedStep ==
    ASSUME NEW k, RelayConstants(k), RelayInv(k), NEW r \in Relay(k)!Request, Relay(k)!Saturated(r)
    PROVE  RelayInv(k)'
<1> USE DEF RelayInv
<1>1. stage[r] = "wait" /\ Relay(k)!AfterFailure(r)
        /\ UNCHANGED <<tun, ctrl, connects, wire, box, rex, outq, rq_next>>
  BY DEF Relay!Saturated
<1>2. /\ RelayCountInv(k)' /\ ChoiceInv(k)' /\ Relay(k)!AnswerIsOwn'
      /\ stage' \in [Relay(k)!Request -> {"new", "wait", "posted", "done"}] /\ cand' = cand
         /\ turn_of' \in [Relay(k)!Request -> Nat]
      /\ answer' \in [Relay(k)!Request -> Relay(k)!Request \cup {None, "refused", "failed"}]
         /\ refs' \in [RelayPeer -> Int] /\ rate' \in Int
      /\ \A x \in Relay(k)!Request \ {r} : stage'[x] = stage[x] /\ turn_of'[x] = turn_of[x]
      /\ stage'[r] \in {"wait", "done"}
  <2>1. Taken(k, r)
    BY <1>1 DEF Taken
  <2> QED BY <1>1, <2>1, FailureStep
<1>3. cand' \in [Relay(k)!Request -> Seq(RelayPeer)]
  BY <1>2 DEF RelayType
<1>4. \A x \in Relay(k)!Request : /\ stage[x] = "posted" <=> stage'[x] = "posted"
                                  /\ stage[x] = "posted" => cand'[x] = cand[x] /\ turn_of'[x] = turn_of[x]
  BY <1>1, <1>2
<1>5. RelayType(k)' /\ NumberInv(k)' /\ SlotInv(k)' /\ BoxInv(k)'
  BY <1>1, <1>2, <1>3, <1>4, Outside
<1> QED BY <1>2, <1>5

\* A request takes the mailbox of its peer under the next number.
LEMMA PostBoxStep ==
    ASSUME NEW k, RelayConstants(k), RelayInv(k), NEW r \in Relay(k)!Request, Relay(k)!PostBox(r)
    PROVE  RelayInv(k)'
<1> USE DEF RelayInv
<1> DEFINE p == Relay(k)!At(r)
           b == [Relay(k)!Idle EXCEPT !.who = r, !.id = rq_next[p] + 1]
<1>1. /\ stage[r] = "wait" /\ r \in Relay(k)!Boxed /\ box[p].who = None
      /\ rq_next' = [rq_next EXCEPT ![p] = @ + 1] /\ box' = [box EXCEPT ![p] = b]
      /\ stage' = [stage EXCEPT ![r] = "posted"]
      /\ UNCHANGED <<tun, ctrl, connects, wire, rex, outq, cand, turn_of, answer, refs, rate>>
  BY DEF Relay!PostBox
<1>2. p \in RelayPeer /\ r # None /\ b.who = r /\ b.id = rq_next[p] + 1 /\ b.from = None /\ b \in Mail(k)
      /\ turn_of[r] \in DOMAIN cand[r] /\ rq_next[p] \in Nat
  <2>1. turn_of[r] \in DOMAIN cand[r] /\ r # None
    BY <1>1 DEF ChoiceInv, Taken, RelayConstants
  <2>2. cand[r] \in Seq(RelayPeer)
    BY DEF RelayType
  <2>3. p \in RelayPeer
    BY <2>1, <2>2 DEF Relay!At
  <2>4. rq_next[p] \in Nat
    BY <2>3 DEF RelayType
  <2> HIDE DEF p
  <2> DEFINE n == rq_next[p] + 1
  <2>5. b.who = r /\ b.id = n /\ b.from = None /\ b \in Mail(k)
    <3> DEFINE j == [Relay(k)!Idle EXCEPT !.who = r]
    <3>1. Relay(k)!Idle \in Mail(k) /\ Relay(k)!Idle.from = None
      BY DEF Relay!Idle, Mail
    <3>2. j \in Mail(k) /\ j.who = r /\ j.from = None
      BY <3>1 DEF Mail
    <3>3. b = [j EXCEPT !.id = n]
      OBVIOUS
    <3>4. n \in Nat
      BY <2>4
    <3> HIDE DEF j, b, n
    <3> QED BY <3>2, <3>3, <3>4 DEF Mail
  <2> QED BY <2>1, <2>3, <2>4, <2>5
<1>4. \A x \in Relay(k)!Request : Relay(k)!At(x)' = Relay(k)!At(x)
  BY <1>1 DEF Relay!At
<1> HIDE DEF p, b
<1>5. RelayCountInv(k)' /\ ChoiceInv(k)' /\ Relay(k)!AnswerIsOwn'
        /\ stage' \in [Relay(k)!Request -> {"new", "wait", "posted", "done"}]
  <2>1. Taken(k, r) /\ turn_of' \in [Relay(k)!Request -> Nat] /\ turn_of'[r] \in DOMAIN cand[r]
    BY <1>1, <1>2 DEF Taken, RelayType
  <2> QED BY <1>1, <2>1, Holding
<1>6. RelayType(k)'
  <2>1. box' \in [RelayPeer -> Mail(k)]
    BY <1>1, <1>2 DEF RelayType
  <2>2. rq_next' \in [RelayPeer -> Nat]
    <3>1. rq_next \in [RelayPeer -> Nat]
      BY DEF RelayType
    <3> QED BY <1>1, <1>2, <3>1
  <2> QED BY <1>1, <1>5, <2>1, <2>2 DEF RelayType
<1>7. \A q \in RelayPeer : box'[q] = IF q = p THEN b ELSE box[q]
  BY <1>1 DEF RelayType
<1>8. \A x \in Relay(k)!Request : stage'[x] = IF x = r THEN "posted" ELSE stage[x]
  BY <1>1 DEF RelayType
<1>9. BoxInv(k)'
  <2>1. ASSUME NEW q \in RelayPeer, NEW a, a = box'[q], a.who # None
        PROVE  a.who \in Relay(k)!Boxed /\ stage'[a.who] = "posted" /\ Relay(k)!At(a.who)' = q
                 /\ a.from \in {None, a.who}
    <3>1. CASE q = p
      BY <1>1, <1>2, <1>4, <1>7, <1>8, <2>1, <3>1 DEF p
    <3>2. CASE q # p
      <4>1. a = box[q] /\ a.who \in Relay(k)!Request
        BY <1>7, <2>1, <3>2 DEF RelayType, Mail
      <4>2. a.who \in Relay(k)!Boxed /\ stage[a.who] = "posted" /\ Relay(k)!At(a.who) = q /\ a.from \in {None, a.who}
        BY <2>1, <4>1 DEF BoxInv
      <4> QED BY <1>4, <1>8, <4>1, <4>2
    <3> QED BY <3>1, <3>2
  <2>2. \A q \in RelayPeer : box'[q].who = None => box'[q] = Relay(k)!Idle
    BY <1>2, <1>7 DEF BoxInv
  <2>3. ASSUME NEW x \in Relay(k)!Boxed, stage'[x] = "posted" PROVE box'[Relay(k)!At(x)'].who = x
    <3>1. x \in Relay(k)!Request
      BY DEF Relay!Boxed, Relay!Request
    <3>2. CASE x = r
      BY <1>2, <1>4, <1>7, <3>1, <3>2 DEF p
    <3>3. CASE x # r
      <4>1. box[Relay(k)!At(x)].who = x /\ Relay(k)!At(x) \in RelayPeer /\ x # None
        BY <1>8, <2>3, <3>1, <3>3 DEF BoxInv, Relay!At, RelayType, ChoiceInv, Taken, RelayConstants
      <4>2. Relay(k)!At(x) # p
        BY <1>1, <4>1
      <4> QED BY <1>4, <1>7, <3>1, <4>1, <4>2
    <3> QED BY <3>2, <3>3
  <2> QED BY <2>1, <2>2, <2>3 DEF BoxInv
<1>10. SlotInv(k)'
  <2>1. \A x \in Kind[k].exec \cup Kind[k].target : x \in Relay(k)!Request /\ x # r
    BY <1>1 DEF RelayConstants, Relay!Request
  <2> QED BY <1>1, <1>4, <1>8, <2>1, SlotKept
<1>11. NumberInv(k)'
  <2>1. ASSUME NEW q \in RelayPeer
        PROVE  Stubs(k, q)' \subseteq Stubs(k, q) \cup (IF q = p THEN {[id |-> rq_next[p] + 1, who |-> r]} ELSE {})
    <3>1. Stub(k, b) = [id |-> rq_next[p] + 1, who |-> r]
      BY <1>2 DEF Stub
    <3>2. {Stub(k, a) : a \in {box'[q]} \ {Relay(k)!Idle}}
            \subseteq {Stub(k, a) : a \in {box[q]} \ {Relay(k)!Idle}}
                 \cup (IF q = p THEN {[id |-> rq_next[p] + 1, who |-> r]} ELSE {})
      BY <1>7, <3>1
    <3> QED BY <1>1, <3>2 DEF Stubs, Stub
  <2> QED BY <1>1, <1>2, <2>1, Numbered
<1> QED BY <1>5, <1>6, <1>9, <1>10, <1>11

\* It takes what is there and frees the mailbox.
LEMMA FinishBoxStep ==
    ASSUME NEW k, RelayConstants(k), RelayInv(k), NEW r \in Relay(k)!Request, Relay(k)!FinishBox(r)
    PROVE  RelayInv(k)'
<1> USE DEF RelayInv
<1> DEFINE p == Relay(k)!At(r)
<1>1. /\ stage[r] = "posted" /\ r \in Relay(k)!Boxed
         /\ Relay(k)!End(r, IF box[p].from # None THEN box[p].from ELSE "failed")
      /\ box' = [box EXCEPT ![p] = Relay(k)!Idle]
      /\ UNCHANGED <<tun, ctrl, connects, wire, rex, outq, rq_next>>
  BY DEF Relay!FinishBox
<1>2. p \in RelayPeer /\ box[p].who = r /\ r # None /\ box[p].from \in {None, r}
  <2>1. p \in RelayPeer /\ box[p].who = r /\ r # None
    BY <1>1 DEF Relay!At, RelayType, ChoiceInv, Taken, RelayConstants, BoxInv
  <2> QED BY <2>1 DEF BoxInv
<1> HIDE DEF p
<1>3. /\ RelayCountInv(k)' /\ ChoiceInv(k)' /\ Relay(k)!AnswerIsOwn'
      /\ stage' \in [Relay(k)!Request -> {"new", "wait", "posted", "done"}] /\ cand' = cand /\ turn_of' = turn_of
      /\ answer' \in [Relay(k)!Request -> Relay(k)!Request \cup {None, "refused", "failed"}]
         /\ refs' \in [RelayPeer -> Int] /\ rate' \in Int
      /\ \A x \in Relay(k)!Request \ {r} : stage'[x] = stage[x]
      /\ stage'[r] = "done"
  <2> DEFINE out == IF box[p].from # None THEN box[p].from ELSE "failed"
  <2>1. out \in {"refused", "failed", r} /\ stage[r] # "done" /\ Relay(k)!End(r, out)
    BY <1>1, <1>2
  <2> HIDE DEF out
  <2> QED BY <2>1, EndStep
<1>4. \A x \in Relay(k)!Request : Relay(k)!At(x)' = Relay(k)!At(x)
  BY <1>3 DEF Relay!At
<1>5. RelayType(k)'
  BY <1>1, <1>2, <1>3 DEF RelayType, Relay!Idle, Mail
<1>6. \A q \in RelayPeer : box'[q] = IF q = p THEN Relay(k)!Idle ELSE box[q]
  BY <1>1 DEF RelayType
<1>7. BoxInv(k)'
  <2>1. ASSUME NEW q \in RelayPeer, NEW a, a = box'[q], a.who # None
        PROVE  a.who \in Relay(k)!Boxed /\ stage'[a.who] = "posted" /\ Relay(k)!At(a.who)' = q
                 /\ a.from \in {None, a.who}
    <3>1. a = box[q] /\ q # p /\ a.who \in Relay(k)!Request
      BY <1>6, <2>1 DEF Relay!Idle, RelayType, Mail
    <3>2. a.who \in Relay(k)!Boxed /\ stage[a.who] = "posted" /\ Relay(k)!At(a.who) = q /\ a.from \in {None, a.who}
      BY <2>1, <3>1 DEF BoxInv
    <3> QED BY <1>3, <1>4, <3>1, <3>2 DEF p
  <2>2. \A q \in RelayPeer : box'[q].who = None => box'[q] = Relay(k)!Idle
    BY <1>6 DEF BoxInv
  <2>3. ASSUME NEW x \in Relay(k)!Boxed, stage'[x] = "posted" PROVE box'[Relay(k)!At(x)'].who = x
    <3>1. x \in Relay(k)!Request /\ x # r /\ stage[x] = "posted"
      BY <1>3, <2>3 DEF Relay!Boxed, Relay!Request
    <3>2. box[Relay(k)!At(x)].who = x /\ Relay(k)!At(x) \in RelayPeer
      BY <3>1 DEF BoxInv, Relay!At, RelayType, ChoiceInv, Taken
    <3> QED BY <1>2, <1>4, <1>6, <3>1, <3>2
  <2> QED BY <2>1, <2>2, <2>3 DEF BoxInv
<1>8. SlotInv(k)'
  <2>1. \A x \in Kind[k].exec \cup Kind[k].target : x \in Relay(k)!Request /\ x # r
    BY <1>1 DEF RelayConstants, Relay!Request
  <2> QED BY <1>1, <1>3, <1>4, <2>1, SlotKept
<1>9. NumberInv(k)'
  <2>1. ASSUME NEW q \in RelayPeer PROVE Stubs(k, q)' \subseteq Stubs(k, q)
    <3>1. {Stub(k, a) : a \in {box'[q]} \ {Relay(k)!Idle}} \subseteq {Stub(k, a) : a \in {box[q]} \ {Relay(k)!Idle}}
      BY <1>6
    <3> QED BY <1>1, <3>1 DEF Stubs, Stub
  <2>2. \A c \in RelayConn : tun'[c] = None => wire'[c] = {}
    BY <1>1 DEF NumberInv
  <2> QED BY <1>1, <2>1, <2>2, NumberKept
<1> QED BY <1>3, <1>5, <1>7, <1>8, <1>9

\* A request takes an EXEC slot of its peer under the next number.
LEMMA PostExecStep ==
    ASSUME NEW k, RelayConstants(k), RelayInv(k), NEW r \in Relay(k)!Request, Relay(k)!PostExec(r)
    PROVE  RelayInv(k)'
<1> USE DEF RelayInv
<1> DEFINE p == Relay(k)!At(r)
           n == [id |-> rq_next[p] + 1, who |-> r]
           e == [id |-> rq_next[p] + 1, who |-> r, done |-> FALSE, from |-> None]
<1>1. /\ stage[r] = "wait" /\ r \notin Relay(k)!Boxed
      /\ rq_next' = [rq_next EXCEPT ![p] = @ + 1] /\ rex' = [rex EXCEPT ![p] = @ \cup {e}]
      /\ outq' = [outq EXCEPT ![p] = Append(@, n)] /\ stage' = [stage EXCEPT ![r] = "posted"]
      /\ UNCHANGED <<tun, ctrl, connects, wire, box, cand, turn_of, answer, refs, rate>>
  BY DEF Relay!PostExec
<1>2. /\ p \in RelayPeer /\ r # None /\ r \in Kind[k].exec \cup Kind[k].target /\ turn_of[r] \in DOMAIN cand[r]
         /\ rq_next[p] \in Nat
      /\ e.who = r /\ e.from = None /\ Stub(k, e) = n /\ n.id = rq_next[p] + 1 /\ n.who = r
  <2>1. turn_of[r] \in DOMAIN cand[r] /\ r # None
    BY <1>1 DEF ChoiceInv, Taken, RelayConstants
  <2>2. cand[r] \in Seq(RelayPeer)
    BY DEF RelayType
  <2>3. p \in RelayPeer
    BY <2>1, <2>2 DEF Relay!At
  <2>4. rq_next[p] \in Nat
    BY <2>3 DEF RelayType
  <2>5. r \in Kind[k].exec \cup Kind[k].target
    BY <1>1 DEF Relay!Request, Relay!Boxed
  <2> QED BY <2>1, <2>3, <2>4, <2>5 DEF Stub
<1>3. n \in RelayFrame(k) /\ e \in ExecSlot(k)
  BY <1>2 DEF RelayFrame, ExecSlot
<1>4. \A x \in Relay(k)!Request : Relay(k)!At(x)' = Relay(k)!At(x)
  BY <1>1 DEF Relay!At
<1> HIDE DEF p, n, e
<1>5. RelayCountInv(k)' /\ ChoiceInv(k)' /\ Relay(k)!AnswerIsOwn'
        /\ stage' \in [Relay(k)!Request -> {"new", "wait", "posted", "done"}]
  <2>1. Taken(k, r) /\ turn_of' \in [Relay(k)!Request -> Nat] /\ turn_of'[r] \in DOMAIN cand[r]
    BY <1>1, <1>2 DEF Taken, RelayType
  <2> QED BY <1>1, <2>1, Holding
<1>6. \A q \in RelayPeer : rex'[q] = (IF q = p THEN rex[q] \cup {e} ELSE rex[q])
                           /\ outq'[q] = (IF q = p THEN Append(outq[q], n) ELSE outq[q])
  BY <1>1 DEF RelayType
<1>7. RelayType(k)'
  <2>1. rex' \in [RelayPeer -> SUBSET ExecSlot(k)]
    BY <1>1, <1>2, <1>3 DEF RelayType
  <2>2. outq' \in [RelayPeer -> Seq(RelayFrame(k))]
    BY <1>1, <1>2, <1>3 DEF RelayType
  <2>3. rq_next' \in [RelayPeer -> Nat]
    <3>1. rq_next \in [RelayPeer -> Nat]
      BY DEF RelayType
    <3>2. rq_next' = [rq_next EXCEPT ![p] = @ + 1]
      BY <1>1
    <3> QED BY <1>2, <3>1, <3>2
  <2> QED BY <1>1, <1>5, <2>1, <2>2, <2>3 DEF RelayType
<1>8. \A x \in Relay(k)!Request : stage'[x] = IF x = r THEN "posted" ELSE stage[x]
  BY <1>1 DEF RelayType
<1>9. BoxInv(k)'
  <2>1. \A x \in Relay(k)!Boxed : x \in Relay(k)!Request /\ x # r
    BY <1>1 DEF Relay!Boxed, Relay!Request
  <2> QED BY <1>1, <1>4, <1>8, <2>1, BoxKept
<1>10. SlotInv(k)'
  <2>1. \A q \in RelayPeer : \A f \in rex[q] : f.who \in Relay(k)!Request /\ f.who # r
    BY <1>1 DEF SlotInv, RelayType, Relay!Request, ExecSlot
  <2>2. ASSUME NEW q \in RelayPeer, NEW f \in rex'[q]
        PROVE  stage'[f.who] = "posted" /\ Relay(k)!At(f.who)' = q /\ f.from \in {None, f.who}
    <3>1. CASE f \in rex[q]
      <4>1. stage[f.who] = "posted" /\ Relay(k)!At(f.who) = q /\ f.from \in {None, f.who}
        BY <3>1 DEF SlotInv
      <4> QED BY <1>4, <1>8, <2>1, <3>1, <4>1
    <3>2. CASE f = e /\ q = p
      BY <1>2, <1>4, <1>8, <3>2 DEF p
    <3> QED BY <1>6, <3>1, <3>2
  <2>3. \A q \in RelayPeer : \A f, g \in rex'[q] : f.who = g.who => f = g
    <3>1. ASSUME NEW q \in RelayPeer, NEW f \in rex'[q], NEW g \in rex'[q], f.who = g.who PROVE f = g
      <4>1. (f \in rex[q] \/ f = e) /\ (g \in rex[q] \/ g = e)
        BY <1>6
      <4>2. CASE f \in rex[q] /\ g \in rex[q]
        BY <3>1, <4>2 DEF SlotInv
      <4> QED BY <1>2, <2>1, <3>1, <4>1, <4>2
    <3> QED BY <3>1
  <2>4. ASSUME NEW x \in Kind[k].exec \cup Kind[k].target, stage'[x] = "posted"
        PROVE  \E f \in rex'[Relay(k)!At(x)'] : f.who = x
    <3>1. x \in Relay(k)!Request
      BY DEF Relay!Request
    <3>2. CASE x = r
      BY <1>2, <1>4, <1>6, <3>1, <3>2 DEF p
    <3>3. CASE x # r
      <4>1. stage[x] = "posted"
        BY <1>8, <2>4, <3>1, <3>3
      <4>2. PICK f \in rex[Relay(k)!At(x)] : f.who = x
        BY <4>1 DEF SlotInv
      <4>3. Relay(k)!At(x) \in RelayPeer
        BY <3>1, <4>1 DEF Relay!At, RelayType, ChoiceInv, Taken
      <4> QED BY <1>4, <1>6, <3>1, <4>2, <4>3
    <3> QED BY <3>2, <3>3
  <2> QED BY <2>2, <2>3, <2>4 DEF SlotInv
<1>11. NumberInv(k)'
  <2>1. ASSUME NEW q \in RelayPeer PROVE Stubs(k, q)' \subseteq Stubs(k, q) \cup (IF q = p THEN {n} ELSE {})
    <3>1. {Stub(k, a) : a \in rex'[q]} \subseteq {Stub(k, a) : a \in rex[q]} \cup (IF q = p THEN {n} ELSE {})
      BY <1>2, <1>6
    <3>2. {outq'[q][i] : i \in DOMAIN outq'[q]} \subseteq {outq[q][i] : i \in DOMAIN outq[q]}
            \cup (IF q = p THEN {n} ELSE {})
      <4>1. CASE q = p
        <5>1. outq[q] \in Seq(RelayFrame(k)) /\ outq'[q] = Append(outq[q], n)
          BY <1>6, <4>1 DEF RelayType
        <5>2. \A i \in DOMAIN outq'[q] : outq'[q][i] = n \/ (i \in DOMAIN outq[q] /\ outq'[q][i] = outq[q][i])
          BY <5>1, <1>3
        <5> QED BY <4>1, <5>2
      <4> QED BY <1>6, <4>1
    <3> QED BY <1>1, <3>1, <3>2 DEF Stubs, Stub
  <2> QED BY <1>1, <1>2, <2>1, Numbered DEF n
<1> QED BY <1>5, <1>7, <1>9, <1>10, <1>11

\* Its slot is given back, with the answer or without.
LEMMA FinishExecStep ==
    ASSUME NEW k, RelayConstants(k), RelayInv(k), NEW r \in Relay(k)!Request, Relay(k)!FinishExec(r)
    PROVE  RelayInv(k)'
<1> USE DEF RelayInv
<1> DEFINE p == Relay(k)!At(r)
           e == CHOOSE x \in rex[p] : x.who = r
<1>1. /\ stage[r] = "posted" /\ r \notin Relay(k)!Boxed /\ rex' = [rex EXCEPT ![p] = @ \ {e}]
      /\ IF e.from # None THEN Relay(k)!End(r, e.from) ELSE Relay(k)!AfterFailure(r)
      /\ UNCHANGED <<tun, ctrl, connects, wire, box, outq, rq_next>>
  BY DEF Relay!FinishExec
<1>2. p \in RelayPeer /\ r # None /\ r \in Kind[k].exec \cup Kind[k].target /\ Taken(k, r)
  <2>1. turn_of[r] \in DOMAIN cand[r] /\ r # None /\ Taken(k, r)
    BY <1>1 DEF ChoiceInv, Taken, RelayConstants
  <2>2. cand[r] \in Seq(RelayPeer)
    BY DEF RelayType
  <2>3. p \in RelayPeer
    BY <2>1, <2>2 DEF Relay!At
  <2>5. r \in Kind[k].exec \cup Kind[k].target
    BY <1>1 DEF Relay!Request, Relay!Boxed
  <2> QED BY <2>1, <2>3, <2>5
<1>3. e \in rex[p] /\ e.who = r /\ e.from \in {None, r}
  <2>1. \E x \in rex[p] : x.who = r
    BY <1>1, <1>2 DEF SlotInv
  <2>2. e \in rex[p] /\ e.who = r
    BY <2>1
  <2> QED BY <1>2, <2>2 DEF SlotInv
<1> HIDE DEF p, e
<1>4. /\ RelayCountInv(k)' /\ ChoiceInv(k)' /\ Relay(k)!AnswerIsOwn'
      /\ stage' \in [Relay(k)!Request -> {"new", "wait", "posted", "done"}] /\ cand' = cand
         /\ turn_of' \in [Relay(k)!Request -> Nat]
      /\ answer' \in [Relay(k)!Request -> Relay(k)!Request \cup {None, "refused", "failed"}]
         /\ refs' \in [RelayPeer -> Int] /\ rate' \in Int
      /\ \A x \in Relay(k)!Request \ {r} : stage'[x] = stage[x] /\ turn_of'[x] = turn_of[x]
      /\ stage'[r] \in {"wait", "done"}
  <2>1. CASE e.from # None
    <3> DEFINE out == e.from
    <3>1. out \in {"refused", "failed", r} /\ stage[r] # "done" /\ Relay(k)!End(r, out)
      BY <1>1, <1>3, <2>1
    <3> HIDE DEF out
    <3>2. /\ RelayCountInv(k)' /\ ChoiceInv(k)' /\ Relay(k)!AnswerIsOwn'
          /\ stage' \in [Relay(k)!Request -> {"new", "wait", "posted", "done"}] /\ cand' = cand /\ turn_of' = turn_of
          /\ answer' \in [Relay(k)!Request -> Relay(k)!Request \cup {None, "refused", "failed"}]
             /\ refs' \in [RelayPeer -> Int] /\ rate' \in Int
          /\ \A x \in Relay(k)!Request \ {r} : stage'[x] = stage[x]
          /\ stage'[r] = "done"
      BY <3>1, EndStep
    <3> QED BY <3>2 DEF RelayType
  <2>2. CASE e.from = None
    BY <1>1, <1>2, <2>2, FailureStep
  <2> QED BY <2>1, <2>2
<1>5. \A x \in Relay(k)!Request \ {r} : Relay(k)!At(x)' = Relay(k)!At(x)
  BY <1>4 DEF Relay!At
<1>6. \A q \in RelayPeer : rex'[q] = IF q = p THEN rex[q] \ {e} ELSE rex[q]
  BY <1>1 DEF RelayType
<1>7. RelayType(k)'
  <2>1. rex' \in [RelayPeer -> SUBSET ExecSlot(k)]
    BY <1>1, <1>2 DEF RelayType
  <2> QED BY <1>1, <1>4, <2>1 DEF RelayType
<1>8. BoxInv(k)'
  <2>1. \A x \in Relay(k)!Boxed : x \in Relay(k)!Request /\ x # r
    BY <1>1 DEF Relay!Boxed, Relay!Request
  <2> QED BY <1>1, <1>4, <1>5, <2>1, BoxKept
<1>9. SlotInv(k)'
  <2>1. ASSUME NEW q \in RelayPeer, NEW f \in rex'[q]
        PROVE  stage'[f.who] = "posted" /\ Relay(k)!At(f.who)' = q /\ f.from \in {None, f.who}
    <3>1. f \in rex[q] /\ (q = p => f # e) /\ f.who \in Relay(k)!Request
      <4>1. f \in rex[q] /\ (q = p => f # e)
        BY <1>6
      <4>2. f.who \in Kind[k].exec \cup Kind[k].target
        BY <4>1 DEF RelayType, ExecSlot
      <4> QED BY <4>1, <4>2 DEF Relay!Request
    <3>2. stage[f.who] = "posted" /\ Relay(k)!At(f.who) = q /\ f.from \in {None, f.who}
      BY <3>1 DEF SlotInv
    <3>3. f.who # r
      <4>1. f.who = r => q = p
        BY <3>2 DEF p
      <4> QED BY <1>3, <3>1, <4>1 DEF SlotInv
    <3> QED BY <1>4, <1>5, <3>1, <3>2, <3>3
  <2>2. \A q \in RelayPeer : \A f, g \in rex'[q] : f.who = g.who => f = g
    BY <1>6, ZenonT(40) DEF SlotInv
  <2>3. ASSUME NEW x \in Kind[k].exec \cup Kind[k].target, stage'[x] = "posted"
        PROVE  \E f \in rex'[Relay(k)!At(x)'] : f.who = x
    <3>1. x \in Relay(k)!Request /\ x # r /\ stage[x] = "posted"
      BY <1>4, <2>3 DEF Relay!Request
    <3>2. PICK f \in rex[Relay(k)!At(x)] : f.who = x
      BY <3>1 DEF SlotInv
    <3>3. Relay(k)!At(x) \in RelayPeer
      BY <3>1 DEF Relay!At, RelayType, ChoiceInv, Taken
    <3>4. f # e
      BY <1>3, <3>1, <3>2
    <3>5. f \in rex'[Relay(k)!At(x)]
      BY <1>6, <3>2, <3>3, <3>4
    <3> QED BY <1>5, <3>1, <3>2, <3>5
  <2> QED BY <2>1, <2>2, <2>3 DEF SlotInv
<1>10. NumberInv(k)'
  <2>1. ASSUME NEW q \in RelayPeer PROVE Stubs(k, q)' \subseteq Stubs(k, q)
    <3>1. {Stub(k, a) : a \in rex'[q]} \subseteq {Stub(k, a) : a \in rex[q]}
      BY <1>6
    <3> QED BY <1>1, <3>1 DEF Stubs, Stub
  <2>2. \A c \in RelayConn : tun'[c] = None => wire'[c] = {}
    BY <1>1 DEF NumberInv
  <2> QED BY <1>1, <2>1, <2>2, NumberKept
<1> QED BY <1>4, <1>7, <1>8, <1>9, <1>10

\* A mailbox that is marked stays its requester's.
LEMMA BoxMarked ==
    ASSUME NEW k, RelayType(k), ChoiceInv(k), BoxInv(k), UNCHANGED <<stage, cand, turn_of>>,
           \A q \in RelayPeer : /\ box'[q].who = box[q].who /\ (box[q].who = None => box'[q] = box[q])
                                /\ box'[q].from \in {None, box[q].who, box[q].from}
    PROVE  BoxInv(k)'
<1>1. ASSUME NEW q \in RelayPeer, NEW a, a = box'[q], a.who # None
      PROVE  a.who \in Relay(k)!Boxed /\ stage'[a.who] = "posted" /\ Relay(k)!At(a.who)' = q
               /\ a.from \in {None, a.who}
  <2> DEFINE d == box[q]
  <2>1. d.who = a.who /\ a.from \in {None, d.who, d.from}
    BY <1>1
  <2>2. d.who \in Relay(k)!Boxed /\ stage[d.who] = "posted" /\ Relay(k)!At(d.who) = q /\ d.from \in {None, d.who}
    BY <1>1, <2>1 DEF BoxInv
  <2> QED BY <2>1, <2>2 DEF Relay!At
<1>2. \A q \in RelayPeer : box'[q].who = None => box'[q] = Relay(k)!Idle
  BY DEF BoxInv
<1>3. ASSUME NEW x \in Relay(k)!Boxed, stage'[x] = "posted" PROVE box'[Relay(k)!At(x)'].who = x
  <2>1. box[Relay(k)!At(x)].who = x /\ x \in Relay(k)!Request /\ Relay(k)!At(x)' = Relay(k)!At(x)
          /\ stage[x] = "posted"
    BY <1>3 DEF BoxInv, Relay!Boxed, Relay!Request, Relay!At
  <2>2. Relay(k)!At(x) \in RelayPeer
    BY <2>1 DEF Relay!At, RelayType, ChoiceInv, Taken
  <2> QED BY <2>1, <2>2
<1> QED BY <1>1, <1>2, <1>3 DEF BoxInv

\* A connection forwards the mailbox of its peer, or the next EXEC frame.
LEMMA ForwardStep ==
    ASSUME NEW k, RelayConstants(k), RelayInv(k), NEW c \in RelayConn, Relay(k)!Forward(c)
    PROVE  RelayInv(k)'
<1> USE DEF RelayInv
<1> DEFINE p == tun[c]
           f == [id |-> box[p].id, who |-> box[p].who]
<1>1. /\ p # None /\ box[p].who # None /\ box' = [box EXCEPT ![p].sent = TRUE]
      /\ wire' = [wire EXCEPT ![c] = @ \cup {f}]
      /\ UNCHANGED <<tun, ctrl, connects, rex, outq, rq_next, stage, cand, turn_of, answer, refs, rate>>
  BY DEF Relay!Forward
<1>2. p \in RelayPeer /\ box[p] # Relay(k)!Idle /\ f = Stub(k, box[p]) /\ f \in Stubs(k, p)
  <2>1. p \in RelayPeer
    BY <1>1 DEF RelayType
  <2>2. box[p] # Relay(k)!Idle
    BY <1>1 DEF Relay!Idle
  <2>3. f = Stub(k, box[p])
    BY DEF Stub
  <2> QED BY <2>1, <2>2, <2>3 DEF Stubs
<1>3. f \in RelayFrame(k)
  BY <1>2, StubsAre
<1> HIDE DEF p, f
<1>4. \A q \in RelayPeer : /\ box'[q].who = box[q].who /\ box'[q].id = box[q].id /\ box'[q].done = box[q].done
                           /\ box'[q].from = box[q].from /\ (q # p => box'[q] = box[q])
  BY <1>1 DEF RelayType
<1>5. RelayType(k)'
  <2>1. box' \in [RelayPeer -> Mail(k)]
    <3>1. box \in [RelayPeer -> Mail(k)]
      BY DEF RelayType
    <3>2. [box[p] EXCEPT !.sent = TRUE] \in Mail(k)
      BY <1>2, <3>1 DEF Mail
    <3> QED BY <1>1, <1>2, <3>1, <3>2
  <2>2. wire' \in [RelayConn -> SUBSET RelayFrame(k)]
    BY <1>1, <1>3 DEF RelayType
  <2> QED BY <1>1, <2>1, <2>2 DEF RelayType
<1>6. ChoiceInv(k)' /\ RelayCountInv(k)' /\ Relay(k)!AnswerIsOwn'
  <2>1. UNCHANGED <<stage, cand, turn_of, answer, refs, rate>>
    BY <1>1
  <2>2. ChoiceInv(k)'
    BY <2>1 DEF ChoiceInv, Taken
  <2>3. RelayCountInv(k)'
    BY <2>1 DEF RelayCountInv, Taken, Relay!Tries
  <2> QED BY <2>1, <2>2, <2>3 DEF Relay!AnswerIsOwn
<1>7. SlotInv(k)'
  BY <1>1, SlotKept DEF Relay!At
<1>8. BoxInv(k)'
  BY <1>1, <1>2, <1>4, BoxMarked DEF Relay!Idle
<1>9. NumberInv(k)'
  <2>0. \A d \in RelayConn : wire'[d] = IF d = c THEN wire[d] \cup {f} ELSE wire[d]
    BY <1>1 DEF RelayType
  <2>1. ASSUME NEW q \in RelayPeer PROVE Stubs(k, q)' \subseteq Stubs(k, q)
    <3> DEFINE W == UNION {wire[d] : d \in {e \in RelayConn : tun[e] = q}}
               V == UNION {wire'[d] : d \in {e \in RelayConn : tun[e] = q}}
    <3>1. V \subseteq W \cup (IF q = p THEN {f} ELSE {})
      BY <2>0 DEF p
    <3>2. ASSUME NEW a \in {box'[q]} \ {Relay(k)!Idle}
          PROVE  Stub(k, a) \in {Stub(k, b) : b \in {box[q]} \ {Relay(k)!Idle}}
      <4>1. box[q] # Relay(k)!Idle
        BY <1>2, <1>4
      <4>2. Stub(k, a) = Stub(k, box[q])
        BY <1>4 DEF Stub
      <4> QED BY <4>1, <4>2
    <3>3. Stubs(k, q)' = {outq[q][i] : i \in DOMAIN outq[q]} \cup V \cup {Stub(k, e) : e \in rex[q]}
                         \cup {Stub(k, b) : b \in {box'[q]} \ {Relay(k)!Idle}}
      BY <1>1 DEF Stubs, Stub
    <3>4. Stubs(k, q) = {outq[q][i] : i \in DOMAIN outq[q]} \cup W \cup {Stub(k, e) : e \in rex[q]}
                        \cup {Stub(k, b) : b \in {box[q]} \ {Relay(k)!Idle}}
      BY DEF Stubs
    <3> HIDE DEF V, W
    <3> QED BY <1>2, <3>1, <3>2, <3>3, <3>4
  <2>2. \A d \in RelayConn : tun'[d] = None => wire'[d] = {}
    BY <1>1, <2>0 DEF NumberInv, p
  <2> QED BY <1>1, <2>1, <2>2, NumberKept
<1> QED BY <1>5, <1>6, <1>7, <1>8, <1>9
LEMMA RelayDrainStep ==
    ASSUME NEW k, RelayConstants(k), RelayInv(k), NEW c \in RelayConn, Relay(k)!Drain(c)
    PROVE  RelayInv(k)'
<1> USE DEF RelayInv
<1> DEFINE p == tun[c]
           f == Head(outq[p])
<1>1. /\ p # None /\ outq[p] # <<>> /\ wire' = [wire EXCEPT ![c] = @ \cup {f}] /\ outq' = [outq EXCEPT ![p] = Tail(@)]
      /\ UNCHANGED <<tun, ctrl, connects, box, rex, rq_next, stage, cand, turn_of, answer, refs, rate>>
  BY DEF Relay!Drain
<1>2. p \in RelayPeer /\ outq[p] \in Seq(RelayFrame(k)) /\ Len(outq[p]) > 0 /\ f = outq[p][1] /\ 1 \in DOMAIN outq[p]
  <2>1. p \in RelayPeer
    BY <1>1 DEF RelayType
  <2>2. outq[p] \in Seq(RelayFrame(k))
    BY <2>1 DEF RelayType
  <2> QED BY <1>1, <2>1, <2>2
<1>3. f \in RelayFrame(k) /\ Tail(outq[p]) \in Seq(RelayFrame(k))
      /\ \A i \in DOMAIN Tail(outq[p]) : i + 1 \in DOMAIN outq[p] /\ Tail(outq[p])[i] = outq[p][i + 1]
  BY <1>2
<1> HIDE DEF p, f
<1>4. \A q \in RelayPeer : outq'[q] = IF q = p THEN Tail(outq[q]) ELSE outq[q]
  BY <1>1 DEF RelayType
<1>5. RelayType(k)'
  <2>1. outq' \in [RelayPeer -> Seq(RelayFrame(k))]
    BY <1>1, <1>2, <1>3 DEF RelayType
  <2>2. wire' \in [RelayConn -> SUBSET RelayFrame(k)]
    BY <1>1, <1>3 DEF RelayType
  <2> QED BY <1>1, <2>1, <2>2 DEF RelayType
<1>6. ChoiceInv(k)' /\ RelayCountInv(k)' /\ Relay(k)!AnswerIsOwn'
  <2>1. UNCHANGED <<stage, cand, turn_of, answer, refs, rate>>
    BY <1>1
  <2>2. ChoiceInv(k)'
    BY <2>1 DEF ChoiceInv, Taken
  <2>3. RelayCountInv(k)'
    BY <2>1 DEF RelayCountInv, Taken, Relay!Tries
  <2> QED BY <2>1, <2>2, <2>3 DEF Relay!AnswerIsOwn
<1>7. SlotInv(k)' /\ BoxInv(k)'
  BY <1>1, SlotKept, BoxKept DEF Relay!At
<1>8. NumberInv(k)'
  <2>0. \A d \in RelayConn : wire'[d] = IF d = c THEN wire[d] \cup {f} ELSE wire[d]
    BY <1>1 DEF RelayType
  <2>1. ASSUME NEW q \in RelayPeer PROVE Stubs(k, q)' \subseteq Stubs(k, q)
    <3> DEFINE W == UNION {wire[d] : d \in {e \in RelayConn : tun[e] = q}}
               V == UNION {wire'[d] : d \in {e \in RelayConn : tun[e] = q}}
               X == {outq[q][i] : i \in DOMAIN outq[q]}
               Y == {outq'[q][i] : i \in DOMAIN outq'[q]}
    <3>1. V \subseteq W \cup (IF q = p THEN {f} ELSE {})
      BY <2>0 DEF p
    <3>2. q = p => f \in X
      BY <1>2
    <3>3. Y \subseteq X
      <4>1. CASE q = p
        <5>1. ASSUME NEW i \in DOMAIN outq'[q] PROVE outq'[q][i] \in X
          <6>1. i \in DOMAIN Tail(outq[p]) /\ outq'[q][i] = Tail(outq[p])[i]
            BY <1>4, <4>1, <5>1
          <6>2. i + 1 \in DOMAIN outq[q] /\ outq'[q][i] = outq[q][i + 1]
            BY <1>3, <4>1, <6>1
          <6> QED BY <6>2
        <5> QED BY <5>1
      <4>2. CASE q # p
        BY <1>4, <4>2
      <4> QED BY <4>1, <4>2
    <3>4. Stubs(k, q)' = Y \cup V \cup {Stub(k, e) : e \in rex[q]}
            \cup {Stub(k, b) : b \in {box[q]} \ {Relay(k)!Idle}}
      BY <1>1 DEF Stubs, Stub
    <3>5. Stubs(k, q) = X \cup W \cup {Stub(k, e) : e \in rex[q]} \cup {Stub(k, b) : b \in {box[q]} \ {Relay(k)!Idle}}
      BY DEF Stubs
    <3> HIDE DEF V, W, X, Y
    <3> QED BY <3>1, <3>2, <3>3, <3>4, <3>5
  <2>2. \A d \in RelayConn : tun'[d] = None => wire'[d] = {}
    BY <1>1, <2>0 DEF NumberInv, p
  <2> QED BY <1>1, <2>1, <2>2, NumberKept
<1> QED BY <1>5, <1>6, <1>7, <1>8

\* The slots of a peer that are marked stay their requesters'.
LEMMA SlotsMarked ==
    ASSUME NEW k, RelayType(k), ChoiceInv(k), SlotInv(k), UNCHANGED <<stage, cand, turn_of>>, NEW p \in RelayPeer,
           NEW m,
           rex' = [rex EXCEPT ![p] = {m[e] : e \in rex[p]}],
           \A e \in rex[p] : m[e].who = e.who /\ m[e].from \in {None, e.who, e.from}
    PROVE  SlotInv(k)'
<1>0. rex'[p] = {m[e] : e \in rex[p]}
  BY DEF RelayType
<1>1. \A q \in RelayPeer \ {p} : rex'[q] = rex[q]
  BY DEF RelayType
<1>2. ASSUME NEW q \in RelayPeer, NEW f \in rex'[q]
      PROVE  \E e \in rex[q] : f.who = e.who /\ f.from \in {None, e.who, e.from} /\ f = IF q = p THEN m[e] ELSE e
  <2>1. CASE q = p
    <3>1. PICK e \in rex[p] : f = m[e]
      BY <1>0, <1>2, <2>1
    <3> QED BY <2>1, <3>1
  <2>2. CASE q # p
    BY <1>1, <1>2, <2>2
  <2> QED BY <2>1, <2>2
<1>3. \A q \in RelayPeer : \A e \in rex[q] : e.who \in Relay(k)!Request /\ stage[e.who] = "posted"
        /\ Relay(k)!At(e.who) = q /\ e.from \in {None, e.who}
  BY DEF SlotInv, RelayType, Relay!Request, ExecSlot
<1>4. ASSUME NEW q \in RelayPeer, NEW f \in rex'[q]
      PROVE  stage'[f.who] = "posted" /\ Relay(k)!At(f.who)' = q /\ f.from \in {None, f.who}
  <2>1. PICK e \in rex[q] : f.who = e.who /\ f.from \in {None, e.who, e.from}
    BY <1>2
  <2> QED BY <1>3, <2>1 DEF Relay!At
<1>5. ASSUME NEW q \in RelayPeer, NEW f \in rex'[q], NEW g \in rex'[q], f.who = g.who PROVE f = g
  <2>1. PICK e \in rex[q] : f.who = e.who /\ f = IF q = p THEN m[e] ELSE e
    BY <1>2
  <2>2. PICK h \in rex[q] : g.who = h.who /\ g = IF q = p THEN m[h] ELSE h
    BY <1>2
  <2>3. e.who = h.who
    BY <1>5, <2>1, <2>2
  <2>4. e = h
    BY <2>3 DEF SlotInv
  <2> QED BY <2>1, <2>2, <2>4
<1>6. ASSUME NEW x \in Kind[k].exec \cup Kind[k].target, stage'[x] = "posted"
      PROVE  \E f \in rex'[Relay(k)!At(x)'] : f.who = x
  <2>1. PICK e \in rex[Relay(k)!At(x)] : e.who = x
    BY <1>6 DEF SlotInv
  <2>2. Relay(k)!At(x) \in RelayPeer /\ Relay(k)!At(x)' = Relay(k)!At(x)
    BY <1>6 DEF Relay!At, RelayType, ChoiceInv, Taken, Relay!Request
  <2>3. CASE Relay(k)!At(x) = p
    <3>0. e \in rex[p]
      BY <2>1, <2>3
    <3>1. m[e] \in rex'[p] /\ m[e].who = x
      BY <1>0, <2>1, <3>0
    <3> QED BY <2>2, <2>3, <3>1
  <2>4. CASE Relay(k)!At(x) # p
    BY <1>1, <2>1, <2>2, <2>4
  <2> QED BY <2>3, <2>4
<1> QED BY <1>4, <1>5, <1>6 DEF SlotInv

\* What a peer holds is what it held.
LEMMA Renumbered ==
    ASSUME NEW k, NEW q \in RelayPeer, \A i \in DOMAIN outq'[q] : outq'[q][i] \in Stubs(k, q),
           \A d \in RelayConn : tun'[d] = q => wire'[d] \subseteq Stubs(k, q),
           \A e \in rex'[q] : Stub(k, e) \in Stubs(k, q), box'[q] # Relay(k)!Idle => Stub(k, box'[q]) \in Stubs(k, q)
    PROVE  Stubs(k, q)' \subseteq Stubs(k, q)
<1>1. Stubs(k, q)' = {outq'[q][i] : i \in DOMAIN outq'[q]}
        \cup (UNION {wire'[d] : d \in {e \in RelayConn : tun'[e] = q}})
                     \cup {Stub(k, e) : e \in rex'[q]} \cup {Stub(k, b) : b \in {box'[q]} \ {Relay(k)!Idle}}
  BY DEF Stubs, Stub
<1> QED BY <1>1
LEMMA Holds ==
    ASSUME NEW k, NEW q \in RelayPeer
    PROVE  /\ \A i \in DOMAIN outq[q] : outq[q][i] \in Stubs(k, q)
           /\ \A d \in RelayConn : tun[d] = q => wire[d] \subseteq Stubs(k, q)
           /\ \A e \in rex[q] : Stub(k, e) \in Stubs(k, q)
           /\ box[q] # Relay(k)!Idle => Stub(k, box[q]) \in Stubs(k, q)
  BY DEF Stubs

\* What a reply and a lost connection leave of a slot and of a mailbox.
Replied(e, w) == [e EXCEPT !.done = TRUE, !.from = w]
Lapsed(e) == [e EXCEPT !.done = TRUE]
Froms(k) == Relay(k)!Request \cup {None}
LEMMA SlotLapsed ==
    ASSUME NEW k, NEW e \in ExecSlot(k)
    PROVE  Lapsed(e) \in ExecSlot(k) /\ Lapsed(e).who = e.who /\ Lapsed(e).id = e.id /\ Lapsed(e).from = e.from
  BY DEF ExecSlot, Lapsed
LEMMA SlotReplied ==
    ASSUME NEW k, NEW e \in ExecSlot(k), NEW w \in Froms(k)
    PROVE  Replied(e, w) \in ExecSlot(k) /\ Replied(e, w).who = e.who /\ Replied(e, w).id = e.id
             /\ Replied(e, w).from = w
<1> DEFINE j == Lapsed(e)
           m == [j EXCEPT !.from = w]
<1>1. j \in ExecSlot(k) /\ j.who = e.who /\ j.id = e.id
  BY SlotLapsed
<1>2. Replied(e, w) = m
  BY DEF Replied, Lapsed
<1>3. m \in ExecSlot(k) /\ m.who = e.who /\ m.id = e.id /\ m.from = w
  <2> HIDE DEF j
  <2> QED BY <1>1 DEF ExecSlot, Froms
<1> HIDE DEF j, m
<1> QED BY <1>2, <1>3
LEMMA MailLapsed ==
    ASSUME NEW k, NEW e \in Mail(k)
    PROVE  Lapsed(e) \in Mail(k) /\ Lapsed(e).who = e.who /\ Lapsed(e).id = e.id /\ Lapsed(e).from = e.from
  BY DEF Mail, Lapsed
LEMMA MailReplied ==
    ASSUME NEW k, NEW e \in Mail(k), NEW w \in Froms(k)
    PROVE  Replied(e, w) \in Mail(k) /\ Replied(e, w).who = e.who /\ Replied(e, w).id = e.id /\ Replied(e, w).from = w
<1> DEFINE j == Lapsed(e)
           m == [j EXCEPT !.from = w]
<1>1. j \in Mail(k) /\ j.who = e.who /\ j.id = e.id
  BY MailLapsed
<1>2. Replied(e, w) = m
  BY DEF Replied, Lapsed
<1>3. m \in Mail(k) /\ m.who = e.who /\ m.id = e.id /\ m.from = w
  <2> HIDE DEF j
  <2> QED BY <1>1 DEF Mail, Froms
<1> HIDE DEF j, m
<1> QED BY <1>2, <1>3

\* A reply is handed to whoever still waits under its number.
LEMMA CompleteStep ==
    ASSUME NEW k, RelayConstants(k), RelayInv(k), NEW c \in RelayConn, NEW f \in wire[c], NEW ok \in BOOLEAN,
           Relay(k)!Complete(c, f, ok)
    PROVE  RelayInv(k)'
<1> USE DEF RelayInv
<1> DEFINE p == tun[c]
           w == IF ok THEN f.who ELSE None
           hit == {e \in rex[p] : ~e.done /\ Relay(k)!IsFor(f, e.id)}
           boxed == f.who \in Relay(k)!Boxed /\ box[p].who # None /\ box[p].sent /\ Relay(k)!IsFor(f, box[p].id)
                /\ ~box[p].done
           m == [e \in rex[p] |-> IF f.who \notin Relay(k)!Boxed /\ e \in hit THEN Replied(e, w) ELSE e]
           b == Replied(box[p], w)
<1>1. /\ p # None /\ wire' = [wire EXCEPT ![c] = @ \ {f}]
      /\ rex' = IF f.who \notin Relay(k)!Boxed /\ hit # {}
                THEN [rex EXCEPT ![p] = (@ \ hit) \cup {Replied(e, w) : e \in hit}] ELSE rex
      /\ box' = box \/ (boxed /\ box' = [box EXCEPT ![p].done = TRUE, ![p].from = w])
      /\ UNCHANGED <<tun, ctrl, connects, outq, rq_next, stage, cand, turn_of, answer, refs, rate>>
  BY Zenon DEF Relay!Complete, Replied
<1> HIDE DEF w, hit, boxed, m, b
<1>2. p \in RelayPeer /\ f \in RelayFrame(k) /\ w \in Relay(k)!Request \cup {None}
  <2>1. p \in RelayPeer /\ f \in RelayFrame(k)
    BY <1>1 DEF RelayType
  <2> QED BY <2>1 DEF RelayFrame, w
<1>3. f \in Stubs(k, p)
  BY <1>2, Holds
<1>4. \A e \in hit : e \in rex[p] /\ e.who = f.who /\ e \in ExecSlot(k)
  <2>1. ASSUME NEW e \in hit PROVE e \in rex[p] /\ e.who = f.who /\ e \in ExecSlot(k)
    <3>1. e \in rex[p] /\ e.id = f.id
      BY DEF hit, Relay!IsFor
    <3>2. Stub(k, e) \in Stubs(k, p) /\ Stub(k, e).id = f.id /\ Stub(k, e).who = e.who
      BY <1>2, <3>1, Holds DEF Stub
    <3>3. Stub(k, e).who = f.who
      BY <1>2, <1>3, <3>2 DEF NumberInv
    <3>4. e \in ExecSlot(k)
      BY <1>2, <3>1 DEF RelayType
    <3> QED BY <3>1, <3>2, <3>3, <3>4
  <2> QED BY <2>1
<1>5. \A e \in rex[p] : m[e] \in ExecSlot(k) /\ m[e].who = e.who /\ m[e].id = e.id
        /\ m[e].from \in {None, e.who, e.from}
  <2>1. ASSUME NEW e \in rex[p]
        PROVE  m[e] \in ExecSlot(k) /\ m[e].who = e.who /\ m[e].id = e.id /\ m[e].from \in {None, e.who, e.from}
    <3>1. e \in ExecSlot(k)
      BY <1>2 DEF RelayType
    <3>2. CASE f.who \notin Relay(k)!Boxed /\ e \in hit
      <4>1. m[e] = Replied(e, w)
        BY <3>2 DEF m
      <4>2. w \in {None, e.who}
        BY <1>4, <3>2 DEF w
      <4>3. w \in Froms(k)
        BY <1>2 DEF Froms
      <4>4. Replied(e, w) \in ExecSlot(k) /\ Replied(e, w).who = e.who /\ Replied(e, w).id = e.id
              /\ Replied(e, w).from = w
        BY <3>1, <4>3, SlotReplied
      <4> QED BY <4>1, <4>2, <4>4
    <3>3. CASE ~(f.who \notin Relay(k)!Boxed /\ e \in hit)
      BY <3>1, <3>3 DEF m
    <3> QED BY <3>2, <3>3
  <2> QED BY <2>1
<1>6. rex' = [rex EXCEPT ![p] = {m[e] : e \in rex[p]}]
  <2>0. hit \subseteq rex[p]
    BY <1>4
  <2>1. CASE f.who \notin Relay(k)!Boxed
    <3>1. {m[e] : e \in rex[p]} = (rex[p] \ hit) \cup {Replied(e, w) : e \in hit}
      BY <2>0, <2>1 DEF m
    <3>2. hit = {} => (rex[p] \ hit) \cup {Replied(e, w) : e \in hit} = rex[p]
      OBVIOUS
    <3>3. rex = [rex EXCEPT ![p] = rex[p]]
      BY <1>2 DEF RelayType
    <3> QED BY <1>1, <2>1, <3>1, <3>2, <3>3
  <2>2. CASE f.who \in Relay(k)!Boxed
    <3>1. {m[e] : e \in rex[p]} = rex[p]
      BY <2>2 DEF m
    <3>2. rex = [rex EXCEPT ![p] = rex[p]]
      BY <1>2 DEF RelayType
    <3>3. rex' = rex
      BY <1>1, <2>2
    <3> QED BY <3>1, <3>2, <3>3
  <2> QED BY <2>1, <2>2
<1>7. box[p] \in Mail(k)
  BY <1>2 DEF RelayType
<1>8. \A q \in RelayPeer : /\ box'[q].who = box[q].who /\ box'[q].id = box[q].id /\ box'[q] \in Mail(k)
                           /\ (box[q].who = None => box'[q] = box[q])
                           /\ box'[q].from \in {None, box[q].who, box[q].from}
  <2>1. CASE box' = box
    BY <2>1 DEF RelayType
  <2>2. CASE boxed /\ box' = [box EXCEPT ![p].done = TRUE, ![p].from = w]
    <3>1. w \in {None, box[p].who} /\ box[p].who # None
      <4>1. f.id = box[p].id /\ box[p] # Relay(k)!Idle /\ box[p].who # None
        BY <2>2 DEF boxed, Relay!IsFor, Relay!Idle
      <4>2. Stub(k, box[p]) \in Stubs(k, p) /\ Stub(k, box[p]).id = f.id /\ Stub(k, box[p]).who = box[p].who
        BY <1>2, <4>1, Holds DEF Stub
      <4>3. Stub(k, box[p]).who = f.who
        BY <1>2, <1>3, <4>2 DEF NumberInv
      <4> QED BY <4>1, <4>2, <4>3 DEF w
    <3>2. box' = [box EXCEPT ![p] = b]
      <4> DEFINE bb == [box EXCEPT ![p].done = TRUE]
      <4>1. [box EXCEPT ![p].done = TRUE, ![p].from = w] = [bb EXCEPT ![p].from = w]
        OBVIOUS
      <4>2. bb = [box EXCEPT ![p] = [box[p] EXCEPT !.done = TRUE]]
        OBVIOUS
      <4>3. [bb EXCEPT ![p].from = w] = [bb EXCEPT ![p] = [bb[p] EXCEPT !.from = w]]
        OBVIOUS
      <4>4. bb[p] = [box[p] EXCEPT !.done = TRUE]
        BY <1>2 DEF RelayType
      <4>5. b = [[box[p] EXCEPT !.done = TRUE] EXCEPT !.from = w]
        BY DEF b, Replied
      <4>6. [bb EXCEPT ![p] = b] = [box EXCEPT ![p] = b]
        BY <1>2 DEF RelayType
      <4> HIDE DEF bb
      <4> QED BY <2>2, <4>1, <4>3, <4>4, <4>5, <4>6
    <3>3. b \in Mail(k) /\ b.who = box[p].who /\ b.id = box[p].id /\ b.from = w
      <4>1. w \in Froms(k)
        BY <1>2 DEF Froms
      <4> QED BY <1>7, <4>1, MailReplied DEF b
    <3>4. \A q \in RelayPeer : box'[q] = IF q = p THEN b ELSE box[q]
      BY <3>2 DEF RelayType
    <3> HIDE DEF p
    <3> QED BY <3>1, <3>3, <3>4 DEF RelayType
  <2> QED BY <1>1, <2>1, <2>2
<1> HIDE DEF p
<1>9. SlotInv(k)'
  BY <1>1, <1>2, <1>5, <1>6, SlotsMarked, ZenonT(40)
<1>10. BoxInv(k)'
  BY <1>1, <1>8, BoxMarked
<1>11. \A d \in RelayConn : wire'[d] = IF d = c THEN wire[d] \ {f} ELSE wire[d]
  BY <1>1 DEF RelayType
<1>12. RelayType(k)'
  <2>1. rex' \in [RelayPeer -> SUBSET ExecSlot(k)]
    BY <1>2, <1>5, <1>6 DEF RelayType
  <2>2. wire' \in [RelayConn -> SUBSET RelayFrame(k)]
    BY <1>1 DEF RelayType
  <2>3. box' \in [RelayPeer -> Mail(k)]
    <3>1. DOMAIN box' = RelayPeer /\ box' = [q \in DOMAIN box' |-> box'[q]]
      BY <1>1 DEF RelayType
    <3> QED BY <1>8, <3>1
  <2> QED BY <1>1, <2>1, <2>2, <2>3 DEF RelayType
<1>13. ChoiceInv(k)' /\ RelayCountInv(k)' /\ Relay(k)!AnswerIsOwn'
  <2>1. UNCHANGED <<stage, cand, turn_of, answer, refs, rate>>
    BY <1>1
  <2>2. ChoiceInv(k)'
    BY <2>1 DEF ChoiceInv, Taken
  <2>3. RelayCountInv(k)'
    BY <2>1 DEF RelayCountInv, Taken, Relay!Tries
  <2> QED BY <2>1, <2>2, <2>3 DEF Relay!AnswerIsOwn
<1>14. NumberInv(k)'
  <2>1. ASSUME NEW q \in RelayPeer PROVE Stubs(k, q)' \subseteq Stubs(k, q)
    <3>1. \A e \in rex'[q] : Stub(k, e) \in Stubs(k, q)
      <4>1. CASE q = p
        <5>1. rex'[p] = {m[e] : e \in rex[p]}
          BY <1>2, <1>6 DEF RelayType
        <5>2. ASSUME NEW e \in rex[p] PROVE Stub(k, m[e]) \in Stubs(k, p)
          <6>1. Stub(k, m[e]) = Stub(k, e)
            BY <1>5 DEF Stub
          <6> QED BY <1>2, <6>1, Holds
        <5> QED BY <4>1, <5>1, <5>2
      <4>2. CASE q # p
        <5>1. rex'[q] = rex[q]
          BY <1>6, <4>2 DEF RelayType
        <5> QED BY <5>1, Holds
      <4> QED BY <4>1, <4>2
    <3>2. box'[q] # Relay(k)!Idle => Stub(k, box'[q]) \in Stubs(k, q)
      <4>1. Stub(k, box'[q]) = Stub(k, box[q])
        BY <1>8 DEF Stub
      <4>2. box[q] = Relay(k)!Idle => box'[q] = Relay(k)!Idle
        BY <1>8 DEF Relay!Idle
      <4> QED BY <4>1, <4>2, Holds
    <3>3. \A i \in DOMAIN outq'[q] : outq'[q][i] \in Stubs(k, q)
      BY <1>1, Holds
    <3>4. \A d \in RelayConn : tun'[d] = q => wire'[d] \subseteq Stubs(k, q)
      <4>1. \A d \in RelayConn : wire'[d] \subseteq wire[d] /\ tun'[d] = tun[d]
        <5>1. \A d \in RelayConn : wire'[d] \subseteq wire[d]
          BY <1>11
        <5>2. tun' = tun
          BY <1>1
        <5> QED BY <5>1, <5>2
      <4> QED BY <4>1, Holds
    <3> QED BY <3>1, <3>2, <3>3, <3>4, Renumbered
  <2>2. \A d \in RelayConn : tun'[d] = None => wire'[d] = {}
    BY <1>1, <1>11 DEF NumberInv
  <2> QED BY <1>1, <2>1, <2>2, NumberKept
<1> QED BY <1>9, <1>10, <1>12, <1>13, <1>14

\* A connection ends: what is pending on its peer fails.
LEMMA TeardownStep ==
    ASSUME NEW k, RelayConstants(k), RelayInv(k), NEW c \in RelayConn, Relay(k)!Teardown(c)
    PROVE  RelayInv(k)'
<1> USE DEF RelayInv
<1> DEFINE p == tun[c]
           m == [e \in rex[p] |-> IF e.done THEN e ELSE Lapsed(e)]
           b == Lapsed(box[p])
<1>1. /\ p # None /\ tun' = [tun EXCEPT ![c] = None] /\ ctrl' = [ctrl EXCEPT ![p] = IF @ = c THEN None ELSE @]
      /\ wire' = [wire EXCEPT ![c] = {}] /\ outq' = [outq EXCEPT ![p] = <<>>]
      /\ rex' = [rex EXCEPT ![p] = {IF e.done THEN e ELSE Lapsed(e) : e \in @}]
      /\ box' = IF box[p].who # None /\ ~box[p].done THEN [box EXCEPT ![p] = b] ELSE box
      /\ UNCHANGED <<connects, rq_next, stage, cand, turn_of, answer, refs, rate>>
  <2>1. [box EXCEPT ![p].done = TRUE] = [box EXCEPT ![p] = b]
    BY DEF Lapsed
  <2> HIDE DEF b
  <2> QED BY <2>1 DEF Relay!Teardown, Lapsed
<1> HIDE DEF m, b
<1>2. p \in RelayPeer
  BY <1>1 DEF RelayType
<1>3. box[p] \in Mail(k) /\ rex[p] \subseteq ExecSlot(k)
  BY <1>2 DEF RelayType
<1>4. \A e \in rex[p] : m[e] \in ExecSlot(k) /\ m[e].who = e.who /\ m[e].id = e.id /\ m[e].from = e.from
  <2>1. ASSUME NEW e \in rex[p] PROVE m[e] \in ExecSlot(k) /\ m[e].who = e.who /\ m[e].id = e.id /\ m[e].from = e.from
    <3>1. m[e] = IF e.done THEN e ELSE Lapsed(e)
      BY DEF m
    <3>2. e \in ExecSlot(k)
      BY <1>3
    <3>3. Lapsed(e) \in ExecSlot(k) /\ Lapsed(e).who = e.who /\ Lapsed(e).id = e.id /\ Lapsed(e).from = e.from
      BY <3>2, SlotLapsed
    <3> QED BY <3>1, <3>2, <3>3
  <2> QED BY <2>1
<1>5. rex' = [rex EXCEPT ![p] = {m[e] : e \in rex[p]}]
  <2>1. {m[e] : e \in rex[p]} = {IF e.done THEN e ELSE Lapsed(e) : e \in rex[p]}
    BY DEF m
  <2> QED BY <1>1, <2>1
<1>6. b \in Mail(k) /\ b.who = box[p].who /\ b.id = box[p].id /\ b.from = box[p].from
  BY <1>3, MailLapsed DEF b
<1> HIDE DEF p
<1>7. \A q \in RelayPeer : /\ box'[q].who = box[q].who /\ box'[q].id = box[q].id /\ box'[q].from = box[q].from
                           /\ (box[q].who = None => box'[q] = box[q])
  <2>0. box \in [RelayPeer -> Mail(k)]
    BY DEF RelayType
  <2>1. CASE box[p].who # None /\ ~box[p].done
    <3>1. box' = [box EXCEPT ![p] = b]
      BY <1>1, <2>1
    <3>2. \A q \in RelayPeer : box'[q] = IF q = p THEN b ELSE box[q]
      BY <2>0, <3>1
    <3> QED BY <1>6, <2>1, <3>2
  <2>2. CASE ~(box[p].who # None /\ ~box[p].done)
    BY <1>1, <2>2
  <2> QED BY <2>1, <2>2
<1>8. SlotInv(k)'
  <2>1. UNCHANGED <<stage, cand, turn_of>>
    BY <1>1
  <2> QED BY <1>2, <1>4, <1>5, <2>1, SlotsMarked
<1>9. BoxInv(k)'
  <2>1. UNCHANGED <<stage, cand, turn_of>>
    BY <1>1
  <2> QED BY <1>7, <2>1, BoxMarked
<1>10. \A d \in RelayConn : wire'[d] = (IF d = c THEN {} ELSE wire[d]) /\ tun'[d] = (IF d = c THEN None ELSE tun[d])
  BY <1>1 DEF RelayType
<1>11. \A q \in RelayPeer : outq'[q] = IF q = p THEN <<>> ELSE outq[q]
  BY <1>1 DEF RelayType
<1>12. RelayType(k)'
  <2>1. rex' \in [RelayPeer -> SUBSET ExecSlot(k)]
    BY <1>2, <1>4, <1>5 DEF RelayType
  <2>2. wire' \in [RelayConn -> SUBSET RelayFrame(k)] /\ tun' \in [RelayConn -> RelayPeer \cup {None}]
          /\ ctrl' \in [RelayPeer -> RelayConn \cup {None}]
    BY <1>1 DEF RelayType
  <2>3. box' \in [RelayPeer -> Mail(k)]
    <3>1. box \in [RelayPeer -> Mail(k)]
      BY DEF RelayType
    <3>2. box' = box \/ box' = [box EXCEPT ![p] = b]
      BY <1>1
    <3> QED BY <1>6, <3>1, <3>2
  <2>4. outq' \in [RelayPeer -> Seq(RelayFrame(k))]
    <3>1. outq \in [RelayPeer -> Seq(RelayFrame(k))]
      BY DEF RelayType
    <3>2. outq' = [outq EXCEPT ![p] = <<>>] /\ <<>> \in Seq(RelayFrame(k))
      BY <1>1
    <3> QED BY <3>1, <3>2
  <2> QED BY <1>1, <2>1, <2>2, <2>3, <2>4 DEF RelayType
<1>13. ChoiceInv(k)' /\ RelayCountInv(k)' /\ Relay(k)!AnswerIsOwn'
  <2>1. UNCHANGED <<stage, cand, turn_of, answer, refs, rate>>
    BY <1>1
  <2>2. ChoiceInv(k)'
    BY <2>1 DEF ChoiceInv, Taken
  <2>3. RelayCountInv(k)'
    BY <2>1 DEF RelayCountInv, Taken, Relay!Tries
  <2> QED BY <2>1, <2>2, <2>3 DEF Relay!AnswerIsOwn
<1>14. NumberInv(k)'
  <2>1. ASSUME NEW q \in RelayPeer PROVE Stubs(k, q)' \subseteq Stubs(k, q)
    <3>1. \A e \in rex'[q] : Stub(k, e) \in Stubs(k, q)
      <4>1. CASE q = p
        <5>1. rex'[p] = {m[e] : e \in rex[p]}
          BY <1>2, <1>5 DEF RelayType
        <5>2. ASSUME NEW e \in rex[p] PROVE Stub(k, m[e]) \in Stubs(k, p)
          <6>1. Stub(k, m[e]) = Stub(k, e)
            BY <1>4 DEF Stub
          <6> QED BY <1>2, <6>1, Holds
        <5> QED BY <4>1, <5>1, <5>2
      <4>2. CASE q # p
        <5>1. rex'[q] = rex[q]
          BY <1>5, <4>2 DEF RelayType
        <5> QED BY <5>1, Holds
      <4> QED BY <4>1, <4>2
    <3>2. box'[q] # Relay(k)!Idle => Stub(k, box'[q]) \in Stubs(k, q)
      <4>1. Stub(k, box'[q]) = Stub(k, box[q])
        BY <1>7 DEF Stub
      <4>2. box[q] = Relay(k)!Idle => box'[q] = Relay(k)!Idle
        BY <1>7 DEF Relay!Idle
      <4> QED BY <4>1, <4>2, Holds
    <3>3. \A i \in DOMAIN outq'[q] : outq'[q][i] \in Stubs(k, q)
      <4>1. CASE q = p
        BY <1>11, <4>1
      <4>2. CASE q # p
        BY <1>11, <4>2, Holds
      <4> QED BY <4>1, <4>2
    <3>4. \A d \in RelayConn : tun'[d] = q => wire'[d] \subseteq Stubs(k, q)
      <4>1. q # None
        BY DEF RelayConstants
      <4>2. \A d \in RelayConn : tun'[d] = q => tun[d] = q /\ wire'[d] \subseteq wire[d]
        BY <1>10, <4>1
      <4> QED BY <4>2, Holds
    <3> QED BY <3>1, <3>2, <3>3, <3>4, Renumbered
  <2>2. \A d \in RelayConn : tun'[d] = None => wire'[d] = {}
    BY <1>10 DEF NumberInv
  <2> QED BY <1>1, <2>1, <2>2, NumberKept
<1> QED BY <1>8, <1>9, <1>12, <1>13, <1>14

\* Every step keeps it.
LEMMA RelayStep == ASSUME NEW k, RelayConstants(k), RelayInv(k), [Relay(k)!Next]_(Relay(k)!vars) PROVE RelayInv(k)'
<1>1. CASE UNCHANGED (Relay(k)!vars)
  <2> USE DEF RelayInv
  <2>0. UNCHANGED (Relay(k)!vars)
    BY <1>1
  <2>1. RelayType(k)' /\ NumberInv(k)' /\ Relay(k)!AnswerIsOwn'
    BY <2>0 DEF Relay!vars, RelayType, NumberInv, Stubs, Stub, Relay!AnswerIsOwn
  <2>2. SlotInv(k)' /\ BoxInv(k)'
    BY <2>0, SlotKept, BoxKept DEF Relay!vars, Relay!At
  <2>3. ChoiceInv(k)'
    BY <2>0 DEF Relay!vars, ChoiceInv, Taken
  <2>4. RelayCountInv(k)'
    BY <2>0, ZenonT(40) DEF Relay!vars, RelayCountInv, Taken, Relay!Tries
  <2> QED BY <2>1, <2>2, <2>3, <2>4
<1>2. ASSUME NEW r \in Relay(k)!Request, Relay(k)!Step(r) PROVE RelayInv(k)'
  <2>1. RelayType(k) /\ (r \in Kind[k].seg => r \notin Kind[k].reader \cup Kind[k].target)
          /\ (r \in Kind[k].seg \cup Kind[k].target => RelayWanted[r] \in RelayPeer)
    BY DEF RelayInv, RelayConstants, Relay!Boxed
  <2>2. ASSUME NEW p \in RelayPeer, Relay(k)!SelectHolder(r, p) PROVE RelayInv(k)'
    <3>1. rate' = rate + (IF r \in Kind[k].seg THEN 1 ELSE 0)
      BY <2>1, <2>2 DEF Relay!SelectHolder, RelayType
    <3> QED BY <2>2, <3>1, TakeStep DEF Relay!SelectHolder
  <2>3. CASE Relay(k)!SelectTarget(r)
    <3>1. rate' = rate + (IF r \in Kind[k].seg THEN 1 ELSE 0)
      BY <2>1, <2>3 DEF Relay!SelectTarget, RelayType
    <3> QED BY <2>1, <2>3, <3>1, TakeStep DEF Relay!SelectTarget
  <2>4. CASE Relay(k)!SelectSeg(r)
    <3>1. rate' = rate + (IF r \in Kind[k].seg THEN 1 ELSE 0)
      BY <2>1, <2>4 DEF Relay!SelectSeg, RelayType
    <3> QED BY <2>1, <2>4, <3>1, TakeStep DEF Relay!SelectSeg
  <2> QED BY <1>2, <2>2, <2>3, <2>4, RefuseStep, SelectAllStep, PostBoxStep, QueueTimeoutStep, FinishBoxStep,
             PostExecStep, SaturatedStep, FinishExecStep DEF Relay!Step
<1>3. ASSUME NEW c \in RelayConn, \/ \E p \in RelayPeer : Relay(k)!Connect(c, p)
                                  \/ Relay(k)!Forward(c) \/ Relay(k)!Drain(c) \/ Relay(k)!Teardown(c)
                                  \/ \E f \in wire[c], ok \in BOOLEAN : Relay(k)!Complete(c, f, ok)
      PROVE RelayInv(k)'
  BY <1>3, ConnectStep, ForwardStep, RelayDrainStep, TeardownStep, CompleteStep
<1> QED BY <1>1, <1>2, <1>3 DEF Relay!Next

\* And it is what the relay promises.
LEMMA RelayPromise == ASSUME NEW k, RelayConstants(k), RelayInv(k) PROVE Relay(k)!AnswerIsOwn /\ Relay(k)!NothingLeaks
<1> USE DEF RelayInv
<1> DEFINE segs == {r \in Kind[k].seg : stage[r] \in {"wait", "posted"}}
           users(p) == {r \in Relay(k)!Request : stage[r] \in {"wait", "posted"} /\ p \in Relay(k)!Tries(r)}
           execs(p) == {r \in Kind[k].exec \cup Kind[k].target : stage[r] = "posted" /\ Relay(k)!At(r) = p}
<1>1. rate = Cardinality(segs)
  BY DEF RelayCountInv, Taken
<1>2. ASSUME NEW p \in RelayPeer
      PROVE  /\ refs[p] = Cardinality(users(p))
             /\ box[p].who # None <=> \E r \in Relay(k)!Boxed : stage[r] = "posted" /\ Relay(k)!At(r) = p
             /\ Cardinality(rex[p]) = Cardinality(execs(p))
  <2>1. refs[p] = Cardinality(users(p))
    BY DEF RelayCountInv, Taken
  <2>2. box[p].who # None => \E r \in Relay(k)!Boxed : stage[r] = "posted" /\ Relay(k)!At(r) = p
    BY DEF BoxInv
  <2>3. (\E r \in Relay(k)!Boxed : stage[r] = "posted" /\ Relay(k)!At(r) = p) => box[p].who # None
    BY DEF BoxInv, RelayConstants, Relay!Boxed, Relay!Request
  <2>4. Cardinality(rex[p]) = Cardinality(execs(p))
    <3> DEFINE W == execs(p)
               g == [e \in rex[p] |-> e.who]
    <3>1. \A e \in rex[p] : e.who \in W
      BY DEF SlotInv, RelayType, ExecSlot
    <3>2. g \in [rex[p] -> W]
      BY <3>1
    <3>3. \A d, e \in rex[p] : g[d] = g[e] => d = e
      BY DEF SlotInv
    <3>4. \A r \in W : \E e \in rex[p] : g[e] = r
      BY DEF SlotInv
    <3>5. g \in Bijection(rex[p], W)
      <4> HIDE DEF g, W
      <4> QED BY <3>2, <3>3, <3>4 DEF Bijection, Injection, Surjection, IsInjective
    <3>6. IsFiniteSet(W)
      <4>1. W \in SUBSET Relay(k)!Request
        BY DEF Relay!Request
      <4> QED BY <4>1, FS_Subset DEF RelayConstants
    <3>7. ExistsBijection(W, rex[p])
      <4> HIDE DEF g, W
      <4> QED BY <3>5, Fun_ExistsBijSymmetric DEF ExistsBijection
    <3> HIDE DEF W
    <3> QED BY <3>6, <3>7, FS_Bijection DEF W
  <2> QED BY <2>1, <2>2, <2>3, <2>4
<1>3. rate = Relay(k)!Cardinality(segs)
  BY <1>1, RelayCounts, Zenon
<1>4. ASSUME NEW p \in RelayPeer
      PROVE  /\ refs[p] = Relay(k)!Cardinality(users(p))
             /\ box[p].who # None <=> \E r \in Relay(k)!Boxed : stage[r] = "posted" /\ Relay(k)!At(r) = p
             /\ Relay(k)!Cardinality(rex[p]) = Relay(k)!Cardinality(execs(p))
  BY <1>2, RelayCounts, Zenon
<1> QED BY <1>3, <1>4, Zenon DEF Relay!NothingLeaks
------------------------------------------------------------------------------
(* The node that runs experts (ExpertNode).                                   *)
KernelConstants ==
    /\ IsFiniteSet(Call) /\ Relayed \subseteq Call /\ None \notin Call /\ None \notin Expert /\ None \notin CacheSlot
    /\ SourceOf \in [Call -> Source] /\ ExpertOf \in [Call -> Expert]
    /\ NodeCompute \in Nat /\ NodeWaiters \in Nat /\ NodeTickets \in Nat
Stage == {"new", "read", "refused", "cache", "load", "gate", "wait", "run", "leave", "reply", "done"}
KernelType ==
    /\ pc \in [Call -> Stage] /\ asleep \subseteq Call /\ pinned \in [Call -> CacheSlot \cup {None}]
    /\ cache \in [CacheSlot -> [gid : Expert \cup {None}, loading : BOOLEAN, refs : Nat, stamp : Nat]]
    /\ tick \in Nat /\ gate_free \in Nat /\ queue \subseteq [who : Call, seq : Nat] /\ seq \in Nat
    /\ served \in [Source -> Nat] /\ in_flight \in Int /\ tickets \in Nat /\ inline \in Call \cup {None}
    /\ holds \subseteq Expert
SleepInv == \A c \in asleep : pc[c] \in {"cache", "wait"}
PinInv ==
    /\ \A c \in Call : pinned[c] # None <=> pc[c] \in {"load", "gate", "wait", "run"}
    /\ \A c \in Call : pinned[c] # None => cache[pinned[c]].gid = ExpertOf[c]
       /\ (pc[c] # "load" => ~cache[pinned[c]].loading)
    /\ \A s \in CacheSlot : cache[s].refs = Cardinality({d \in Call : pinned[d] = s})
WaitInv ==
    /\ \A w \in queue : pc[w.who] = "wait" /\ w.seq <= seq
    /\ \A w, x \in queue : w.who = x.who \/ w.seq = x.seq => w = x
    /\ gate_free > 0 /\ queue # {} => \E w \in Kernels!gate_next_locked : w.who \notin asleep
HeldInv ==
    /\ gate_free + Cardinality({c \in Call : pc[c] \in {"run", "leave"}}) = NodeCompute
    /\ in_flight = Cardinality({c \in Call : pc[c] \notin {"new", "read", "refused", "done"}})
    /\ tickets + Cardinality({c \in Relayed \ {inline} : pc[c] \notin {"new", "refused", "done"}}) = NodeTickets
KernelInv == KernelType /\ SleepInv /\ PinInv /\ WaitInv /\ HeldInv

\* The module of the node counts as this one does.
LEMMA KernelCounts == \A S : Kernels!Cardinality(S) = Cardinality(S)
  BY DEF Kernels!Cardinality, Cardinality

\* At the start nothing is cached, counted or recorded.
LEMMA KernelStart == ASSUME KernelConstants, Kernels!Init PROVE KernelInv
<1>1. KernelType
  BY DEF Kernels!Init, KernelConstants, KernelType, Stage
<1>2. SleepInv /\ WaitInv
  BY DEF Kernels!Init, SleepInv, WaitInv
<1>3. PinInv
  <2>1. \A s \in CacheSlot : {d \in Call : pinned[d] = s} = {}
    BY DEF Kernels!Init, KernelConstants
  <2> QED BY <2>1, FS_EmptySet DEF Kernels!Init, PinInv, KernelConstants
<1>4. HeldInv
  <2> DEFINE busy == {c \in Call : pc[c] \in {"run", "leave"}}
             inside == {c \in Call : pc[c] \notin {"new", "read", "refused", "done"}}
             through == {c \in Relayed \ {inline} : pc[c] \notin {"new", "refused", "done"}}
  <2>1. busy = {} /\ inside = {} /\ through = {}
    BY DEF Kernels!Init, KernelConstants
  <2>2. Cardinality({}) = 0
    BY FS_EmptySet
  <2>3. gate_free = NodeCompute /\ in_flight = 0 /\ tickets = NodeTickets /\ NodeCompute \in Nat
          /\ NodeTickets \in Nat
    BY DEF Kernels!Init, KernelConstants
  <2>4. /\ gate_free + Cardinality(busy) = NodeCompute /\ in_flight = Cardinality(inside)
        /\ tickets + Cardinality(through) = NodeTickets
    <3> HIDE DEF busy, inside, through
    <3> QED BY <2>1, <2>2, <2>3
  <2> QED BY <2>4, Zenon DEF HeldInv
<1> QED BY <1>1, <1>2, <1>3, <1>4 DEF KernelInv

\* What one call takes or gives back when it moves is what the counters show.
LEMMA HeldStep ==
    ASSUME KernelConstants, KernelType, HeldInv, NEW c \in Call, NEW p \in Stage, pc' = [pc EXCEPT ![c] = p],
           gate_free' = gate_free + (IF pc[c] \in {"run", "leave"} THEN 1 ELSE 0) - (IF p \in {"run", "leave"} THEN 1
                ELSE 0),
           in_flight' = in_flight + (IF p \notin {"new", "read", "refused", "done"} THEN 1 ELSE 0)
                                  - (IF pc[c] \notin {"new", "read", "refused", "done"} THEN 1 ELSE 0),
           (Relayed \ {inline'}) \ {c} = (Relayed \ {inline}) \ {c},
           tickets' = tickets + (IF c \in Relayed \ {inline} /\ pc[c] \notin {"new", "refused", "done"} THEN 1 ELSE 0)
                              - (IF c \in Relayed \ {inline'} /\ p \notin {"new", "refused", "done"} THEN 1 ELSE 0)
    PROVE  HeldInv'
<1> DEFINE A == {d \in Call : pc[d] \in {"run", "leave"}}
           B == {d \in Call : pc[d] \notin {"new", "read", "refused", "done"}}
           C == {d \in Relayed \ {inline} : pc[d] \notin {"new", "refused", "done"}}
<1>0. IsFiniteSet(Call) /\ Relayed \subseteq Call /\ NodeCompute \in Nat /\ NodeTickets \in Nat
      /\ gate_free \in Nat /\ in_flight \in Int /\ tickets \in Nat
  BY DEF KernelConstants, KernelType
<1>1. \A d \in Call : pc'[d] = IF d = c THEN p ELSE pc[d]
  BY DEF KernelType
<1>2. IsFiniteSet(A) /\ IsFiniteSet(B) /\ IsFiniteSet(C)
  <2>1. A \in SUBSET Call /\ B \in SUBSET Call /\ C \in SUBSET Call
    BY <1>0
  <2> QED BY <1>0, <2>1, FS_Subset
<1>3. A \ {c} = A' \ {c} /\ B \ {c} = B' \ {c} /\ C \ {c} = C' \ {c}
  BY <1>0, <1>1
<1>4. /\ c \in A <=> pc[c] \in {"run", "leave"}
      /\ c \in A' <=> p \in {"run", "leave"}
      /\ c \in B <=> pc[c] \notin {"new", "read", "refused", "done"}
      /\ c \in B' <=> p \notin {"new", "read", "refused", "done"}
      /\ c \in C <=> c \in Relayed \ {inline} /\ pc[c] \notin {"new", "refused", "done"}
      /\ c \in C' <=> c \in Relayed \ {inline'} /\ p \notin {"new", "refused", "done"}
  BY <1>0, <1>1
<1>5. gate_free + Cardinality(A) = NodeCompute /\ in_flight = Cardinality(B) /\ tickets + Cardinality(C) = NodeTickets
  BY DEF HeldInv
<1> HIDE DEF A, B, C
<1>6. /\ Cardinality(A) \in Nat /\ Cardinality(A') \in Nat
      /\ Cardinality(A') + (IF c \in A THEN 1 ELSE 0) = Cardinality(A) + (IF c \in A' THEN 1 ELSE 0)
  BY <1>2, <1>3, CardShift
<1>7. /\ Cardinality(B) \in Nat /\ Cardinality(B') \in Nat
      /\ Cardinality(B') + (IF c \in B THEN 1 ELSE 0) = Cardinality(B) + (IF c \in B' THEN 1 ELSE 0)
  BY <1>2, <1>3, CardShift
<1>8. /\ Cardinality(C) \in Nat /\ Cardinality(C') \in Nat
      /\ Cardinality(C') + (IF c \in C THEN 1 ELSE 0) = Cardinality(C) + (IF c \in C' THEN 1 ELSE 0)
  BY <1>2, <1>3, CardShift
<1>9. gate_free' + Cardinality(A') = NodeCompute
  <2>1. gate_free' = gate_free + (IF c \in A THEN 1 ELSE 0) - (IF c \in A' THEN 1 ELSE 0)
    BY <1>4
  <2> QED BY <1>0, <1>5, <1>6, <2>1
<1>10. in_flight' = Cardinality(B')
  <2>1. in_flight' = in_flight + (IF c \in B' THEN 1 ELSE 0) - (IF c \in B THEN 1 ELSE 0)
    BY <1>4
  <2> QED BY <1>0, <1>5, <1>7, <2>1
<1>11. tickets' + Cardinality(C') = NodeTickets
  <2>1. tickets' = tickets + (IF c \in C THEN 1 ELSE 0) - (IF c \in C' THEN 1 ELSE 0)
    BY <1>4
  <2> QED BY <1>0, <1>5, <1>8, <2>1
<1> QED BY <1>9, <1>10, <1>11 DEF A, B, C, HeldInv

\* Who sleeps stays where the broadcast of its condition finds it.
LEMMA SleepStep ==
    ASSUME KernelType, SleepInv, NEW c \in Call, NEW p, pc' = [pc EXCEPT ![c] = p],
           c \notin asleep', asleep' \subseteq asleep
    PROVE  SleepInv'
  BY DEF KernelType, SleepInv

\* A step that leaves the cache alone.
LEMMA PinKept ==
    ASSUME KernelType, PinInv, UNCHANGED <<cache, pinned>>, NEW c \in Call, NEW p, pc' = [pc EXCEPT ![c] = p],
           pc[c] # "load", p \in {"load", "gate", "wait", "run"} <=> pc[c] \in {"load", "gate", "wait", "run"}
    PROVE  PinInv'
<1>1. \A d \in Call : pc'[d] = IF d = c THEN p ELSE pc[d]
  BY DEF KernelType
<1>2. \A s \in CacheSlot : Cardinality({d \in Call : pinned[d] = s})' = Cardinality({d \in Call : pinned[d] = s})
  OBVIOUS
<1> QED BY <1>1, <1>2 DEF PinInv

\* A step that leaves the gate alone.
LEMMA WaitKept ==
    ASSUME KernelType, WaitInv, UNCHANGED <<gate_free, queue, seq, served>>, NEW c \in Call, NEW p,
           pc' = [pc EXCEPT ![c] = p], pc[c] # "wait", asleep' \subseteq asleep
    PROVE  WaitInv'
<1>1. \A d \in Call : pc[d] = "wait" => pc'[d] = "wait"
  BY DEF KernelType
<1>2. Kernels!gate_next_locked' = Kernels!gate_next_locked
  BY DEF Kernels!gate_next_locked, Kernels!Least
<1>3. \A w \in queue : w.who \in Call
  BY DEF KernelType
<1> QED BY <1>1, <1>2, <1>3 DEF WaitInv

\* The ticket of a relayed call is with its worker, or the control thread
\* runs it.
LEMMA BeginStep == ASSUME KernelConstants, KernelInv, NEW c \in Call, Kernels!Begin(c) PROVE KernelInv'
<1> USE DEF KernelInv
<1>1. /\ pc[c] = "new" /\ pc' = [pc EXCEPT ![c] = "read"]
      /\ UNCHANGED <<asleep, pinned, cache, tick, gate_free, queue, seq, served, in_flight, paused, holds>>
  BY DEF Kernels!Begin, Kernels!store, Kernels!gate, Kernels!node
<1>2. /\ inline' \in Call \cup {None} /\ tickets' \in Nat
      /\ (Relayed \ {inline'}) \ {c} = (Relayed \ {inline}) \ {c}
      /\ tickets' = tickets - (IF c \in Relayed \ {inline'} THEN 1 ELSE 0)
  <2>1. CASE c \notin Relayed
    BY <2>1 DEF Kernels!Begin, KernelType
  <2>2. CASE c \in Relayed /\ tickets > 0
    <3>1. inline = None /\ inline' = None /\ tickets' = tickets - 1
      BY <2>2 DEF Kernels!Begin, Kernels!dispatch_rexec_fwd
    <3> QED BY <2>2, <3>1 DEF KernelType, KernelConstants
  <2>3. CASE c \in Relayed /\ ~(tickets > 0)
    <3>1. inline = None /\ inline' = c /\ tickets' = tickets
      BY <2>3 DEF Kernels!Begin, Kernels!dispatch_rexec_fwd
    <3> QED BY <2>3, <3>1 DEF KernelType, KernelConstants
  <2> QED BY <2>1, <2>2, <2>3
<1>3. KernelType'
  <2>1. pc' \in [Call -> Stage]
    BY <1>1 DEF KernelType, Stage
  <2> QED BY <1>1, <1>2, <2>1 DEF KernelType
<1>4. SleepInv'
  <2>1. c \notin asleep
    BY <1>1 DEF SleepInv
  <2> QED BY <1>1, <2>1, SleepStep
<1>5. PinInv'
  BY <1>1, PinKept
<1>6. WaitInv'
  BY <1>1, WaitKept
<1>7. HeldInv'
  <2>1. tickets' = tickets + (IF c \in Relayed \ {inline} /\ pc[c] \notin {"new", "refused", "done"} THEN 1 ELSE 0)
                           - (IF c \in Relayed \ {inline'} /\ "read" \notin {"new", "refused", "done"} THEN 1 ELSE 0)
    BY <1>1, <1>2 DEF KernelType
  <2>2. /\ gate_free' = gate_free + (IF pc[c] \in {"run", "leave"} THEN 1
           ELSE 0) - (IF "read" \in {"run", "leave"} THEN 1 ELSE 0)
        /\ in_flight' = in_flight + (IF "read" \notin {"new", "read", "refused", "done"} THEN 1 ELSE 0)
                                  - (IF pc[c] \notin {"new", "read", "refused", "done"} THEN 1 ELSE 0)
    BY <1>1 DEF KernelType
  <2>3. "read" \in Stage
    BY DEF Stage
  <2> QED BY <1>1, <1>2, <2>1, <2>2, <2>3, HeldStep
<1> QED BY <1>3, <1>4, <1>5, <1>6, <1>7

\* A worker gives its ticket back, and the control thread reads on.
LEMMA WorkerEnds ==
    ASSUME KernelConstants, KernelType, NEW c \in Call, Kernels!relay_worker(c),
           pc[c] \notin {"new", "refused", "done"},
           NEW p \in {"refused", "done"}
    PROVE  /\ inline' \in Call \cup {None} /\ tickets' \in Nat
           /\ (Relayed \ {inline'}) \ {c} = (Relayed \ {inline}) \ {c}
           /\ tickets' = tickets
                + (IF c \in Relayed \ {inline} /\ pc[c] \notin {"new", "refused", "done"} THEN 1 ELSE 0)
                - (IF c \in Relayed \ {inline'} /\ p \notin {"new", "refused", "done"} THEN 1 ELSE 0)
<1>1. CASE c \notin Relayed
  BY <1>1 DEF Kernels!relay_worker, KernelType
<1>2. CASE c \in Relayed /\ inline = c
  <2>1. inline' = None /\ tickets' = tickets
    BY <1>2 DEF Kernels!relay_worker
  <2> QED BY <1>2, <2>1 DEF KernelType, KernelConstants
<1>3. CASE c \in Relayed /\ inline # c
  <2>1. inline' = inline /\ tickets' = tickets + 1
    BY <1>3 DEF Kernels!relay_worker
  <2> QED BY <1>3, <2>1 DEF KernelType
<1> QED BY <1>1, <1>2, <1>3

\* A call is refused, or counted and sent to the cache.
LEMMA AdmitsStep == ASSUME KernelConstants, KernelInv, NEW c \in Call, Kernels!Admit(c) PROVE KernelInv'
<1> USE DEF KernelInv
<1>0. pc[c] = "read" /\ UNCHANGED <<asleep, pinned, cache, tick, gate_free, queue, seq, served, paused, holds>>
  BY DEF Kernels!Admit, Kernels!store, Kernels!gate, Kernels!node
<1>1. c \notin asleep
  BY <1>0 DEF SleepInv
<1>2. CASE paused \/ ExpertOf[c] \notin holds
  <2>1. pc' = [pc EXCEPT ![c] = "refused"] /\ Kernels!relay_worker(c) /\ in_flight' = in_flight
    BY <1>2 DEF Kernels!Admit
  <2>2. /\ inline' \in Call \cup {None} /\ tickets' \in Nat
        /\ (Relayed \ {inline'}) \ {c} = (Relayed \ {inline}) \ {c}
        /\ tickets' = tickets
             + (IF c \in Relayed \ {inline} /\ pc[c] \notin {"new", "refused", "done"} THEN 1 ELSE 0)
             - (IF c \in Relayed \ {inline'} /\ "refused" \notin {"new", "refused", "done"} THEN 1 ELSE 0)
    BY <1>0, <2>1, WorkerEnds
  <2>3. "refused" \in Stage
    BY DEF Stage
  <2>4. KernelType'
    BY <1>0, <2>1, <2>2, <2>3 DEF KernelType
  <2>5. SleepInv' /\ PinInv' /\ WaitInv'
    BY <1>0, <1>1, <2>1, SleepStep, PinKept, WaitKept
  <2>6. /\ gate_free' = gate_free + (IF pc[c] \in {"run", "leave"} THEN 1 ELSE 0)
                                  - (IF "refused" \in {"run", "leave"} THEN 1 ELSE 0)
        /\ in_flight' = in_flight + (IF "refused" \notin {"new", "read", "refused", "done"} THEN 1 ELSE 0)
                                  - (IF pc[c] \notin {"new", "read", "refused", "done"} THEN 1 ELSE 0)
    BY <1>0, <2>1 DEF KernelType
  <2>7. HeldInv'
    BY <2>1, <2>2, <2>3, <2>6, HeldStep
  <2> QED BY <2>4, <2>5, <2>7
<1>3. CASE ~(paused \/ ExpertOf[c] \notin holds)
  <2>1. pc' = [pc EXCEPT ![c] = "cache"] /\ in_flight' = in_flight + 1 /\ UNCHANGED <<tickets, inline>>
    BY <1>3 DEF Kernels!Admit
  <2>2. "cache" \in Stage
    BY DEF Stage
  <2>3. KernelType'
    BY <1>0, <2>1, <2>2 DEF KernelType
  <2>4. SleepInv' /\ PinInv' /\ WaitInv'
    BY <1>0, <1>1, <2>1, SleepStep, PinKept, WaitKept
  <2>5. /\ gate_free' = gate_free + (IF pc[c] \in {"run", "leave"} THEN 1 ELSE 0)
                                  - (IF "cache" \in {"run", "leave"} THEN 1 ELSE 0)
        /\ in_flight' = in_flight + (IF "cache" \notin {"new", "read", "refused", "done"} THEN 1 ELSE 0)
                                  - (IF pc[c] \notin {"new", "read", "refused", "done"} THEN 1 ELSE 0)
        /\ tickets' = tickets
             + (IF c \in Relayed \ {inline} /\ pc[c] \notin {"new", "refused", "done"} THEN 1 ELSE 0)
             - (IF c \in Relayed \ {inline'} /\ "cache" \notin {"new", "refused", "done"} THEN 1 ELSE 0)
        /\ (Relayed \ {inline'}) \ {c} = (Relayed \ {inline}) \ {c}
    BY <1>0, <2>1 DEF KernelType
  <2>6. HeldInv'
    BY <2>1, <2>2, <2>5, HeldStep
  <2> QED BY <2>3, <2>4, <2>6
<1> QED BY <1>2, <1>3

\* The answer is sent.
LEMMA ReplyStep == ASSUME KernelConstants, KernelInv, NEW c \in Call, Kernels!Reply(c) PROVE KernelInv'
<1> USE DEF KernelInv
<1>1. /\ pc[c] = "reply" /\ pc' = [pc EXCEPT ![c] = "done"] /\ in_flight' = in_flight - 1 /\ Kernels!relay_worker(c)
      /\ UNCHANGED <<asleep, pinned, cache, tick, gate_free, queue, seq, served, paused, holds>>
  BY DEF Kernels!Reply, Kernels!store, Kernels!gate, Kernels!node
<1>2. c \notin asleep
  BY <1>1 DEF SleepInv
<1>3. /\ inline' \in Call \cup {None} /\ tickets' \in Nat
      /\ (Relayed \ {inline'}) \ {c} = (Relayed \ {inline}) \ {c}
      /\ tickets' = tickets
           + (IF c \in Relayed \ {inline} /\ pc[c] \notin {"new", "refused", "done"} THEN 1 ELSE 0)
           - (IF c \in Relayed \ {inline'} /\ "done" \notin {"new", "refused", "done"} THEN 1 ELSE 0)
  BY <1>1, WorkerEnds
<1>4. "done" \in Stage
  BY DEF Stage
<1>5. KernelType'
  BY <1>1, <1>3, <1>4 DEF KernelType
<1>6. SleepInv' /\ PinInv' /\ WaitInv'
  BY <1>1, <1>2, SleepStep, PinKept, WaitKept
<1>7. /\ gate_free' = gate_free + (IF pc[c] \in {"run", "leave"} THEN 1
         ELSE 0) - (IF "done" \in {"run", "leave"} THEN 1 ELSE 0)
      /\ in_flight' = in_flight + (IF "done" \notin {"new", "read", "refused", "done"} THEN 1 ELSE 0)
                                - (IF pc[c] \notin {"new", "read", "refused", "done"} THEN 1 ELSE 0)
  BY <1>1 DEF KernelType
<1>8. HeldInv'
  BY <1>1, <1>3, <1>4, <1>7, HeldStep
<1> QED BY <1>5, <1>6, <1>8

\* A call that moves and takes or gives back nothing.
LEMMA HeldKept ==
    ASSUME KernelConstants, KernelType, HeldInv, UNCHANGED <<gate_free, in_flight, tickets, inline>>,
           NEW c \in Call, NEW p \in Stage, pc' = [pc EXCEPT ![c] = p],
           p \in {"run", "leave"} <=> pc[c] \in {"run", "leave"},
           p \notin {"new", "read", "refused", "done"}, pc[c] \notin {"new", "read", "refused", "done"}
    PROVE  HeldInv'
<1>1. /\ gate_free' = gate_free + (IF pc[c] \in {"run", "leave"} THEN 1 ELSE 0) - (IF p \in {"run", "leave"} THEN 1
         ELSE 0)
      /\ in_flight' = in_flight + (IF p \notin {"new", "read", "refused", "done"} THEN 1 ELSE 0)
                                - (IF pc[c] \notin {"new", "read", "refused", "done"} THEN 1 ELSE 0)
      /\ tickets' = tickets
           + (IF c \in Relayed \ {inline} /\ pc[c] \notin {"new", "refused", "done"} THEN 1 ELSE 0)
           - (IF c \in Relayed \ {inline'} /\ p \notin {"new", "refused", "done"} THEN 1 ELSE 0)
      /\ (Relayed \ {inline'}) \ {c} = (Relayed \ {inline}) \ {c}
  BY DEF KernelType
<1> QED BY <1>1, HeldStep

\* The pins of each slot, when one call pins a slot or lets it go.
LEMMA PinsCount ==
    ASSUME KernelConstants, KernelType, PinInv, NEW c \in Call, NEW s \in CacheSlot \cup {None},
           pinned' = [pinned EXCEPT ![c] = s], NEW t \in CacheSlot
    PROVE  Cardinality({d \in Call : pinned'[d] = t})
             = cache[t].refs + (IF t = s THEN 1 ELSE 0) - (IF t = pinned[c] THEN 1 ELSE 0)
<1> DEFINE A == {d \in Call : pinned[d] = t}
           B == {d \in Call : pinned'[d] = t}
<1>1. \A d \in Call : pinned'[d] = IF d = c THEN s ELSE pinned[d]
  BY DEF KernelType
<1>2. IsFiniteSet(A)
  <2>1. A \in SUBSET Call
    OBVIOUS
  <2> QED BY <2>1, FS_Subset DEF KernelConstants
<1>3. A \ {c} = B \ {c} /\ (c \in A <=> t = pinned[c]) /\ (c \in B <=> t = s)
  BY <1>1
<1>4. cache[t].refs = Cardinality(A)
  BY DEF PinInv
<1> HIDE DEF A, B
<1>5. /\ Cardinality(A) \in Nat /\ Cardinality(B) \in Nat
      /\ Cardinality(B) + (IF c \in A THEN 1 ELSE 0) = Cardinality(A) + (IF c \in B THEN 1 ELSE 0)
  BY <1>2, <1>3, CardShift
<1>6. Cardinality(B) = Cardinality(A) + (IF c \in B THEN 1 ELSE 0) - (IF c \in A THEN 1 ELSE 0)
  BY <1>5
<1>7. Cardinality(B) = cache[t].refs + (IF t = s THEN 1 ELSE 0) - (IF t = pinned[c] THEN 1 ELSE 0)
  BY <1>3, <1>4, <1>6
<1> QED BY <1>7 DEF B

\* Nobody has pinned a slot that no pin is counted for.
LEMMA NobodyPins ==
    ASSUME KernelConstants, PinInv, NEW s \in CacheSlot, cache[s].refs = 0, NEW d \in Call
    PROVE  pinned[d] # s
<1>1. {e \in Call : pinned[e] = s} \in SUBSET Call
  OBVIOUS
<1>2. IsFiniteSet({e \in Call : pinned[e] = s}) /\ Cardinality({e \in Call : pinned[e] = s}) = 0
  BY <1>1, FS_Subset DEF KernelConstants, PinInv
<1>3. {e \in Call : pinned[e] = s} = {}
  BY <1>2, FS_EmptySet
<1> QED BY <1>3

\* A loaded hit is pinned, a victim is loaded, or the call sleeps.
LEMMA AcquireStep == ASSUME KernelConstants, KernelInv, NEW c \in Call, Kernels!cache_acquire(c) PROVE KernelInv'
<1> USE DEF KernelInv
<1>0. /\ pc[c] = "cache" /\ c \notin asleep /\ pinned[c] = None
      /\ UNCHANGED <<gate_free, queue, seq, served, in_flight, tickets, inline, paused, holds>>
  BY DEF Kernels!cache_acquire, Kernels!Awake, Kernels!gate, Kernels!node, PinInv
<1>1. ExpertOf[c] \in Expert /\ None \notin CacheSlot
  BY DEF KernelConstants
<1>2. ASSUME NEW s \in Kernels!Hits(c), ~cache[s].loading,
             cache' = [cache EXCEPT ![s].refs = @ + 1, ![s].stamp = tick + 1],
             tick' = tick + 1, pinned' = [pinned EXCEPT ![c] = s],
             pc' = [pc EXCEPT ![c] = "gate"], UNCHANGED asleep
      PROVE  KernelInv'
  <2>1. s \in CacheSlot /\ cache[s].gid = ExpertOf[c]
    BY DEF Kernels!Hits
  <2>2. \A t \in CacheSlot : /\ cache'[t].gid = cache[t].gid /\ cache'[t].loading = cache[t].loading
                             /\ cache'[t].refs = cache[t].refs + (IF t = s THEN 1 ELSE 0)
    BY <1>2, <2>1 DEF KernelType
  <2>3. KernelType'
    <3>1. pc' \in [Call -> Stage]
      BY <1>2 DEF KernelType, Stage
    <3>2. pinned' \in [Call -> CacheSlot \cup {None}]
      BY <1>2, <2>1 DEF KernelType
    <3>3. cache' \in [CacheSlot -> [gid : Expert \cup {None}, loading : BOOLEAN, refs : Nat, stamp : Nat]]
      <4> DEFINE more == [cache EXCEPT ![s].refs = @ + 1]
      <4>1. more \in [CacheSlot -> [gid : Expert \cup {None}, loading : BOOLEAN, refs : Nat, stamp : Nat]]
        BY <2>1 DEF KernelType
      <4>2. cache' = [more EXCEPT ![s].stamp = tick + 1]
        BY <1>2
      <4> HIDE DEF more
      <4> QED BY <2>1, <4>1, <4>2 DEF KernelType
    <3> QED BY <1>0, <1>2, <3>1, <3>2, <3>3 DEF KernelType
  <2>4. PinInv'
    <3>1. \A d \in Call : pinned'[d] = (IF d = c THEN s ELSE pinned[d]) /\ pc'[d] = (IF d = c THEN "gate" ELSE pc[d])
      BY <1>2 DEF KernelType
    <3>2. ASSUME NEW d \in Call
          PROVE  /\ pinned'[d] # None <=> pc'[d] \in {"load", "gate", "wait", "run"}
                 /\ pinned'[d] # None => /\ cache'[pinned'[d]].gid = ExpertOf[d]
                                         /\ pc'[d] # "load" => ~cache'[pinned'[d]].loading
      <4>1. pinned'[d] # None => pinned'[d] \in CacheSlot
        BY <2>3 DEF KernelType
      <4>2. CASE d = c
        BY <1>1, <1>2, <2>1, <2>2, <3>1, <4>2, ZenonT(40)
      <4>3. CASE d # c
        BY <2>2, <3>1, <4>1, <4>3 DEF PinInv
      <4> QED BY <4>2, <4>3
    <3>3. ASSUME NEW t \in CacheSlot PROVE cache'[t].refs = Cardinality({d \in Call : pinned'[d] = t})
      <4>1. Cardinality({d \in Call : pinned'[d] = t})
              = cache[t].refs + (IF t = s THEN 1 ELSE 0) - (IF t = pinned[c] THEN 1 ELSE 0)
        <5>1. pinned' = [pinned EXCEPT ![c] = s] /\ s \in CacheSlot \cup {None}
          BY <1>2, <2>1
        <5> QED BY <5>1, PinsCount, ZenonT(60)
      <4>2. t # pinned[c] /\ cache[t].refs \in Nat
        BY <1>0, <1>1 DEF KernelType
      <4> QED BY <2>2, <4>1, <4>2
    <3> QED BY <3>2, <3>3 DEF PinInv
  <2>5. SleepInv' /\ WaitInv'
    BY <1>0, <1>2, SleepStep, WaitKept
  <2>6. HeldInv'
    <3>1. "gate" \in Stage
      BY DEF Stage
    <3> QED BY <1>0, <1>2, <3>1, HeldKept
  <2> QED BY <2>3, <2>4, <2>5, <2>6
<1>3. ASSUME NEW s \in Kernels!Victims,
             cache' = [cache EXCEPT ![s] = [gid |-> ExpertOf[c], loading |-> TRUE, refs |-> 1, stamp |-> tick + 1]],
             tick' = tick + 1, pinned' = [pinned EXCEPT ![c] = s],
             pc' = [pc EXCEPT ![c] = "load"], UNCHANGED asleep
      PROVE  KernelInv'
  <2>1. s \in CacheSlot /\ cache[s].refs = 0
    BY DEF Kernels!Victims, Kernels!Idle
  <2>2. \A t \in CacheSlot : cache'[t] = IF t
          = s THEN [gid |-> ExpertOf[c], loading |-> TRUE, refs |-> 1, stamp |-> tick + 1]
                                         ELSE cache[t]
    BY <1>3, <2>1 DEF KernelType
  <2>3. KernelType'
    <3>1. pc' \in [Call -> Stage]
      BY <1>3 DEF KernelType, Stage
    <3>2. pinned' \in [Call -> CacheSlot \cup {None}]
      BY <1>3, <2>1 DEF KernelType
    <3>3. cache' \in [CacheSlot -> [gid : Expert \cup {None}, loading : BOOLEAN, refs : Nat, stamp : Nat]]
      <4>1. [gid |-> ExpertOf[c], loading |-> TRUE, refs |-> 1, stamp |-> tick + 1]
              \in [gid : Expert \cup {None}, loading : BOOLEAN, refs : Nat, stamp : Nat]
        BY <1>1 DEF KernelType
      <4> QED BY <1>3, <2>1, <4>1 DEF KernelType
    <3> QED BY <1>0, <1>3, <3>1, <3>2, <3>3 DEF KernelType
  <2>4. PinInv'
    <3>1. \A d \in Call : pinned'[d] = (IF d = c THEN s ELSE pinned[d]) /\ pc'[d] = (IF d = c THEN "load" ELSE pc[d])
      BY <1>3 DEF KernelType
    <3>2. ASSUME NEW d \in Call
          PROVE  /\ pinned'[d] # None <=> pc'[d] \in {"load", "gate", "wait", "run"}
                 /\ pinned'[d] # None => /\ cache'[pinned'[d]].gid = ExpertOf[d]
                                         /\ pc'[d] # "load" => ~cache'[pinned'[d]].loading
      <4>1. pinned'[d] # None => pinned'[d] \in CacheSlot
        BY <2>3 DEF KernelType
      <4>2. CASE d = c
        BY <1>1, <2>1, <2>2, <3>1, <4>2
      <4>3. CASE d # c
        <5>1. pinned[d] # s
          BY <2>1, NobodyPins
        <5> QED BY <2>2, <3>1, <4>1, <4>3, <5>1 DEF PinInv
      <4> QED BY <4>2, <4>3
    <3>3. ASSUME NEW t \in CacheSlot PROVE cache'[t].refs = Cardinality({d \in Call : pinned'[d] = t})
      <4>1. Cardinality({d \in Call : pinned'[d] = t})
              = cache[t].refs + (IF t = s THEN 1 ELSE 0) - (IF t = pinned[c] THEN 1 ELSE 0)
        <5>1. pinned' = [pinned EXCEPT ![c] = s] /\ s \in CacheSlot \cup {None}
          BY <1>3, <2>1
        <5> QED BY <5>1, PinsCount, ZenonT(60)
      <4>2. t # pinned[c] /\ cache[t].refs \in Nat
        BY <1>0, <1>1 DEF KernelType
      <4> QED BY <2>1, <2>2, <4>1, <4>2
    <3> QED BY <3>2, <3>3 DEF PinInv
  <2>5. SleepInv' /\ WaitInv'
    BY <1>0, <1>3, SleepStep, WaitKept
  <2>6. HeldInv'
    <3>1. "load" \in Stage
      BY DEF Stage
    <3> QED BY <1>0, <1>3, <3>1, HeldKept
  <2> QED BY <2>3, <2>4, <2>5, <2>6
<1>4. ASSUME asleep' = asleep \cup {c}, UNCHANGED <<cache, tick, pinned, pc>> PROVE KernelInv'
  <2>1. KernelType' /\ PinInv' /\ HeldInv'
    BY <1>0, <1>4 DEF KernelType, PinInv, HeldInv
  <2>2. SleepInv'
    BY <1>0, <1>4 DEF SleepInv
  <2>3. WaitInv'
    <3>1. Kernels!gate_next_locked' = Kernels!gate_next_locked
      BY <1>0 DEF Kernels!gate_next_locked, Kernels!Least
    <3>2. \A w \in queue : w.who # c
      BY <1>0 DEF WaitInv
    <3>3. Kernels!gate_next_locked \subseteq queue
      BY DEF Kernels!gate_next_locked
    <3> QED BY <1>0, <1>4, <3>1, <3>2, <3>3 DEF WaitInv
  <2> QED BY <2>1, <2>2, <2>3
<1> QED BY <1>2, <1>3, <1>4 DEF Kernels!cache_acquire, Kernels!store

\* The slot is published to the callers that wait for it.
LEMMA LoadedStep == ASSUME KernelConstants, KernelInv, NEW c \in Call, Kernels!CacheLoaded(c) PROVE KernelInv'
<1> USE DEF KernelInv
<1>1. /\ pc[c] = "load" /\ cache' = [cache EXCEPT ![pinned[c]].loading = FALSE]
      /\ pc' = [pc EXCEPT ![c] = "gate"] /\ asleep' \subseteq asleep
      /\ UNCHANGED <<tick, pinned, gate_free, queue, seq, served, in_flight, tickets, inline, paused, holds>>
  BY DEF Kernels!CacheLoaded, Kernels!CacheBroadcast, Kernels!gate, Kernels!node
<1>2. c \notin asleep /\ pinned[c] \in CacheSlot
  BY <1>1 DEF SleepInv, PinInv, KernelType
<1>3. \A t \in CacheSlot : /\ cache'[t].gid = cache[t].gid /\ cache'[t].refs = cache[t].refs
                           /\ ~cache[t].loading \/ t = pinned[c] => ~cache'[t].loading
  BY <1>1, <1>2 DEF KernelType
<1>4. KernelType'
  <2>1. pc' \in [Call -> Stage]
    BY <1>1 DEF KernelType, Stage
  <2>2. cache' \in [CacheSlot -> [gid : Expert \cup {None}, loading : BOOLEAN, refs : Nat, stamp : Nat]]
    BY <1>1, <1>2 DEF KernelType
  <2> QED BY <1>1, <2>1, <2>2 DEF KernelType
<1>5. PinInv'
  <2>1. \A d \in Call : pc'[d] = IF d = c THEN "gate" ELSE pc[d]
    BY <1>1 DEF KernelType
  <2>2. ASSUME NEW d \in Call
        PROVE  /\ pinned'[d] # None <=> pc'[d] \in {"load", "gate", "wait", "run"}
               /\ pinned'[d] # None => /\ cache'[pinned'[d]].gid = ExpertOf[d]
                                       /\ pc'[d] # "load" => ~cache'[pinned'[d]].loading
    <3>1. pinned[d] # None => pinned[d] \in CacheSlot
      BY DEF KernelType
    <3> QED BY <1>1, <1>3, <2>1, <3>1 DEF PinInv
  <2>3. ASSUME NEW t \in CacheSlot PROVE cache'[t].refs = Cardinality({d \in Call : pinned'[d] = t})
    <3>1. {d \in Call : pinned'[d] = t} = {d \in Call : pinned[d] = t}
      BY <1>1
    <3> QED BY <1>3, <3>1 DEF PinInv
  <2> QED BY <2>2, <2>3 DEF PinInv
<1>6. SleepInv' /\ WaitInv'
  BY <1>1, <1>2, SleepStep, WaitKept
<1>7. HeldInv'
  <2>1. "gate" \in Stage
    BY DEF Stage
  <2> QED BY <1>1, <2>1, HeldKept
<1> QED BY <1>4, <1>5, <1>6, <1>7

\* The kernel has ended and the pin is let go.
LEMMA UnpinStep == ASSUME KernelConstants, KernelInv, NEW c \in Call, Kernels!cache_release(c) PROVE KernelInv'
<1> USE DEF KernelInv
<1>1. /\ pc[c] = "run" /\ cache' = [cache EXCEPT ![pinned[c]].refs = @ - 1]
      /\ pinned' = [pinned EXCEPT ![c] = None]
      /\ pc' = [pc EXCEPT ![c] = "leave"] /\ asleep' \subseteq asleep
      /\ UNCHANGED <<tick, gate_free, queue, seq, served, in_flight, tickets, inline, paused, holds>>
  BY DEF Kernels!cache_release, Kernels!CacheBroadcast, Kernels!gate, Kernels!node
<1>2. c \notin asleep /\ pinned[c] \in CacheSlot /\ None \notin CacheSlot
  BY <1>1 DEF SleepInv, PinInv, KernelType, KernelConstants
<1>3. \A t \in CacheSlot : /\ cache'[t].gid = cache[t].gid /\ cache'[t].loading = cache[t].loading
                           /\ cache'[t].refs = cache[t].refs - (IF t = pinned[c] THEN 1 ELSE 0)
  BY <1>1, <1>2 DEF KernelType
<1>4. ASSUME NEW t \in CacheSlot
      PROVE  Cardinality({d \in Call : pinned'[d] = t}) = cache[t].refs - (IF t = pinned[c] THEN 1 ELSE 0)
  <2>1. Cardinality({d \in Call : pinned'[d] = t})
          = cache[t].refs + (IF t = None THEN 1 ELSE 0) - (IF t = pinned[c] THEN 1 ELSE 0)
    <3>1. pinned' = [pinned EXCEPT ![c] = None] /\ None \in CacheSlot \cup {None}
      BY <1>1
    <3> QED BY <3>1, PinsCount, ZenonT(60)
  <2>2. t # None /\ cache[t].refs \in Nat
    BY <1>2 DEF KernelType
  <2> QED BY <2>1, <2>2
<1>5. KernelType'
  <2>1. pc' \in [Call -> Stage] /\ pinned' \in [Call -> CacheSlot \cup {None}]
    BY <1>1 DEF KernelType, Stage
  <2>2. cache[pinned[c]].refs - 1 \in Nat
    <3>1. {d \in Call : pinned'[d] = pinned[c]} \in SUBSET Call
      OBVIOUS
    <3>2. Cardinality({d \in Call : pinned'[d] = pinned[c]}) \in Nat
      BY <3>1, FS_Subset, FS_CardinalityType DEF KernelConstants
    <3> QED BY <1>2, <1>4, <3>2
  <2>3. cache' \in [CacheSlot -> [gid : Expert \cup {None}, loading : BOOLEAN, refs : Nat, stamp : Nat]]
    BY <1>1, <1>2, <2>2 DEF KernelType
  <2> QED BY <1>1, <2>1, <2>3 DEF KernelType
<1>6. PinInv'
  <2>1. \A d \in Call : /\ pc'[d] = IF d = c THEN "leave" ELSE pc[d]
                        /\ pinned'[d] = IF d = c THEN None ELSE pinned[d]
    BY <1>1 DEF KernelType
  <2>2. ASSUME NEW d \in Call
        PROVE  /\ pinned'[d] # None <=> pc'[d] \in {"load", "gate", "wait", "run"}
               /\ pinned'[d] # None => /\ cache'[pinned'[d]].gid = ExpertOf[d]
                                       /\ pc'[d] # "load" => ~cache'[pinned'[d]].loading
    <3>1. pinned[d] # None => pinned[d] \in CacheSlot
      BY DEF KernelType
    <3> QED BY <1>3, <2>1, <3>1 DEF PinInv
  <2>3. ASSUME NEW t \in CacheSlot PROVE cache'[t].refs = Cardinality({d \in Call : pinned'[d] = t})
    BY <1>3, <1>4
  <2> QED BY <2>2, <2>3 DEF PinInv
<1>7. SleepInv' /\ WaitInv'
  BY <1>1, <1>2, SleepStep, WaitKept
<1>8. HeldInv'
  <2>1. "leave" \in Stage
    BY DEF Stage
  <2> QED BY <1>1, <2>1, HeldKept
<1> QED BY <1>5, <1>6, <1>7, <1>8

\* The least granted source's oldest waiter among Q.
NextOf(Q, g) == {w \in Q : \A x \in Q : \/ g[SourceOf[w.who]] < g[SourceOf[x.who]]
                                        \/ g[SourceOf[w.who]] = g[SourceOf[x.who]] /\ w.seq <= x.seq}

\* Of the recorded waiters one is next.
LEMMA NextExists ==
    ASSUME SourceOf \in [Call -> Source], NEW Q, Q \subseteq [who : Call, seq : Nat], Q # {},
           NEW g, g \in [Source -> Nat]
    PROVE  NextOf(Q, g) # {}
<1> DEFINE R == {ss \in Nat \X Nat : ss[1] < ss[2]}
           G == {g[SourceOf[w.who]] : w \in Q}
<1>1. IsWellFoundedOn(R, Nat)
  BY NatLessThanWellFounded DEF OpToRel
<1>2. \A w \in Q : w.who \in Call /\ w.seq \in Nat /\ g[SourceOf[w.who]] \in Nat
  OBVIOUS
<1>3. G \in SUBSET Nat /\ G # {}
  BY <1>2
<1>4. PICK n \in G : \A m \in G : <<m, n>> \notin R
  <2> HIDE DEF R, G
  <2> QED BY <1>1, <1>3, WFMin
<1>5. \A m \in G : n <= m
  <2> SUFFICES ASSUME NEW m \in G PROVE n <= m
    OBVIOUS
  <2>1. n \in Nat /\ m \in Nat /\ ~(m < n)
    BY <1>3, <1>4
  <2> QED BY <2>1
<1> DEFINE S == {w.seq : w \in {x \in Q : g[SourceOf[x.who]] = n}}
<1>6. S \in SUBSET Nat /\ S # {}
  BY <1>2
<1>7. PICK k \in S : \A m \in S : <<m, k>> \notin R
  <2> HIDE DEF R, S
  <2> QED BY <1>1, <1>6, WFMin
<1>8. \A m \in S : k <= m
  <2> SUFFICES ASSUME NEW m \in S PROVE k <= m
    OBVIOUS
  <2>1. k \in Nat /\ m \in Nat /\ ~(m < k)
    BY <1>6, <1>7
  <2> QED BY <2>1
<1>9. PICK w \in Q : g[SourceOf[w.who]] = n /\ w.seq = k
  BY <1>7
<1>10. ASSUME NEW x \in Q
       PROVE  g[SourceOf[w.who]] < g[SourceOf[x.who]] \/ (g[SourceOf[w.who]] = g[SourceOf[x.who]] /\ w.seq <= x.seq)
  <2>1. g[SourceOf[x.who]] \in G /\ n \in Nat /\ g[SourceOf[x.who]] \in Nat
    BY <1>2, <1>3
  <2>2. CASE g[SourceOf[x.who]] = n
    BY <1>8, <1>9, <2>2
  <2>3. CASE g[SourceOf[x.who]] # n
    <3>1. n <= g[SourceOf[x.who]]
      <4> HIDE DEF G
      <4> QED BY <1>5, <2>1
    <3>2. n < g[SourceOf[x.who]]
      BY <2>1, <2>3, <3>1
    <3> QED BY <1>9, <3>2
  <2> QED BY <2>2, <2>3
<1>11. w \in NextOf(Q, g)
  BY <1>9, <1>10 DEF NextOf
<1> QED BY <1>11

\* When every waiter is awake, the next one is.
LEMMA AllAwake ==
    ASSUME KernelConstants, KernelType, \A w \in queue : w.who \notin asleep, queue # {}
    PROVE  \E w \in Kernels!gate_next_locked : w.who \notin asleep
<1>1. queue # {} /\ queue \subseteq [who : Call, seq : Nat] /\ served \in [Source -> Nat]
        /\ SourceOf \in [Call -> Source]
  BY DEF KernelConstants, KernelType
<1>2. NextOf(queue, served) # {}
  BY <1>1, NextExists
<1>3. PICK w : w \in NextOf(queue, served)
  BY <1>2
<1>4. w \in queue /\ \A x \in queue :
        Kernels!Least(w) < Kernels!Least(x) \/ (Kernels!Least(w) = Kernels!Least(x) /\ w.seq <= x.seq)
  BY <1>3 DEF NextOf, Kernels!Least
<1>5. w \in Kernels!gate_next_locked
  BY <1>4 DEF Kernels!gate_next_locked
<1> QED BY <1>4, <1>5

\* The next waiter is one.
LEMMA NextIsOne ==
    ASSUME KernelConstants, KernelType, WaitInv, NEW w \in Kernels!gate_next_locked,
           NEW x \in Kernels!gate_next_locked
    PROVE  w = x
<1>1. w \in queue /\ x \in queue
  BY DEF Kernels!gate_next_locked
<1>2. Kernels!Least(w) \in Nat /\ Kernels!Least(x) \in Nat /\ w.seq \in Nat /\ x.seq \in Nat
  BY <1>1 DEF KernelConstants, KernelType, Kernels!Least
<1>3. /\ Kernels!Least(w) < Kernels!Least(x) \/ (Kernels!Least(w) = Kernels!Least(x) /\ w.seq <= x.seq)
      /\ Kernels!Least(x) < Kernels!Least(w) \/ (Kernels!Least(x) = Kernels!Least(w) /\ x.seq <= w.seq)
  BY <1>1 DEF Kernels!gate_next_locked
<1>4. w.seq = x.seq
  BY <1>2, <1>3
<1> QED BY <1>1, <1>4 DEF WaitInv

\* A free place at the gate and nobody before the call.
LEMMA FastStep == ASSUME KernelConstants, KernelInv, NEW c \in Call, Kernels!GateFast(c) PROVE KernelInv'
<1> USE DEF KernelInv
<1>1. /\ pc[c] = "gate" /\ gate_free > 0 /\ queue = {} /\ gate_free' = gate_free - 1 /\ served' = Kernels!Granted(c)
      /\ pc' = [pc EXCEPT ![c] = "run"]
      /\ UNCHANGED <<asleep, cache, tick, pinned, queue, seq, in_flight, tickets, inline, paused, holds>>
  BY DEF Kernels!GateFast, Kernels!store, Kernels!node
<1>2. c \notin asleep
  BY <1>1 DEF SleepInv
<1>3. KernelType'
  <2>1. pc' \in [Call -> Stage] /\ gate_free' \in Nat
    BY <1>1 DEF KernelType, Stage
  <2>2. served' \in [Source -> Nat]
    BY <1>1 DEF KernelType, KernelConstants, Kernels!Granted
  <2> QED BY <1>1, <2>1, <2>2 DEF KernelType
<1>4. SleepInv' /\ PinInv'
  BY <1>1, <1>2, SleepStep, PinKept
<1>5. WaitInv'
  BY <1>1 DEF WaitInv
<1>6. HeldInv'
  <2>1. /\ gate_free' = gate_free + (IF pc[c] \in {"run", "leave"} THEN 1
           ELSE 0) - (IF "run" \in {"run", "leave"} THEN 1 ELSE 0)
        /\ in_flight' = in_flight + (IF "run" \notin {"new", "read", "refused", "done"} THEN 1 ELSE 0)
                                  - (IF pc[c] \notin {"new", "read", "refused", "done"} THEN 1 ELSE 0)
        /\ tickets' = tickets
             + (IF c \in Relayed \ {inline} /\ pc[c] \notin {"new", "refused", "done"} THEN 1 ELSE 0)
             - (IF c \in Relayed \ {inline'} /\ "run" \notin {"new", "refused", "done"} THEN 1 ELSE 0)
        /\ (Relayed \ {inline'}) \ {c} = (Relayed \ {inline}) \ {c} /\ "run" \in Stage
    BY <1>1 DEF KernelType, Stage
  <2> QED BY <1>1, <2>1, HeldStep
<1> QED BY <1>3, <1>4, <1>5, <1>6

\* A call is recorded while there is room, and waits.
LEMMA RecordStep == ASSUME KernelConstants, KernelInv, NEW c \in Call, Kernels!GateQueue(c) PROVE KernelInv'
<1> USE DEF KernelInv
<1> DEFINE n == [who |-> c, seq |-> seq + 1]
<1>1. /\ pc[c] = "gate" /\ (gate_free = 0 \/ queue # {}) /\ seq' = seq + 1
      /\ queue' = queue \/ queue' = queue \cup {n}
      /\ pc' = [pc EXCEPT ![c] = "wait"]
      /\ UNCHANGED <<asleep, cache, tick, pinned, gate_free, served, in_flight, tickets, inline, paused, holds>>
  BY DEF Kernels!GateQueue, Kernels!store, Kernels!node
<1>2. c \notin asleep
  BY <1>1 DEF SleepInv
<1>3. KernelType'
  <2>1. pc' \in [Call -> Stage] /\ seq' \in Nat /\ n \in [who : Call, seq : Nat]
    BY <1>1 DEF KernelType, Stage
  <2> QED BY <1>1, <2>1 DEF KernelType
<1>4. SleepInv' /\ PinInv'
  BY <1>1, <1>2, SleepStep, PinKept
<1>5. HeldInv'
  <2>1. "wait" \in Stage
    BY DEF Stage
  <2> QED BY <1>1, <2>1, HeldKept
<1>6. \A w \in queue : /\ w.who \in Call /\ w.seq \in Nat /\ w.seq <= seq /\ seq \in Nat
                       /\ pc[w.who] = "wait" /\ w.who # c /\ Kernels!Least(w) \in Nat
  BY <1>1 DEF WaitInv, KernelType, KernelConstants, Kernels!Least
<1>7. n.who = c /\ n.seq = seq + 1 /\ Kernels!Least(n) \in Nat
  BY DEF KernelType, KernelConstants, Kernels!Least
<1>8. \A w \in queue' : pc'[w.who] = "wait" /\ w.seq <= seq'
  BY <1>1, <1>6, <1>7 DEF KernelType
<1>9. \A w, x \in queue' : w.who = x.who \/ w.seq = x.seq => w = x
  <2>1. \A w \in queue : w.who # n.who /\ w.seq # n.seq
    BY <1>6, <1>7
  <2> HIDE DEF n
  <2> QED BY <1>1, <2>1 DEF WaitInv
<1>10. ASSUME gate_free' > 0, queue' # {} PROVE \E w \in Kernels!gate_next_locked' : w.who \notin asleep'
  <2>1. PICK w \in Kernels!gate_next_locked : w.who \notin asleep
    BY <1>1, <1>10 DEF WaitInv, KernelType
  <2>2. w \in queue /\ \A x \in queue :
          Kernels!Least(w) < Kernels!Least(x) \/ (Kernels!Least(w) = Kernels!Least(x) /\ w.seq <= x.seq)
    BY DEF Kernels!gate_next_locked
  <2>3. \A x : Kernels!Least(x)' = Kernels!Least(x)
    BY <1>1 DEF Kernels!Least
  <2>4. CASE queue' = queue
    BY <1>1, <2>1, <2>2, <2>3, <2>4 DEF Kernels!gate_next_locked
  <2>5. CASE queue' = queue \cup {n} /\ Kernels!Least(n) < Kernels!Least(w)
    <3>1. \A x \in queue : Kernels!Least(n) < Kernels!Least(x)
      BY <1>6, <1>7, <2>2, <2>5
    <3>2. \A x \in queue \cup {n} : Kernels!Least(n) < Kernels!Least(x)
            \/ (Kernels!Least(n) = Kernels!Least(x) /\ n.seq <= x.seq)
      <4>1. n.seq \in Nat
        BY <1>6 DEF KernelType
      <4> HIDE DEF n
      <4>2. n.seq <= n.seq
        BY <4>1
      <4> QED BY <3>1, <4>2
    <3>3. n \in Kernels!gate_next_locked'
      <4> HIDE DEF n
      <4> QED BY <2>3, <2>5, <3>2 DEF Kernels!gate_next_locked
    <3> QED BY <1>1, <1>2, <1>7, <3>3
  <2>6. CASE queue' = queue \cup {n} /\ ~(Kernels!Least(n) < Kernels!Least(w))
    <3>1. Kernels!Least(w) < Kernels!Least(n) \/ (Kernels!Least(w) = Kernels!Least(n) /\ w.seq <= n.seq)
      BY <1>6, <1>7, <2>2, <2>6
    <3>2. w \in Kernels!gate_next_locked'
      <4> HIDE DEF n
      <4> QED BY <2>2, <2>3, <2>6, <3>1 DEF Kernels!gate_next_locked
    <3> QED BY <1>1, <2>1, <3>2
  <2> QED BY <1>1, <2>4, <2>5, <2>6
<1>11. WaitInv'
  BY <1>8, <1>9, <1>10 DEF WaitInv
<1> QED BY <1>3, <1>4, <1>5, <1>11

\* A waiter whose turn it is passes, any other sleeps.
LEMMA WaitStep == ASSUME KernelConstants, KernelInv, NEW c \in Call, Kernels!GateWait(c) PROVE KernelInv'
<1> USE DEF KernelInv
<1>0. /\ pc[c] = "wait" /\ c \notin asleep
      /\ UNCHANGED <<cache, tick, pinned, seq, in_flight, tickets, inline, paused, holds>>
  BY DEF Kernels!GateWait, Kernels!Awake, Kernels!store, Kernels!node
<1>1. CASE Kernels!MayPass(c)
  <2> DEFINE left == queue \ Kernels!Recorded(c)
  <2>1. /\ gate_free > 0 /\ queue' = left /\ gate_free' = gate_free - 1
        /\ served' = (IF left = {} THEN [s \in Source |-> 0] ELSE Kernels!Granted(c))
        /\ asleep' = Kernels!Woken(left) /\ pc' = [pc EXCEPT ![c] = "run"]
    BY <1>1 DEF Kernels!GateWait, Kernels!MayPass
  <2>2. asleep' \subseteq asleep /\ left \subseteq queue /\ \A w \in left : w.who # c
    BY <2>1 DEF Kernels!Woken, Kernels!Recorded
  <2>3. KernelType'
    <3>1. pc' \in [Call -> Stage] /\ gate_free' \in Nat
      BY <2>1 DEF KernelType, Stage
    <3>2. served' \in [Source -> Nat]
      <4>1. Kernels!Granted(c) \in [Source -> Nat]
        BY DEF KernelType, KernelConstants, Kernels!Granted
      <4> QED BY <2>1, <4>1
    <3> QED BY <1>0, <2>1, <2>2, <3>1, <3>2 DEF KernelType
  <2>4. SleepInv' /\ PinInv'
    BY <1>0, <2>1, <2>2, SleepStep, PinKept
  <2>5. HeldInv'
    <3>1. /\ gate_free' = gate_free + (IF pc[c] \in {"run", "leave"} THEN 1 ELSE 0)
                                    - (IF "run" \in {"run", "leave"} THEN 1 ELSE 0)
          /\ in_flight' = in_flight + (IF "run" \notin {"new", "read", "refused", "done"} THEN 1 ELSE 0)
                                    - (IF pc[c] \notin {"new", "read", "refused", "done"} THEN 1 ELSE 0)
          /\ tickets' = tickets
               + (IF c \in Relayed \ {inline} /\ pc[c] \notin {"new", "refused", "done"} THEN 1 ELSE 0)
               - (IF c \in Relayed \ {inline'} /\ "run" \notin {"new", "refused", "done"} THEN 1 ELSE 0)
          /\ (Relayed \ {inline'}) \ {c} = (Relayed \ {inline}) \ {c} /\ "run" \in Stage
      BY <1>0, <2>1 DEF KernelType, Stage
    <3> QED BY <2>1, <3>1, HeldStep
  <2>6. \A w \in queue' : pc'[w.who] = "wait" /\ w.seq <= seq'
    <3>1. \A w \in left : w.who \in Call /\ pc[w.who] = "wait" /\ w.seq <= seq
      BY <2>2 DEF WaitInv, KernelType
    <3> QED BY <1>0, <2>1, <2>2, <3>1 DEF KernelType
  <2>7. \A w, x \in queue' : w.who = x.who \/ w.seq = x.seq => w = x
    BY <2>1, <2>2 DEF WaitInv
  <2>8. ASSUME gate_free' > 0, queue' # {} PROVE \E w \in Kernels!gate_next_locked' : w.who \notin asleep'
    <3>1. gate_free > 1 /\ asleep' = {d \in asleep : pc[d] # "wait"}
      BY <2>1, <2>8 DEF Kernels!Woken, KernelType
    <3>2. \A w \in queue' : w.who \notin asleep'
      BY <2>1, <2>2, <3>1 DEF WaitInv
    <3>3. queue' # {} /\ queue' \subseteq [who : Call, seq : Nat] /\ served' \in [Source -> Nat]
          /\ SourceOf \in [Call -> Source]
      BY <2>3, <2>8 DEF KernelType, KernelConstants
    <3>4. NextOf(queue', served') # {}
      BY <3>3, NextExists
    <3>5. PICK w : w \in NextOf(queue', served')
      BY <3>4
    <3>6. w \in queue' /\ \A x \in queue' :
            Kernels!Least(w)' < Kernels!Least(x)' \/ (Kernels!Least(w)' = Kernels!Least(x)' /\ w.seq <= x.seq)
      BY <3>5 DEF NextOf, Kernels!Least
    <3>7. w \in Kernels!gate_next_locked'
      BY <3>6 DEF Kernels!gate_next_locked
    <3> QED BY <3>2, <3>6, <3>7
  <2>9. WaitInv'
    BY <2>6, <2>7, <2>8 DEF WaitInv
  <2> QED BY <2>3, <2>4, <2>5, <2>9
<1>2. CASE ~Kernels!MayPass(c)
  <2>1. asleep' = asleep \cup {c} /\ UNCHANGED <<queue, gate_free, served, pc>>
    BY <1>2 DEF Kernels!GateWait
  <2>2. KernelType' /\ PinInv' /\ HeldInv'
    BY <1>0, <2>1 DEF KernelType, PinInv, HeldInv
  <2>3. SleepInv'
    BY <1>0, <2>1 DEF SleepInv
  <2>4. Kernels!gate_next_locked' = Kernels!gate_next_locked
    BY <2>1 DEF Kernels!gate_next_locked, Kernels!Least
  <2>5. ASSUME gate_free > 0, queue # {} PROVE \E w \in Kernels!gate_next_locked : w.who \notin asleep \cup {c}
    <3>1. PICK w \in Kernels!gate_next_locked : w.who \notin asleep
      BY <2>5 DEF WaitInv
    <3>2. w \in queue /\ Kernels!gate_next_locked = {w}
      BY <3>1, NextIsOne DEF Kernels!gate_next_locked
    <3>3. CASE w.who = c
      <4>1. Kernels!Recorded(c) = {w}
        BY <3>2, <3>3 DEF Kernels!Recorded, WaitInv
      <4> QED BY <1>2, <2>5, <3>2, <4>1 DEF Kernels!MayPass
    <3> QED BY <3>1, <3>3
  <2>6. WaitInv'
    BY <1>0, <2>1, <2>4, <2>5 DEF WaitInv
  <2> QED BY <2>2, <2>3, <2>6
<1> QED BY <1>1, <1>2

\* The place is given back and every waiter is woken.
LEMMA LeaveGateStep == ASSUME KernelConstants, KernelInv, NEW c \in Call, Kernels!gate_leave(c) PROVE KernelInv'
<1> USE DEF KernelInv
<1>1. /\ pc[c] = "leave" /\ gate_free' = gate_free + 1 /\ asleep' = {d \in asleep : pc[d] # "wait"}
      /\ pc' = [pc EXCEPT ![c] = "reply"]
      /\ UNCHANGED <<cache, tick, pinned, queue, seq, served, in_flight, tickets, inline, paused, holds>>
  BY DEF Kernels!gate_leave, Kernels!store, Kernels!node
<1>2. c \notin asleep /\ asleep' \subseteq asleep
  BY <1>1 DEF SleepInv
<1>3. KernelType'
  <2>1. pc' \in [Call -> Stage] /\ gate_free' \in Nat
    BY <1>1 DEF KernelType, Stage
  <2> QED BY <1>1, <2>1 DEF KernelType
<1>4. SleepInv' /\ PinInv'
  BY <1>1, <1>2, SleepStep, PinKept
<1>5. HeldInv'
  <2>1. /\ gate_free' = gate_free + (IF pc[c] \in {"run", "leave"} THEN 1 ELSE 0)
                                  - (IF "reply" \in {"run", "leave"} THEN 1 ELSE 0)
        /\ in_flight' = in_flight + (IF "reply" \notin {"new", "read", "refused", "done"} THEN 1 ELSE 0)
                                  - (IF pc[c] \notin {"new", "read", "refused", "done"} THEN 1 ELSE 0)
        /\ tickets' = tickets
             + (IF c \in Relayed \ {inline} /\ pc[c] \notin {"new", "refused", "done"} THEN 1 ELSE 0)
             - (IF c \in Relayed \ {inline'} /\ "reply" \notin {"new", "refused", "done"} THEN 1 ELSE 0)
        /\ (Relayed \ {inline'}) \ {c} = (Relayed \ {inline}) \ {c} /\ "reply" \in Stage
    BY <1>1 DEF KernelType, Stage
  <2> QED BY <1>1, <2>1, HeldStep
<1>6. WaitInv'
  <2>1. \A w \in queue : pc[w.who] = "wait" /\ w.who \in Call /\ w.who # c /\ w.who \notin asleep'
    BY <1>1 DEF WaitInv, KernelType
  <2>2. ASSUME queue # {} PROVE \E w \in Kernels!gate_next_locked' : w.who \notin asleep'
    <3>1. queue # {} /\ queue \subseteq [who : Call, seq : Nat] /\ served \in [Source -> Nat]
          /\ SourceOf \in [Call -> Source]
      BY <2>2 DEF KernelConstants, KernelType
    <3>2. NextOf(queue, served) # {}
      BY <3>1, NextExists
    <3>3. PICK w : w \in NextOf(queue, served)
      BY <3>2
    <3>4. w \in queue /\ \A x \in queue :
            Kernels!Least(w) < Kernels!Least(x) \/ (Kernels!Least(w) = Kernels!Least(x) /\ w.seq <= x.seq)
      BY <3>3 DEF NextOf, Kernels!Least
    <3>5. w \in Kernels!gate_next_locked'
      BY <1>1, <3>4 DEF Kernels!gate_next_locked, Kernels!Least
    <3> QED BY <2>1, <3>4, <3>5
  <2> QED BY <1>1, <2>1, <2>2 DEF WaitInv, KernelType
<1> QED BY <1>3, <1>4, <1>5, <1>6

\* Every step of the node keeps the invariant.
LEMMA KernelStep == ASSUME KernelConstants, KernelInv, [Kernels!Next]_Kernels!vars PROVE KernelInv'
<1>1. ASSUME NEW c \in Call, Kernels!Begin(c) \/ Kernels!Step(c) PROVE KernelInv'
  BY <1>1, BeginStep, AdmitsStep, AcquireStep, LoadedStep, FastStep, RecordStep, WaitStep, UnpinStep,
     LeaveGateStep, ReplyStep DEF Kernels!Step
<1>2. ASSUME UNCHANGED <<pc, asleep, Kernels!store, Kernels!gate, in_flight, tickets, inline>>,
             holds' \subseteq Expert
      PROVE  KernelInv'
  <2>1. UNCHANGED <<pc, asleep, pinned, cache, tick, gate_free, queue, seq, served, in_flight, tickets, inline>>
    BY <1>2 DEF Kernels!store, Kernels!gate
  <2>2. KernelType' /\ SleepInv' /\ PinInv' /\ HeldInv'
    BY <1>2, <2>1 DEF KernelInv, KernelType, SleepInv, PinInv, HeldInv
  <2>3. Kernels!gate_next_locked' = Kernels!gate_next_locked
    BY <2>1 DEF Kernels!gate_next_locked, Kernels!Least
  <2>4. WaitInv'
    BY <2>1, <2>3 DEF KernelInv, WaitInv
  <2> QED BY <2>2, <2>4 DEF KernelInv
<1>3. holds \subseteq Expert
  BY DEF KernelInv, KernelType
<1>4. CASE Kernels!governor_thread
  BY <1>2, <1>3, <1>4 DEF Kernels!governor_thread
<1>5. ASSUME NEW want \in SUBSET Expert, Kernels!rebalance_thread(want) PROVE KernelInv'
  BY <1>2, <1>5 DEF Kernels!rebalance_thread
<1>6. CASE UNCHANGED Kernels!vars
  BY <1>2, <1>3, <1>6 DEF Kernels!vars, Kernels!store, Kernels!gate
<1> QED BY <1>1, <1>4, <1>5, <1>6 DEF Kernels!Next

\* What callers rely on follows from the invariant.
LEMMA KernelPromise == ASSUME KernelInv PROVE Kernels!ExecSound
<1>1. Kernels!WeightsStay
  <2>1. ASSUME NEW c \in Call, pinned[c] # None
        PROVE  /\ cache[pinned[c]].gid = ExpertOf[c] /\ (pc[c] # "load" => ~cache[pinned[c]].loading)
               /\ cache[pinned[c]].refs = Kernels!Cardinality({d \in Call : pinned[d] = pinned[c]})
    <3>1. pinned[c] \in CacheSlot
      BY <2>1 DEF KernelInv, KernelType
    <3>2. cache[pinned[c]].gid = ExpertOf[c] /\ (pc[c] # "load" => ~cache[pinned[c]].loading)
      BY <2>1 DEF KernelInv, PinInv
    <3>3. cache[pinned[c]].refs = Cardinality({d \in Call : pinned[d] = pinned[c]})
      BY <3>1 DEF KernelInv, PinInv
    <3>4. Kernels!Cardinality({d \in Call : pinned[d] = pinned[c]})
            = Cardinality({d \in Call : pinned[d] = pinned[c]})
      BY KernelCounts, Zenon
    <3> QED BY <3>2, <3>3, <3>4
  <2> QED BY <2>1, Zenon DEF Kernels!WeightsStay
<1>2. Kernels!NoIdleSlot
  <2> DEFINE busy == {c \in Call : pc[c] \in {"run", "leave"}}
             inside == {c \in Call : pc[c] \notin {"new", "read", "refused", "done"}}
             through == {c \in Relayed \ {inline} : pc[c] \notin {"new", "refused", "done"}}
  <2>1. gate_free > 0 /\ queue # {} => \E w \in Kernels!gate_next_locked : w.who \notin asleep
    BY DEF KernelInv, WaitInv
  <2>2. /\ gate_free + Cardinality(busy) = NodeCompute /\ in_flight = Cardinality(inside)
        /\ tickets + Cardinality(through) = NodeTickets
    BY Zenon DEF KernelInv, HeldInv
  <2>3. /\ Kernels!Cardinality(busy) = Cardinality(busy) /\ Kernels!Cardinality(inside) = Cardinality(inside)
        /\ Kernels!Cardinality(through) = Cardinality(through)
    BY KernelCounts, Zenon
  <2>4. /\ gate_free + Kernels!Cardinality(busy) = NodeCompute /\ in_flight = Kernels!Cardinality(inside)
        /\ tickets + Kernels!Cardinality(through) = NodeTickets
    <3> HIDE DEF busy, inside, through
    <3> QED BY <2>2, <2>3
  <2> QED BY <2>1, <2>4, Zenon DEF Kernels!NoIdleSlot
<1> QED BY <1>1, <1>2 DEF Kernels!ExecSound
------------------------------------------------------------------------------
(* The round of a layer (ExpertClient), k the name it goes by. A batch has no *)
(* local share (lumi_moe_apply_batch).                                        *)
RoundConstants(k) ==
    /\ Kind[k].experts \in Nat /\ Kind[k].here \in Nat /\ Kind[k].here < Kind[k].experts /\ Kind[k].batch \in BOOLEAN
       /\ (Kind[k].batch => Kind[k].here = 0)
    /\ IsFiniteSet(RoundPeer) /\ None \notin RoundPeer /\ Liar \subseteq RoundPeer
       /\ \A j \in Round(k)!Remote : Kind[k].owners[j] \subseteq RoundPeer
Tag == Nat \X Nat
Bytes(k) == [by : RoundPeer \cup {None}, tag : Tag, good : BOOLEAN]
CallRec(k) == [peer : RoundPeer \cup {None}, owes : Seq(Tag)]
RoundType(k) ==
    /\ round \in Nat /\ expert \in 1 .. Kind[k].experts + 1
       /\ round_pc \in {"idle", "issue", "collect", "check", "recheck", "retry", "publish", "died"}
    /\ calls \in [1 .. Kind[k].experts -> CallRec(k)] /\ hedge \in CallRec(k)
    /\ tried \in [1 .. Kind[k].experts -> SUBSET RoundPeer] /\ DOMAIN res = 1 .. Kind[k].experts
       /\ sum \in Seq(Bytes(k))
    /\ pooled \in [RoundPeer -> Seq({<<>>})] /\ inflight \in [RoundPeer -> Int]
    /\ standing \in [RoundPeer -> {"no", "quarantine", "due"}] /\ disputed \subseteq Bytes(k)
    /\ probes \in Int
Sockets(k) ==
    /\ calls \in [1 .. Kind[k].experts -> CallRec(k)] /\ hedge \in CallRec(k)
       /\ tried \in [1 .. Kind[k].experts -> SUBSET RoundPeer]
    /\ pooled \in [RoundPeer -> Seq({<<>>})] /\ inflight \in [RoundPeer -> Int]
Running(k) == round_pc \notin {"idle", "died"}
Got(k) == IF round_pc = "issue" THEN {}
          ELSE {j \in 1 .. Kind[k].experts : j \notin Round(k)!Remote \/ j < expert
               \/ (j = expert /\ round_pc \in {"check", "recheck", "publish"})}
CallOk(k, j) ==
    IF calls[j].peer = None THEN calls[j] = Round(k)!NoCall
    ELSE /\ calls[j].owes = <<<<round, j>>>> /\ calls[j].peer \in tried[j] /\ j \in Round(k)!Remote
         /\ round_pc # "idle" /\ standing[calls[j].peer] # "due"
         /\ IF round_pc = "issue" THEN j < expert ELSE j > expert \/ (j = expert /\ round_pc = "collect")
HedgeOk(k) ==
    IF hedge.peer = None THEN hedge = Round(k)!NoCall
    ELSE /\ hedge.owes = <<<<round, expert>>>> /\ hedge.peer # calls[expert].peer /\ standing[hedge.peer] # "due"
         /\ round_pc = "collect" /\ expert \in Round(k)!Remote /\ Kind[k].policy # "home"
CallInv(k) == HedgeOk(k) /\ \A j \in 1 .. Kind[k].experts : CallOk(k, j)
RoundCountInv(k) ==
    \A p \in RoundPeer : inflight[p] =
         Cardinality({j \in Round(k)!Open : calls[j].peer = p}) + (IF hedge.peer = p THEN 1 ELSE 0)
GotInv(k) == Running(k) =>
    /\ \A j \in Got(k) : res[j] \in Bytes(k) /\ res[j].tag = <<round, j>> /\ res[j] \notin disputed
    /\ (round_pc \notin {"issue", "publish"} => expert \in Round(k)!Remote)
       /\ (round_pc = "publish" => expert = Kind[k].experts - Kind[k].here)
    /\ round_pc = "check" => res[expert].by # None
DisputeInv(k) ==
    /\ \A d \in disputed : d.tag[1] <= round
    /\ Running(k) => \A d \in disputed : d.tag[1] = round =>
          /\ d.by # None /\ standing[d.by] = "quarantine" /\ d.tag[2] \in Round(k)!Remote /\ d.tag[2] <= expert
          /\ round_pc # "issue" /\ (round_pc \in {"collect", "check"} => d.tag[2] < expert)
OutInv(k) == Running(k) =>
    IF Kind[k].batch THEN /\ Len(sum)
                             = (IF round_pc = "issue" THEN 0 ELSE IF round_pc = "publish" THEN expert ELSE expert - 1)
                          /\ \A j \in 1 .. Len(sum) : sum[j] = res[j]
    ELSE sum = <<>>
RoundInv(k) == RoundType(k) /\ CallInv(k) /\ RoundCountInv(k) /\ GotInv(k) /\ DisputeInv(k) /\ OutInv(k)
     /\ Round(k)!SumIsOwn

\* The module of the round counts as this one does.
LEMMA RoundCounts == ASSUME NEW k PROVE \A S : Round(k)!Cardinality(S) = Cardinality(S)
  BY DEF Round!Cardinality, Cardinality

\* What a socket owes, and what is left in the pool.
LEMMA Socks ==
    ASSUME NEW k, RoundType(k), NEW p \in RoundPeer, NEW s \in Round(k)!lumi_take_sock(p)
    PROVE  s.owes = <<>> /\ s.left \in Seq({<<>>})
<1>1. pooled[p] \in Seq({<<>>})
  BY DEF RoundType
<1>2. CASE s = [owes |-> <<>>, left |-> <<>>]
  BY <1>2
<1>3. ASSUME NEW n \in 1 .. Len(pooled[p]), s = [owes |-> pooled[p][n], left |-> SubSeq(pooled[p], 1, n - 1)]
      PROVE  s.owes = <<>> /\ s.left \in Seq({<<>>})
  <2>1. pooled[p][n] \in {<<>>}
    BY <1>1
  <2>2. SubSeq(pooled[p], 1, n - 1) \in Seq({<<>>})
    <3>1. \A i \in 1 .. n - 1 : pooled[p][i] \in {<<>>}
      BY <1>1
    <3>2. n - 1 \in Nat /\ n - 1 <= Len(pooled[p])
      BY <1>1
    <3> QED BY <1>1, <3>1, <3>2
  <2> QED BY <1>3, <2>1, <2>2
<1> QED BY <1>2, <1>3 DEF Round!lumi_take_sock
LEMMA Requests ==
    ASSUME NEW k, RoundType(k), NEW p \in RoundPeer, NEW j \in 1 .. Kind[k].experts,
           NEW s \in Round(k)!lumi_send_exec(p, j)
    PROVE  /\ s.peer = p /\ s.owes = <<<<round, j>>>> /\ s.left \in Seq({<<>>})
           /\ Head(s.owes) = <<round, j>> /\ Tail(s.owes) = <<>> /\ <<round, j>> \in Tag
<1>1. PICK t \in Round(k)!lumi_take_sock(p) : s = [peer |-> p, owes |-> Append(t.owes, <<round, j>>), left |-> t.left]
  BY DEF Round!lumi_send_exec
<1>2. t.owes = <<>> /\ t.left \in Seq({<<>>})
  BY Socks
<1>3. Append(<<>>, <<round, j>>) = <<<<round, j>>>>
  OBVIOUS
<1>4. <<round, j>> \in Tag
  BY DEF RoundType, Tag
<1> QED BY <1>1, <1>2, <1>3, <1>4
LEMMA Pooled ==
    ASSUME NEW k, NEW pools \in [RoundPeer -> Seq({<<>>})], NEW p \in RoundPeer
    PROVE  Round(k)!lumi_put_sock(pools, p, <<>>) \in [RoundPeer -> Seq({<<>>})]
<1>1. Append(pools[p], <<>>) \in Seq({<<>>})
  OBVIOUS
<1> QED BY <1>1 DEF Round!lumi_put_sock
LEMMA Answers ==
    ASSUME NEW k, NEW p \in RoundPeer \cup {None}, NEW t \in Tag
    PROVE  Round(k)!Answer(p, t) \in Bytes(k) /\ Round(k)!Answer(p, t).by = p /\ Round(k)!Answer(p, t).tag = t
             /\ (p \notin Liar => Round(k)!Answer(p, t).good)
  BY DEF Round!Answer, Bytes

LEMMA Experts ==
    ASSUME NEW k, RoundConstants(k)
    PROVE  \A S \in SUBSET (1 .. Kind[k].experts) : IsFiniteSet(S) /\ Cardinality(S) \in Nat
<1>1. IsFiniteSet(1 .. Kind[k].experts)
  <2>1. 1 \in Int /\ Kind[k].experts \in Int
    BY DEF RoundConstants
  <2> QED BY <2>1, FS_Interval
<1> QED BY <1>1, FS_Subset, FS_CardinalityType

\* What closing every open call takes off the books.
LEMMA ClosedCounts ==
    ASSUME NEW k, inflight' = Round(k)!Closed(Round(k)!Open), NEW p \in RoundPeer
    PROVE  inflight'[p] = LET n == Cardinality({j \in Round(k)!Open : calls[j].peer = p}) IN
                          IF inflight[p] > n THEN inflight[p] - n ELSE 0
<1> DEFINE opened == {j \in Round(k)!Open : calls[j].peer = p}
           m == Round(k)!Cardinality(opened)
<1>1. inflight'[p] = IF inflight[p] > m THEN inflight[p] - m ELSE 0
  BY DEF Round!Closed
<1>2. m = Cardinality(opened)
  BY RoundCounts, Zenon
<1> HIDE DEF m
<1> QED BY <1>1, <1>2

\* The calls open at a peer, when those of one expert change.
LEMMA CallsMoved ==
    ASSUME NEW k, RoundConstants(k), RoundType(k), RoundCountInv(k), NEW i \in 1 .. Kind[k].experts,
           \A j \in (1 .. Kind[k].experts) \ {i} : calls'[j] = calls[j],
           \A p \in RoundPeer : inflight'[p] = inflight[p]
                + (IF calls'[i].peer = p THEN 1 ELSE 0) - (IF calls[i].peer = p THEN 1 ELSE 0)
                                               + (IF hedge'.peer = p THEN 1 ELSE 0) - (IF hedge.peer = p THEN 1
                                                    ELSE 0)
    PROVE  RoundCountInv(k)'
<1>1. ASSUME NEW p \in RoundPeer
      PROVE  inflight'[p] = Cardinality({j \in Round(k)!Open' : calls'[j].peer = p})
               + (IF hedge'.peer = p THEN 1 ELSE 0)
  <2> DEFINE A == {j \in Round(k)!Open : calls[j].peer = p}
             B == {j \in Round(k)!Open' : calls'[j].peer = p}
  <2>1. p # None
    BY DEF RoundConstants
  <2>2. A = {j \in 1 .. Kind[k].experts : calls[j].peer = p} /\ B = {j \in 1 .. Kind[k].experts : calls'[j].peer = p}
    BY <2>1 DEF Round!Open
  <2>3. A \in SUBSET (1 .. Kind[k].experts) /\ A \ {i} = B \ {i} /\ (i \in A <=> calls[i].peer = p)
          /\ (i \in B <=> calls'[i].peer = p)
    BY <2>2
  <2>4. IsFiniteSet(A)
    BY <2>3, Experts
  <2>5. inflight[p] = Cardinality(A) + (IF hedge.peer = p THEN 1 ELSE 0)
    BY DEF RoundCountInv
  <2>6. inflight'[p] = inflight[p] + (IF i \in B THEN 1 ELSE 0) - (IF i \in A THEN 1 ELSE 0)
                       + (IF hedge'.peer = p THEN 1 ELSE 0) - (IF hedge.peer = p THEN 1 ELSE 0)
    BY <2>3
  <2> HIDE DEF A, B
  <2>7. Cardinality(A) \in Nat /\ Cardinality(B) \in Nat
        /\ Cardinality(B) + (IF i \in A THEN 1 ELSE 0) = Cardinality(A) + (IF i \in B THEN 1 ELSE 0)
    BY <2>3, <2>4, CardShift
  <2>8. inflight'[p] = Cardinality(B) + (IF hedge'.peer = p THEN 1 ELSE 0)
    BY <2>5, <2>6, <2>7
  <2> QED BY <2>8 DEF B
<1> QED BY <1>1 DEF RoundCountInv

\* A peer is charged for the calls that are open.
LEMMA CallCounts ==
    ASSUME NEW k, RoundConstants(k), RoundType(k), RoundCountInv(k), NEW i \in 1 .. Kind[k].experts,
           NEW p \in RoundPeer
    PROVE  /\ inflight[p] \in Int
           /\ inflight[p] >= (IF calls[i].peer = p THEN 1 ELSE 0) + (IF hedge.peer = p THEN 1 ELSE 0)
<1> DEFINE A == {j \in Round(k)!Open : calls[j].peer = p}
<1>1. A \in SUBSET (1 .. Kind[k].experts) /\ (calls[i].peer = p => i \in A)
  BY DEF Round!Open, RoundConstants
<1>2. IsFiniteSet(A)
  BY <1>1, Experts
<1>3. inflight[p] = Cardinality(A) + (IF hedge.peer = p THEN 1 ELSE 0)
  BY DEF RoundCountInv
<1> HIDE DEF A
<1>4. Cardinality(A) \in Nat /\ (A # {} => Cardinality(A) # 0)
  BY <1>2, FS_CardinalityType, FS_EmptySet
<1> QED BY <1>1, <1>3, <1>4

\* The calls that are open in no way but the counts say so are closed.
LEMMA CallsEnd ==
    ASSUME NEW k, RoundConstants(k), RoundType(k), RoundCountInv(k), hedge.peer = None, hedge' = hedge,
           inflight' = Round(k)!Closed(Round(k)!Open), calls' = [j \in 1 .. Kind[k].experts |-> Round(k)!NoCall]
    PROVE  RoundCountInv(k)' /\ inflight' \in [RoundPeer -> Int] /\ calls' \in [1 .. Kind[k].experts -> CallRec(k)]
<1>1. ASSUME NEW p \in RoundPeer
      PROVE  inflight'[p] = 0 /\ Cardinality({j \in Round(k)!Open' : calls'[j].peer = p}) = 0 /\ hedge'.peer # p
  <2>1. p # None
    BY DEF RoundConstants
  <2>2. inflight[p] = Cardinality({j \in Round(k)!Open : calls[j].peer = p}) + 0
    BY <2>1 DEF RoundCountInv
  <2>3. inflight[p] \in Int
    BY DEF RoundType
  <2>4. inflight'[p] = LET n == Cardinality({j \in Round(k)!Open : calls[j].peer = p}) IN
                       IF inflight[p] > n THEN inflight[p] - n ELSE 0
    BY ClosedCounts
  <2>5. {j \in Round(k)!Open' : calls'[j].peer = p} = {}
    BY DEF Round!Open, Round!NoCall
  <2>6. Cardinality({}) = 0
    BY FS_EmptySet
  <2>7. inflight'[p] = 0
    <3> DEFINE n == Cardinality({j \in Round(k)!Open : calls[j].peer = p})
    <3>1. n \in Nat
      <4>1. {j \in Round(k)!Open : calls[j].peer = p} \in SUBSET (1 .. Kind[k].experts)
        BY DEF Round!Open
      <4> QED BY <4>1, Experts
    <3>2. inflight[p] = n + 0 /\ inflight'[p] = IF inflight[p] > n THEN inflight[p] - n ELSE 0
      BY <2>2, <2>4
    <3> HIDE DEF n
    <3> QED BY <3>1, <3>2
  <2> QED BY <2>1, <2>5, <2>6, <2>7
<1>2. RoundCountInv(k)'
  <2>1. \A p \in RoundPeer : inflight'[p] = Cardinality({j \in Round(k)!Open' : calls'[j].peer = p})
          + (IF hedge'.peer = p THEN 1 ELSE 0)
    <3> TAKE p \in RoundPeer
    <3>1. inflight'[p] = 0 /\ Cardinality({j \in Round(k)!Open' : calls'[j].peer = p}) = 0 /\ hedge'.peer # p
      BY <1>1
    <3> QED BY <3>1
  <2> QED BY <2>1 DEF RoundCountInv
<1>3. inflight' \in [RoundPeer -> Int]
  <2> DEFINE n(p) == Cardinality({j \in Round(k)!Open : calls[j].peer = p})
  <2>1. \A p \in RoundPeer : n(p) \in Nat
    <3> TAKE p \in RoundPeer
    <3>1. {j \in Round(k)!Open : calls[j].peer = p} \in SUBSET (1 .. Kind[k].experts)
      BY DEF Round!Open
    <3> QED BY <3>1, Experts
  <2>2. DOMAIN inflight' = RoundPeer /\ inflight' = [p \in DOMAIN inflight' |-> inflight'[p]]
        /\ \A p \in RoundPeer : inflight'[p] = IF inflight[p] > n(p) THEN inflight[p] - n(p) ELSE 0
    <3>1. DOMAIN inflight' = RoundPeer /\ inflight' = [p \in DOMAIN inflight' |-> inflight'[p]]
      BY DEF Round!Closed
    <3> QED BY <3>1, ClosedCounts
  <2> HIDE DEF n
  <2>3. \A p \in RoundPeer : inflight[p] \in Int
    BY DEF RoundType
  <2> QED BY <2>1, <2>2, <2>3
<1>4. Round(k)!NoCall \in CallRec(k)
  BY DEF Round!NoCall, CallRec
<1> QED BY <1>2, <1>3, <1>4

\* At the start no call is open.
LEMMA RoundStart == ASSUME NEW k, RoundConstants(k), Round(k)!Init PROVE RoundInv(k)
<1>1. RoundType(k)
  BY DEF Round!Init, RoundType, RoundConstants, CallRec, Round!NoCall, Tag
<1>2. CallInv(k)
  BY DEF Round!Init, CallInv, CallOk, HedgeOk, Round!NoCall
<1>3. RoundCountInv(k)
  <2>1. ASSUME NEW p \in RoundPeer
        PROVE  inflight[p] = Cardinality({j \in Round(k)!Open : calls[j].peer = p})
                 + (IF hedge.peer = p THEN 1 ELSE 0)
    <3>1. {j \in Round(k)!Open : calls[j].peer = p} = {} /\ hedge.peer # p /\ inflight[p] = 0
      BY DEF Round!Init, Round!NoCall, RoundConstants, Round!Open
    <3>2. Cardinality({}) = 0
      BY FS_EmptySet
    <3> DEFINE opened == {j \in Round(k)!Open : calls[j].peer = p}
    <3>3. opened = {} /\ hedge.peer # p /\ inflight[p] = 0
      BY <3>1
    <3> HIDE DEF opened
    <3>4. inflight[p] = Cardinality(opened) + (IF hedge.peer = p THEN 1 ELSE 0)
      BY <3>2, <3>3
    <3> QED BY <3>4, Zenon DEF opened
  <2> QED BY <2>1 DEF RoundCountInv
<1>4. GotInv(k) /\ DisputeInv(k) /\ OutInv(k) /\ Round(k)!SumIsOwn
  BY DEF Round!Init, GotInv, DisputeInv, OutInv, Round!SumIsOwn, Running
<1> QED BY <1>1, <1>2, <1>3, <1>4 DEF RoundInv

\* What the parts of the invariant ask of a step.
LEMMA RoundCountKept == ASSUME NEW k, RoundCountInv(k), UNCHANGED <<calls, hedge, inflight>> PROVE RoundCountInv(k)'
  BY DEF RoundCountInv, Round!Open
LEMMA DisputeKept ==
    ASSUME NEW k, RoundType(k), DisputeInv(k), UNCHANGED <<disputed, round>>, expert' \in Int,
           \A p \in RoundPeer : standing[p] = "quarantine" => standing'[p] = "quarantine",
           Running(k)' => /\ Running(k)
                          /\ round_pc = "issue" \/ /\ round_pc' # "issue" /\ expert' >= expert
                                                   /\ round_pc' \in {"collect", "check"}
                                                      => round_pc \in {"collect", "check"} \/ expert' > expert
    PROVE  DisputeInv(k)'
<1>1. \A d \in disputed : d.tag[1] <= round
  BY DEF DisputeInv
<1>2. ASSUME Running(k)', NEW d \in disputed, d.tag[1] = round
      PROVE  /\ d.by # None /\ standing'[d.by] = "quarantine" /\ d.tag[2] \in Round(k)!Remote /\ d.tag[2] <= expert'
             /\ round_pc' # "issue" /\ (round_pc' \in {"collect", "check"} => d.tag[2] < expert')
  <2>1. /\ d.by # None /\ standing[d.by] = "quarantine" /\ d.tag[2] \in Round(k)!Remote /\ d.tag[2] <= expert
        /\ round_pc # "issue" /\ (round_pc \in {"collect", "check"} => d.tag[2] < expert)
    BY <1>2 DEF DisputeInv
  <2>2. d.by \in RoundPeer /\ d.tag[2] \in Int
    BY <2>1 DEF RoundType, Bytes, Tag
  <2>3. expert \in Int
    BY DEF RoundType
  <2> QED BY <1>2, <2>1, <2>2, <2>3
<1> QED BY <1>1, <1>2 DEF DisputeInv
LEMMA GotKept ==
    ASSUME NEW k, GotInv(k), UNCHANGED <<res, round, disputed>>,
           Running(k)' => /\ Running(k) /\ Got(k)' \subseteq Got(k)
                             /\ (round_pc' = "check" => round_pc = "check" /\ expert' = expert)
                          /\ (round_pc' \notin {"issue", "publish"} => expert' \in Round(k)!Remote)
                             /\ (round_pc' = "publish" => expert' = Kind[k].experts - Kind[k].here)
    PROVE  GotInv(k)'
<1> SUFFICES ASSUME Running(k)' PROVE /\ \A j \in Got(k)' : res'[j] \in Bytes(k) /\ res'[j].tag = <<round', j>>
                                         /\ res'[j] \notin disputed'
                                      /\ (round_pc' \notin {"issue", "publish"} => expert' \in Round(k)!Remote)
                                         /\ (round_pc' = "publish" => expert' = Kind[k].experts - Kind[k].here)
                                      /\ round_pc' = "check" => res'[expert'].by # None
  BY DEF GotInv
<1>1. \A j \in Got(k)' : res'[j] \in Bytes(k) /\ res'[j].tag = <<round', j>> /\ res'[j] \notin disputed'
  BY DEF GotInv
<1>2. round_pc' = "check" => res'[expert'].by # None
  BY DEF GotInv
<1> QED BY <1>1, <1>2
LEMMA OutKept ==
    ASSUME NEW k, OutInv(k), UNCHANGED sum, \A j \in 1 .. Len(sum) : res'[j] = res[j],
           Running(k)' => Running(k) /\ (round_pc' = "issue" <=> round_pc = "issue")
                /\ (round_pc # "issue" => expert' = expert)
                          /\ round_pc # "publish" /\ round_pc' # "publish"
    PROVE  OutInv(k)'
  BY DEF OutInv

\* The pool after an attempt that failed.
LEMMA Dialed ==
    ASSUME NEW k, RoundType(k), NEW p \in RoundPeer, Round(k)!Unreachable(p) \/ Round(k)!SendFailed(p)
    PROVE  pooled' \in [RoundPeer -> Seq({<<>>})]
<1>1. CASE Round(k)!Unreachable(p)
  <2>1. pooled' = [pooled EXCEPT ![p] = <<>>] /\ <<>> \in Seq({<<>>})
    BY <1>1 DEF Round!Unreachable
  <2> QED BY <2>1 DEF RoundType
<1>2. CASE Round(k)!SendFailed(p)
  <2>1. PICK s \in Round(k)!lumi_take_sock(p) : pooled' = [pooled EXCEPT ![p] = s.left]
    BY <1>2 DEF Round!SendFailed
  <2> QED BY <2>1, Socks DEF RoundType
<1> QED BY <1>1, <1>2
LEMMA Picked ==
    ASSUME NEW k, RoundConstants(k), NEW j \in Round(k)!Remote, NEW p \in Round(k)!lumi_pick(j)
    PROVE  p \in RoundPeer /\ standing[p] = "no" /\ p \notin tried[j] /\ p # None
  BY DEF RoundConstants, Round!lumi_pick

\* A round starts.
LEMMA StartStep == ASSUME NEW k, RoundConstants(k), RoundInv(k), Round(k)!Start PROVE RoundInv(k)'
<1> USE DEF RoundInv
<1>1. /\ round_pc = "idle" /\ round' = round + 1 /\ round_pc' = "issue" /\ expert' = 1
      /\ tried' = [j \in 1 .. Kind[k].experts |-> {}] /\ res' = [j \in 1 .. Kind[k].experts |-> None] /\ sum' = <<>>
      /\ UNCHANGED <<calls, hedge, pooled, inflight, standing, probes, disputed>>
  BY DEF Round!Start, Round!swarm
<1>2. RoundType(k)'
  BY <1>1 DEF RoundType, RoundConstants
<1>3. \A j \in 1 .. Kind[k].experts : calls[j].peer = None /\ calls[j] = Round(k)!NoCall
  BY <1>1 DEF CallInv, CallOk
<1>4. hedge.peer = None /\ hedge = Round(k)!NoCall
  BY <1>1 DEF CallInv, HedgeOk
<1>5. CallInv(k)'
  BY <1>1, <1>3, <1>4 DEF CallInv, CallOk, HedgeOk
<1>6. RoundCountInv(k)'
  BY <1>1, RoundCountKept
<1>7. GotInv(k)'
  BY <1>1 DEF GotInv, Got
<1>8. DisputeInv(k)'
  <2>1. \A d \in disputed : d.tag[1] \in Nat /\ d.tag[1] <= round /\ round \in Nat
    BY DEF RoundType, DisputeInv, Bytes, Tag
  <2>2. \A d \in disputed : d.tag[1] <= round' /\ d.tag[1] # round'
    BY <1>1, <2>1
  <2> QED BY <1>1, <2>2 DEF DisputeInv
<1>9. OutInv(k)' /\ Round(k)!SumIsOwn'
  BY <1>1 DEF OutInv, Round!SumIsOwn
<1> QED BY <1>2, <1>5, <1>6, <1>7, <1>8, <1>9

\* An expert is sent to a replica, or to nobody.
LEMMA IssueStep == ASSUME NEW k, RoundConstants(k), RoundInv(k), Round(k)!Issue PROVE RoundInv(k)'
<1> USE DEF RoundInv
<1>1. /\ round_pc = "issue" /\ expert \in Round(k)!Remote
         /\ UNCHANGED <<round, round_pc, hedge, res, sum, standing, disputed, probes>>
  BY DEF Round!Issue, Round!swarm
<1>2. expert \in 1 .. Kind[k].experts /\ expert + 1 \in 1 .. Kind[k].experts + 1 /\ calls[expert].peer = None
        /\ calls[expert] = Round(k)!NoCall /\ hedge.peer = None /\ hedge = Round(k)!NoCall
  <2>1. expert \in 1 .. Kind[k].experts /\ expert + 1 \in 1 .. Kind[k].experts + 1
    BY <1>1 DEF RoundConstants, Round!Remote
  <2> QED BY <1>1, <2>1 DEF CallInv, CallOk, HedgeOk
<1>3. (expert' = expert \/ expert' = expert + 1) /\ Sockets(k)' /\ RoundCountInv(k)'
        /\ \A j \in 1 .. Kind[k].experts : CallOk(k, j)'
  <2>1. CASE Round(k)!lumi_pick(expert) = {} /\ expert' = expert + 1 /\ UNCHANGED <<tried, calls, pooled, inflight>>
    <3>1. RoundCountInv(k)'
      BY <1>1, <2>1, RoundCountKept
    <3>2. \A j \in 1 .. Kind[k].experts : CallOk(k, j)'
      BY <1>1, <1>2, <2>1 DEF CallInv, CallOk, RoundType
    <3> QED BY <1>1, <1>2, <2>1, <3>1, <3>2 DEF RoundType, Sockets
  <2>2. ASSUME NEW p \in Round(k)!lumi_pick(expert), tried' = [tried EXCEPT ![expert] = @ \cup {p}],
               (Round(k)!Unreachable(p) \/ Round(k)!SendFailed(p)) /\ UNCHANGED <<expert, calls, inflight>>
        PROVE  (expert' = expert \/ expert' = expert + 1) /\ Sockets(k)' /\ RoundCountInv(k)'
                 /\ \A j \in 1 .. Kind[k].experts : CallOk(k, j)'
    <3>1. p \in RoundPeer
      BY <1>1, Picked
    <3>2. tried' \in [1 .. Kind[k].experts -> SUBSET RoundPeer]
            /\ \A j \in 1 .. Kind[k].experts : tried[j] \subseteq tried'[j]
      BY <2>2, <3>1 DEF RoundType
    <3>3. pooled' \in [RoundPeer -> Seq({<<>>})]
      BY <2>2, <3>1, Dialed
    <3>4. RoundCountInv(k)'
      BY <1>1, <2>2, RoundCountKept
    <3>5. \A j \in 1 .. Kind[k].experts : CallOk(k, j)'
      BY <1>1, <2>2, <3>2 DEF CallInv, CallOk
    <3> QED BY <1>1, <2>2, <3>2, <3>3, <3>4, <3>5 DEF RoundType, Sockets
  <2>3. ASSUME NEW p \in Round(k)!lumi_pick(expert), tried' = [tried EXCEPT ![expert] = @ \cup {p}],
               NEW s \in Round(k)!lumi_send_exec(p, expert),
                    calls' = [calls EXCEPT ![expert] = [peer |-> p, owes |-> s.owes]],
               pooled' = [pooled EXCEPT ![p] = s.left], inflight' = Round(k)!Sent(inflight, p), expert' = expert + 1
        PROVE  (expert' = expert \/ expert' = expert + 1) /\ Sockets(k)' /\ RoundCountInv(k)'
                 /\ \A j \in 1 .. Kind[k].experts : CallOk(k, j)'
    <3>1. p \in RoundPeer /\ p # None /\ standing[p] = "no"
      BY <1>1, Picked
    <3>2. s.owes = <<<<round, expert>>>> /\ s.left \in Seq({<<>>}) /\ <<round, expert>> \in Tag
      BY <1>2, <3>1, Requests
    <3>3. /\ tried' \in [1 .. Kind[k].experts -> SUBSET RoundPeer]
             /\ \A j \in 1 .. Kind[k].experts : tried[j] \subseteq tried'[j]
          /\ p \in tried'[expert]
      BY <1>2, <2>3, <3>1 DEF RoundType
    <3>4. [peer |-> p, owes |-> s.owes] \in CallRec(k)
      BY <3>1, <3>2 DEF CallRec
    <3>5. calls' \in [1 .. Kind[k].experts -> CallRec(k)] /\ calls'[expert].peer = p
            /\ calls'[expert].owes = <<<<round, expert>>>>
          /\ \A j \in (1 .. Kind[k].experts) \ {expert} : calls'[j] = calls[j]
      BY <1>2, <2>3, <3>2, <3>4 DEF RoundType
    <3>6. pooled' \in [RoundPeer -> Seq({<<>>})]
      BY <2>3, <3>1, <3>2 DEF RoundType
    <3>7. \A q \in RoundPeer : inflight'[q] = inflight[q] + (IF q = p THEN 1 ELSE 0)
      BY <2>3 DEF RoundType, Round!Sent
    <3>8. inflight' \in [RoundPeer -> Int]
      BY <2>3, <3>1 DEF RoundType, Round!Sent
    <3>9. RoundCountInv(k)'
      <4>1. \A q \in RoundPeer : inflight'[q] = inflight[q]
              + (IF calls'[expert].peer = q THEN 1 ELSE 0) - (IF calls[expert].peer = q THEN 1 ELSE 0)
                                               + (IF hedge'.peer = q THEN 1 ELSE 0) - (IF hedge.peer = q THEN 1
                                                    ELSE 0)
        BY <1>1, <1>2, <3>5, <3>7 DEF RoundType, RoundConstants
      <4> QED BY <1>2, <3>5, <4>1, CallsMoved
    <3>10. \A j \in 1 .. Kind[k].experts : CallOk(k, j)'
      <4>1. ASSUME NEW j \in 1 .. Kind[k].experts, j = expert PROVE CallOk(k, j)'
        BY <1>1, <1>2, <2>3, <3>1, <3>2, <3>3, <3>5, <4>1 DEF CallOk
      <4>2. ASSUME NEW j \in 1 .. Kind[k].experts, j # expert PROVE CallOk(k, j)'
        BY <1>1, <1>2, <2>3, <3>3, <3>5, <4>2 DEF CallInv, CallOk, Round!Remote, RoundConstants
      <4> QED BY <4>1, <4>2
    <3> QED BY <1>1, <1>2, <2>3, <3>3, <3>5, <3>6, <3>8, <3>9, <3>10 DEF RoundType, Sockets
  <2> QED BY <2>1, <2>2, <2>3 DEF Round!Issue
<1>4. RoundType(k)'
  BY <1>1, <1>2, <1>3 DEF RoundType, Sockets
<1>5. CallInv(k)'
  BY <1>1, <1>2, <1>3 DEF CallInv, HedgeOk
<1>6. GotInv(k)'
  BY <1>1, GotKept DEF Got, Running
<1>7. DisputeInv(k)'
  <2>1. expert' \in Int
    BY <1>2, <1>3
  <2> QED BY <1>1, <2>1, DisputeKept DEF Running
<1>8. OutInv(k)' /\ Round(k)!SumIsOwn'
  BY <1>1, OutKept DEF Round!SumIsOwn, Running
<1> QED BY <1>3, <1>4, <1>5, <1>6, <1>7, <1>8

\* The fail label leaves nothing of the round.
LEMMA FailStep ==
    ASSUME NEW k, RoundConstants(k), RoundType(k), RoundCountInv(k), hedge = Round(k)!NoCall, Round(k)!Fail,
           UNCHANGED <<round, expert, hedge, tried>>,
           pooled' \in [RoundPeer -> Seq({<<>>})], standing' \in [RoundPeer -> {"no", "quarantine", "due"}],
                probes' \in Int,
           disputed' \subseteq Bytes(k), \A d \in disputed' : d.tag[1] <= round
    PROVE  RoundInv(k)'
<1>1. /\ inflight' = Round(k)!Closed(Round(k)!Open) /\ calls' = [j \in 1 .. Kind[k].experts |-> Round(k)!NoCall]
      /\ res' = [j \in 1 .. Kind[k].experts |-> None] /\ sum' = <<>> /\ round_pc' = "idle"
  BY DEF Round!Fail, Round!Restore
<1>2. RoundCountInv(k)' /\ inflight' \in [RoundPeer -> Int] /\ calls' \in [1 .. Kind[k].experts -> CallRec(k)]
  BY <1>1, CallsEnd DEF Round!NoCall
<1>3. RoundType(k)'
  BY <1>1, <1>2 DEF RoundType
<1>4. CallInv(k)'
  BY <1>1 DEF CallInv, CallOk, HedgeOk, Round!NoCall
<1>5. GotInv(k)' /\ DisputeInv(k)' /\ OutInv(k)' /\ Round(k)!SumIsOwn'
  BY <1>1 DEF GotInv, DisputeInv, OutInv, Round!SumIsOwn, Running
<1> QED BY <1>2, <1>3, <1>4, <1>5 DEF RoundInv

\* The calls of the expert the round is at.
LEMMA Known ==
    ASSUME NEW k, RoundConstants(k), RoundType(k), CallInv(k), expert \in Round(k)!Remote
    PROVE  /\ expert \in 1 .. Kind[k].experts /\ expert <= Kind[k].experts - Kind[k].here
              /\ calls[expert] \in CallRec(k) /\ hedge \in CallRec(k) /\ Round(k)!NoCall \in CallRec(k)
           /\ (calls[expert] = Round(k)!NoCall <=> calls[expert].peer = None)
              /\ (hedge = Round(k)!NoCall <=> hedge.peer = None)
           /\ (hedge.peer # None => hedge.peer # calls[expert].peer) /\ Round(k)!NoCall.peer = None
           /\ (calls[expert].peer # None => calls[expert].owes = <<<<round, expert>>>>
              /\ calls[expert].peer \in tried[expert])
           /\ (hedge.peer # None => hedge.owes = <<<<round, expert>>>>)
<1>1. expert \in 1 .. Kind[k].experts /\ expert <= Kind[k].experts - Kind[k].here
  BY DEF RoundConstants, Round!Remote
<1>2. CallOk(k, expert) /\ HedgeOk(k)
  BY <1>1 DEF CallInv
<1>3. Round(k)!NoCall \in CallRec(k) /\ Round(k)!NoCall.peer = None
  BY DEF Round!NoCall, CallRec
<1> QED BY <1>1, <1>2, <1>3 DEF CallOk, HedgeOk, RoundType
LEMMA OthersKept ==
    ASSUME NEW k, RoundConstants(k), CallInv(k), round_pc \in {"collect", "retry"},
           round_pc' \in {"collect", "retry", "check"},
           UNCHANGED <<expert, standing, round>>, \A j \in 1 .. Kind[k].experts : tried[j] \subseteq tried'[j],
           \A j \in (1 .. Kind[k].experts) \ {expert} :
                calls'[j] = calls[j], NEW i \in 1 .. Kind[k].experts, i # expert
    PROVE  CallOk(k, i)'
<1>1. CallOk(k, i) /\ calls'[i] = calls[i] /\ tried[i] \subseteq tried'[i]
  BY DEF CallInv
<1> QED BY <1>1 DEF CallOk
LEMMA CollectKept ==
    ASSUME NEW k, RoundConstants(k), RoundInv(k), round_pc = "collect", round_pc' \in {"collect", "retry"},
           expert \in Round(k)!Remote,
           UNCHANGED <<round, expert, res, sum, standing, disputed, probes>>, Sockets(k)', RoundCountInv(k)',
                     CallInv(k)'
    PROVE  RoundInv(k)'
<1> USE DEF RoundInv
<1>1. RoundType(k)'
  BY DEF RoundType, Sockets
<1>2. expert \in Int /\ expert \in 1 .. Kind[k].experts
  BY DEF RoundType, Round!Remote, RoundConstants
<1>3. GotInv(k)'
  BY GotKept DEF Got, Running
<1>4. DisputeInv(k)'
  BY <1>2, DisputeKept DEF Running
<1>5. OutInv(k)'
  BY OutKept DEF Running
<1>6. Round(k)!SumIsOwn'
  BY DEF Round!SumIsOwn
<1> QED BY <1>1, <1>3, <1>4, <1>5, <1>6

LEMMA ComputeStep == ASSUME NEW k, RoundConstants(k), RoundInv(k), Round(k)!Compute PROVE RoundInv(k)'
<1> USE DEF RoundInv
<1>1. /\ round_pc = "issue" /\ expert \notin Round(k)!Remote /\ round_pc' = "collect" /\ expert' = 1
      /\ res' = [j \in 1 .. Kind[k].experts |-> IF j \in Round(k)!Remote THEN None
         ELSE Round(k)!Answer(None, <<round, j>>)]
      /\ UNCHANGED <<round, calls, hedge, tried, sum, pooled, inflight, standing, disputed, probes>>
  BY DEF Round!Compute, Round!swarm
<1>2. 1 \in Round(k)!Remote /\ 1 \in 1 .. Kind[k].experts + 1
  BY DEF RoundConstants, Round!Remote
<1>3. RoundType(k)'
  BY <1>1, <1>2 DEF RoundType
<1>4. CallInv(k)'
  <2>1. \A j \in 1 .. Kind[k].experts : CallOk(k, j)'
    BY <1>1 DEF CallInv, CallOk
  <2>2. HedgeOk(k)'
    BY <1>1 DEF CallInv, HedgeOk
  <2> QED BY <2>1, <2>2 DEF CallInv
<1>5. RoundCountInv(k)'
  BY <1>1, RoundCountKept
<1>6. \A d \in disputed : d.tag[1] <= round /\ d.tag[1] # round
  BY <1>1 DEF DisputeInv, Running
<1>7. GotInv(k)'
  <2>1. ASSUME NEW j \in Got(k)' PROVE res'[j] \in Bytes(k) /\ res'[j].tag = <<round', j>> /\ res'[j] \notin disputed'
    <3>1. j \in 1 .. Kind[k].experts /\ j \notin Round(k)!Remote /\ res'[j] = Round(k)!Answer(None, <<round, j>>)
      BY <1>1, <2>1 DEF Got, RoundConstants
    <3>2. <<round, j>> \in Tag
      BY <3>1 DEF Tag, RoundType
    <3>3. res'[j] \in Bytes(k) /\ res'[j].tag = <<round, j>>
      <4>1. None \in RoundPeer \cup {None}
        OBVIOUS
      <4>2. Round(k)!Answer(None, <<round, j>>) \in Bytes(k) /\ Round(k)!Answer(None, <<round, j>>).tag = <<round, j>>
        BY <3>2, <4>1 DEF Round!Answer, Bytes
      <4> QED BY <3>1, <4>2
    <3> HIDE DEF RoundInv
    <3>4. res'[j].tag = <<round', j>>
      BY <1>1, <3>3
    <3>5. res'[j].tag[1] = round
      BY <3>3
    <3>6. res'[j] \notin disputed'
      BY <1>1, <1>6, <3>5
    <3> QED BY <3>3, <3>4, <3>6
  <2> QED BY <1>1, <1>2, <2>1 DEF GotInv
<1>8. DisputeInv(k)'
  BY <1>1, <1>6 DEF DisputeInv
<1>9. OutInv(k)' /\ Round(k)!SumIsOwn'
  BY <1>1 DEF OutInv, Round!SumIsOwn, Running
<1> QED BY <1>3, <1>4, <1>5, <1>7, <1>8, <1>9

LEMMA LocalFailsStep == ASSUME NEW k, RoundConstants(k), RoundInv(k), Round(k)!LocalFails PROVE RoundInv(k)'
<1>1. RoundType(k) /\ RoundCountInv(k) /\ hedge = Round(k)!NoCall /\ Round(k)!Fail
        /\ UNCHANGED <<round, expert, hedge, tried, pooled, standing, disputed, probes>>
  BY DEF RoundInv, Round!LocalFails, Round!swarm, CallInv, HedgeOk
<1>2. \A d \in disputed : d.tag[1] <= round
  BY DEF RoundInv, DisputeInv
<1> QED BY <1>1, <1>2, FailStep DEF RoundType

\* One more replica is asked: not the one that was.
LEMMA HedgeStep == ASSUME NEW k, RoundConstants(k), RoundInv(k), Round(k)!Hedge PROVE RoundInv(k)'
<1> USE DEF RoundInv
<1>1. /\ round_pc = "collect" /\ expert \in Round(k)!Open /\ hedge = Round(k)!NoCall /\ Kind[k].policy # "home"
      /\ UNCHANGED <<round, round_pc, expert, calls, res, sum, standing, disputed, probes>>
  BY DEF Round!Hedge, Round!swarm
<1>2. expert \in Round(k)!Remote /\ expert \in 1 .. Kind[k].experts
  BY <1>1 DEF Round!Open, CallInv, CallOk
<1>3. Sockets(k)' /\ RoundCountInv(k)' /\ CallInv(k)'
  <2>1. ASSUME NEW p \in Round(k)!lumi_pick(expert), tried' = [tried EXCEPT ![expert] = @ \cup {p}],
               (Round(k)!Unreachable(p) \/ Round(k)!SendFailed(p)) /\ UNCHANGED <<hedge, inflight>>
        PROVE  Sockets(k)' /\ RoundCountInv(k)' /\ CallInv(k)'
    <3>1. p \in RoundPeer
      BY <1>2, Picked
    <3>2. tried' \in [1 .. Kind[k].experts -> SUBSET RoundPeer]
            /\ \A j \in 1 .. Kind[k].experts : tried[j] \subseteq tried'[j]
      BY <2>1, <3>1 DEF RoundType
    <3>3. pooled' \in [RoundPeer -> Seq({<<>>})]
      BY <2>1, <3>1, Dialed
    <3>4. RoundCountInv(k)'
      BY <1>1, <2>1, RoundCountKept
    <3>5. CallInv(k)'
      <4>1. \A j \in 1 .. Kind[k].experts : CallOk(k, j)'
        BY <1>1, <2>1, <3>2 DEF CallInv, CallOk
      <4>2. HedgeOk(k)'
        BY <1>1, <2>1 DEF CallInv, HedgeOk
      <4> QED BY <4>1, <4>2 DEF CallInv
    <3> QED BY <1>1, <2>1, <3>2, <3>3, <3>4, <3>5 DEF RoundType, Sockets
  <2>2. ASSUME NEW p \in Round(k)!lumi_pick(expert), tried' = [tried EXCEPT ![expert] = @ \cup {p}],
               NEW s \in Round(k)!lumi_send_exec(p, expert), hedge' = [peer |-> p, owes |-> s.owes],
               pooled' = [pooled EXCEPT ![p] = s.left], inflight' = Round(k)!Sent(inflight, p)
        PROVE  Sockets(k)' /\ RoundCountInv(k)' /\ CallInv(k)'
    <3>1. p \in RoundPeer /\ p # None /\ standing[p] = "no" /\ p \notin tried[expert]
      BY <1>2, Picked
    <3>2. s.owes = <<<<round, expert>>>> /\ s.left \in Seq({<<>>}) /\ <<round, expert>> \in Tag
      BY <1>2, <3>1, Requests
    <3>3. tried' \in [1 .. Kind[k].experts -> SUBSET RoundPeer]
            /\ \A j \in 1 .. Kind[k].experts : tried[j] \subseteq tried'[j]
      BY <1>2, <2>2, <3>1 DEF RoundType
    <3>4. hedge' \in CallRec(k) /\ hedge'.peer = p /\ hedge'.owes = <<<<round, expert>>>>
      BY <2>2, <3>1, <3>2 DEF CallRec
    <3>5. pooled' \in [RoundPeer -> Seq({<<>>})]
      BY <2>2, <3>1, <3>2 DEF RoundType
    <3>6. inflight' \in [RoundPeer -> Int]
            /\ \A q \in RoundPeer : inflight'[q] = inflight[q] + (IF q = p THEN 1 ELSE 0)
      BY <2>2, <3>1 DEF RoundType, Round!Sent
    <3>7. hedge.peer = None /\ calls[expert].peer # p
      BY <1>1, <1>2, <3>1, Known
    <3>8. RoundCountInv(k)'
      <4>1. \A q \in RoundPeer : inflight'[q] = inflight[q]
              + (IF calls'[expert].peer = q THEN 1 ELSE 0) - (IF calls[expert].peer = q THEN 1 ELSE 0)
                                               + (IF hedge'.peer = q THEN 1 ELSE 0) - (IF hedge.peer = q THEN 1
                                                    ELSE 0)
        <5> TAKE q \in RoundPeer
        <5>1. inflight[q] \in Int /\ inflight'[q] = inflight[q] + (IF q = p THEN 1 ELSE 0) /\ q # None
          BY <3>6 DEF RoundType, RoundConstants
        <5>2. calls'[expert] = calls[expert]
          BY <1>1
        <5> QED BY <3>4, <3>7, <5>1, <5>2
      <4>2. \A j \in (1 .. Kind[k].experts) \ {expert} : calls'[j] = calls[j]
        BY <1>1
      <4> QED BY <1>2, <4>1, <4>2, CallsMoved
    <3>9. CallInv(k)'
      <4>1. \A j \in 1 .. Kind[k].experts : CallOk(k, j)'
        BY <1>1, <3>3 DEF CallInv, CallOk
      <4>2. HedgeOk(k)'
        BY <1>1, <1>2, <3>1, <3>4, <3>7 DEF HedgeOk
      <4> QED BY <4>1, <4>2 DEF CallInv
    <3> QED BY <1>1, <3>3, <3>4, <3>5, <3>6, <3>8, <3>9 DEF RoundType, Sockets
  <2> QED BY <2>1, <2>2 DEF Round!Hedge
<1> QED BY <1>1, <1>2, <1>3, CollectKept

\* The first frame is the answer; the rival socket is closed.
LEMMA RoundReceiveStep ==
    ASSUME NEW k, RoundConstants(k), RoundInv(k), expert \in Round(k)!Remote, NEW from, NEW rival,
           Round(k)!Receive(from, rival),
           (from = calls[expert] /\ rival = hedge) \/ (from = hedge /\ rival = calls[expert])
    PROVE  RoundInv(k)'
<1> USE DEF RoundInv
<1>1. /\ round_pc = "collect" /\ from # Round(k)!NoCall /\ round_pc' = "check" /\ hedge' = Round(k)!NoCall
      /\ res' = [res EXCEPT ![expert] = Round(k)!Answer(from.peer, Head(from.owes))]
      /\ calls' = [calls EXCEPT ![expert] = Round(k)!NoCall]
      /\ pooled' = Round(k)!lumi_put_sock(pooled, from.peer, Tail(from.owes))
      /\ inflight' = IF rival = Round(k)!NoCall THEN Round(k)!Done(inflight, from.peer)
                     ELSE Round(k)!Done(Round(k)!Done(inflight, from.peer), rival.peer)
      /\ UNCHANGED <<round, expert, tried, sum, standing, disputed, probes>>
  BY DEF Round!Receive, Round!Loser, Round!swarm
<1>2. /\ expert \in 1 .. Kind[k].experts /\ expert \in Int /\ calls[expert] \in CallRec(k) /\ hedge \in CallRec(k)
         /\ Round(k)!NoCall \in CallRec(k) /\ Round(k)!NoCall.peer = None
      /\ (calls[expert] = Round(k)!NoCall <=> calls[expert].peer = None)
         /\ (hedge = Round(k)!NoCall <=> hedge.peer = None)
      /\ (hedge.peer # None => hedge.peer # calls[expert].peer)
  BY Known
<1>3. from.owes = <<<<round, expert>>>> /\ from.peer # None /\ from.peer \in RoundPeer
        /\ (rival # Round(k)!NoCall => rival.peer \in RoundPeer /\ rival.peer # from.peer)
  BY <1>1, <1>2, Known DEF CallRec
<1>4. Head(from.owes) = <<round, expert>> /\ Tail(from.owes) = <<>> /\ <<round, expert>> \in Tag
  BY <1>3 DEF RoundType, Tag
<1>5. calls' \in [1 .. Kind[k].experts -> CallRec(k)] /\ calls'[expert] = Round(k)!NoCall
        /\ \A j \in (1 .. Kind[k].experts) \ {expert} : calls'[j] = calls[j]
  BY <1>1, <1>2 DEF RoundType
<1>6. pooled' \in [RoundPeer -> Seq({<<>>})]
  BY <1>1, <1>3, <1>4, Pooled DEF RoundType
<1>7. \A p \in RoundPeer : inflight'[p]
        = inflight[p] - (IF calls[expert].peer = p THEN 1 ELSE 0) - (IF hedge.peer = p THEN 1 ELSE 0)
  <2> TAKE p \in RoundPeer
  <2>1. inflight[p] \in Int /\ inflight[p] >= (IF calls[expert].peer = p THEN 1 ELSE 0)
          + (IF hedge.peer = p THEN 1 ELSE 0)
    BY <1>2, CallCounts
  <2>2. inflight'[p] = inflight[p] - (IF from.peer = p THEN 1 ELSE 0) - (IF rival.peer = p THEN 1 ELSE 0)
    <3>1. p # None
      BY DEF RoundConstants
    <3>2. CASE rival = Round(k)!NoCall
      <4>1. inflight' = Round(k)!Done(inflight, from.peer)
        BY <1>1, <3>2
      <4>2. inflight'[p] = IF p = from.peer THEN (IF inflight[p] > 0 THEN inflight[p] - 1 ELSE 0) ELSE inflight[p]
        BY <1>3, <4>1 DEF Round!Done, RoundType
      <4>3. from.peer = p => inflight[p] >= 1
        BY <2>1
      <4>4. rival.peer # p
        BY <1>2, <3>1, <3>2
      <4> QED BY <2>1, <4>2, <4>3, <4>4
    <3>3. CASE rival # Round(k)!NoCall
      <4> DEFINE once == Round(k)!Done(inflight, from.peer)
      <4>1. inflight' = Round(k)!Done(once, rival.peer)
        BY <1>1, <3>3
      <4>2. once \in [RoundPeer -> Int]
        BY <1>3 DEF Round!Done, RoundType
      <4>3. once[p] = IF p = from.peer THEN (IF inflight[p] > 0 THEN inflight[p] - 1 ELSE 0) ELSE inflight[p]
        BY <1>3 DEF Round!Done, RoundType
      <4> HIDE DEF once
      <4>4. inflight'[p] = IF p = rival.peer THEN (IF once[p] > 0 THEN once[p] - 1 ELSE 0) ELSE once[p]
        BY <4>1, <4>2 DEF Round!Done
      <4>5. from.peer # rival.peer
        BY <1>3, <3>3
      <4>6. (from.peer = p \/ rival.peer = p) => inflight[p] >= 1
        BY <2>1
      <4> QED BY <2>1, <4>3, <4>4, <4>5, <4>6
    <3> QED BY <3>2, <3>3
  <2> QED BY <2>1, <2>2
<1>8. inflight' \in [RoundPeer -> Int]
  <2>1. CASE rival = Round(k)!NoCall
    BY <1>1, <1>3, <2>1 DEF Round!Done, RoundType
  <2>2. CASE rival # Round(k)!NoCall
    <3> DEFINE once == Round(k)!Done(inflight, from.peer)
    <3>1. once \in [RoundPeer -> Int]
      BY <1>3 DEF Round!Done, RoundType
    <3>2. inflight' = Round(k)!Done(once, rival.peer)
      BY <1>1, <2>2
    <3> HIDE DEF once
    <3> QED BY <1>3, <2>2, <3>1, <3>2 DEF Round!Done
  <2> QED BY <2>1, <2>2
<1>9. RoundCountInv(k)'
  <2>1. \A p \in RoundPeer : inflight'[p] = inflight[p]
          + (IF calls'[expert].peer = p THEN 1 ELSE 0) - (IF calls[expert].peer = p THEN 1 ELSE 0)
                                           + (IF hedge'.peer = p THEN 1 ELSE 0) - (IF hedge.peer = p THEN 1 ELSE 0)
    <3> TAKE p \in RoundPeer
    <3>1. inflight[p] \in Int /\ inflight'[p]
            = inflight[p] - (IF calls[expert].peer = p THEN 1 ELSE 0) - (IF hedge.peer = p THEN 1 ELSE 0)
      BY <1>7 DEF RoundType
    <3>2. p # None /\ calls'[expert].peer = None /\ hedge'.peer = None
      BY <1>1, <1>2, <1>5 DEF RoundConstants
    <3> QED BY <3>1, <3>2
  <2> QED BY <1>2, <1>5, <2>1, CallsMoved
<1>10. res'[expert] = Round(k)!Answer(from.peer, <<round, expert>>) /\ DOMAIN res' = 1 .. Kind[k].experts
         /\ \A j \in (1 .. Kind[k].experts) \ {expert} : res'[j] = res[j]
  BY <1>1, <1>2, <1>4 DEF RoundType
<1>11. RoundType(k)'
  BY <1>1, <1>2, <1>5, <1>6, <1>8, <1>10 DEF RoundType
<1>12. CallInv(k)'
  <2>1. ASSUME NEW j \in 1 .. Kind[k].experts, j = expert PROVE CallOk(k, j)'
    BY <1>2, <1>5, <2>1 DEF CallOk
  <2>2. ASSUME NEW j \in 1 .. Kind[k].experts, j # expert PROVE CallOk(k, j)'
    BY <1>1, <1>5, <2>2, OthersKept
  <2>3. HedgeOk(k)'
    BY <1>1, <1>2 DEF HedgeOk
  <2> QED BY <2>1, <2>2, <2>3 DEF CallInv
<1>13. \A d \in disputed : d.tag[1] = round => d.tag[2] < expert
  BY <1>1 DEF DisputeInv, Running
<1>14. GotInv(k)'
  <2>1. ASSUME NEW j \in Got(k)' PROVE res'[j] \in Bytes(k) /\ res'[j].tag = <<round', j>> /\ res'[j] \notin disputed'
    <3>1. CASE j = expert
      <4>1. res'[j] \in Bytes(k) /\ res'[j].tag = <<round, j>>
        BY <1>3, <1>4, <1>10, <3>1, Answers
      <4>2. res'[j] \notin disputed
        BY <1>2, <1>13, <3>1, <4>1
      <4> QED BY <1>1, <4>1, <4>2
    <3>2. CASE j # expert
      <4>1. j \in Got(k) /\ j \in 1 .. Kind[k].experts
        BY <1>1, <2>1, <3>2 DEF Got
      <4> QED BY <1>1, <1>10, <3>2, <4>1 DEF GotInv, Running
    <3> QED BY <3>1, <3>2
  <2>2. res'[expert].by # None
    BY <1>3, <1>4, <1>10, Answers
  <2> QED BY <1>1, <2>1, <2>2 DEF GotInv
<1>15. DisputeInv(k)'
  BY <1>1, <1>2, DisputeKept DEF Running
<1>16. OutInv(k)'
  <2>1. \A j \in 1 .. Len(sum) : res'[j] = res[j]
    <3>1. CASE Kind[k].batch
      <4>1. Len(sum) = expert - 1
        BY <1>1, <3>1 DEF OutInv, Running
      <4> QED BY <1>2, <1>10, <4>1 DEF RoundConstants
    <3>2. CASE ~Kind[k].batch
      BY <1>1, <3>2 DEF OutInv, Running
    <3> QED BY <3>1, <3>2
  <2> QED BY <1>1, <2>1, OutKept DEF Running
<1>17. Round(k)!SumIsOwn'
  BY <1>1 DEF Round!SumIsOwn
<1> QED BY <1>9, <1>11, <1>12, <1>14, <1>15, <1>16, <1>17

\* A socket breaks.
LEMMA BreakStep ==
    ASSUME NEW k, RoundConstants(k), RoundInv(k), expert \in Round(k)!Remote, NEW primary \in BOOLEAN,
           Round(k)!Break(primary)
    PROVE  RoundInv(k)'
<1> USE DEF RoundInv
<1> DEFINE lost == IF primary THEN calls[expert] ELSE hedge
           rival == IF primary THEN hedge ELSE calls[expert]
<1>1. round_pc = "collect" /\ lost # Round(k)!NoCall
        /\ UNCHANGED <<round, expert, tried, res, sum, pooled, standing, disputed, probes>>
  BY DEF Round!Break, Round!swarm
<1>2. /\ expert \in 1 .. Kind[k].experts /\ calls[expert] \in CallRec(k) /\ hedge \in CallRec(k)
         /\ Round(k)!NoCall \in CallRec(k) /\ Round(k)!NoCall.peer = None
      /\ (calls[expert] = Round(k)!NoCall <=> calls[expert].peer = None)
         /\ (hedge = Round(k)!NoCall <=> hedge.peer = None)
      /\ (hedge.peer # None => hedge.peer # calls[expert].peer)
         /\ (calls[expert].peer # None => calls[expert].owes = <<<<round, expert>>>>)
  BY Known
<1>3. CASE Kind[k].policy = "home" /\ calls' = [calls EXCEPT ![expert].owes = <<<<round, expert>>>>]
        /\ UNCHANGED <<hedge, inflight, round_pc>>
  <2>1. hedge.peer = None /\ calls[expert].peer # None
    BY <1>1, <1>2, <1>3 DEF CallInv, HedgeOk
  <2>2. <<<<round, expert>>>> \in Seq(Tag)
    BY DEF RoundType, Tag
  <2>3. [calls[expert] EXCEPT !.owes = <<<<round, expert>>>>] \in CallRec(k)
    BY <1>2, <2>2 DEF CallRec
  <2>4. calls' = [calls EXCEPT ![expert] = [calls[expert] EXCEPT !.owes = <<<<round, expert>>>>]]
    BY <1>3
  <2>5. /\ calls' \in [1 .. Kind[k].experts -> CallRec(k)] /\ calls'[expert].peer = calls[expert].peer
           /\ calls'[expert].owes = <<<<round, expert>>>>
        /\ \A j \in (1 .. Kind[k].experts) \ {expert} : calls'[j] = calls[j]
    <3>1. [calls[expert] EXCEPT !.owes = <<<<round, expert>>>>].peer = calls[expert].peer
            /\ [calls[expert] EXCEPT !.owes = <<<<round, expert>>>>].owes = <<<<round, expert>>>>
      BY <1>2 DEF CallRec
    <3> QED BY <1>2, <2>3, <2>4, <3>1 DEF RoundType
  <2>6. RoundCountInv(k)'
    <3>1. \A p \in RoundPeer : inflight'[p] = inflight[p]
            + (IF calls'[expert].peer = p THEN 1 ELSE 0) - (IF calls[expert].peer = p THEN 1 ELSE 0)
                                             + (IF hedge'.peer = p THEN 1 ELSE 0) - (IF hedge.peer = p THEN 1 ELSE 0)
      <4> TAKE p \in RoundPeer
      <4>1. inflight[p] \in Int /\ inflight'[p] = inflight[p] /\ calls'[expert].peer = calls[expert].peer
              /\ hedge'.peer = hedge.peer
        BY <1>3, <2>5 DEF RoundType
      <4> QED BY <4>1
    <3> QED BY <1>2, <2>5, <3>1, CallsMoved
  <2>7. CallInv(k)'
    <3>1. ASSUME NEW j \in 1 .. Kind[k].experts, j = expert PROVE CallOk(k, j)'
      <4>1. CallOk(k, j)
        BY DEF CallInv
      <4> QED BY <1>1, <1>3, <2>1, <2>5, <3>1, <4>1 DEF CallOk
    <3>2. ASSUME NEW j \in 1 .. Kind[k].experts, j # expert PROVE CallOk(k, j)'
      BY <1>1, <1>3, <2>5, <3>2, OthersKept
    <3>3. HedgeOk(k)'
      BY <1>3, <2>1 DEF HedgeOk, CallInv
    <3> QED BY <3>1, <3>2, <3>3 DEF CallInv
  <2>8. Sockets(k)'
    BY <1>1, <1>3, <2>5 DEF RoundType, Sockets
  <2> QED BY <1>1, <1>3, <2>6, <2>7, <2>8, CollectKept
<1>4. CASE /\ inflight' = Round(k)!Done(inflight, lost.peer)
              /\ round_pc' = IF rival = Round(k)!NoCall THEN "retry" ELSE "collect"
           /\ IF primary THEN calls' = [calls EXCEPT ![expert] = Round(k)!NoCall] /\ UNCHANGED hedge
              ELSE hedge' = Round(k)!NoCall /\ UNCHANGED calls
  <2>1. lost.peer \in RoundPeer /\ (rival.peer # None <=> rival # Round(k)!NoCall)
    BY <1>1, <1>2 DEF CallRec
  <2>2. /\ calls' \in [1 .. Kind[k].experts -> CallRec(k)] /\ hedge' \in CallRec(k)
           /\ \A j \in (1 .. Kind[k].experts) \ {expert} : calls'[j] = calls[j]
        /\ IF primary THEN calls'[expert] = Round(k)!NoCall /\ hedge' = hedge ELSE hedge' = Round(k)!NoCall
           /\ calls'[expert] = calls[expert]
    BY <1>2, <1>4 DEF RoundType
  <2>3. inflight' \in [RoundPeer -> Int]
          /\ \A p \in RoundPeer : inflight'[p] = inflight[p] - (IF lost.peer = p THEN 1 ELSE 0)
    <3>1. inflight[lost.peer] \in Int /\ inflight[lost.peer] >= 1
      <4>1. inflight[lost.peer] \in Int
            /\ inflight[lost.peer] >= (IF calls[expert].peer = lost.peer THEN 1 ELSE 0)
               + (IF hedge.peer = lost.peer THEN 1 ELSE 0)
        BY <1>2, <2>1, CallCounts
      <4> QED BY <4>1
    <3> HIDE DEF lost, rival
    <3>2. inflight' = [inflight EXCEPT ![lost.peer] = IF @ > 0 THEN @ - 1 ELSE 0]
      BY <1>4 DEF Round!Done
    <3> QED BY <2>1, <3>1, <3>2 DEF RoundType
  <2>4. RoundCountInv(k)'
    <3>1. \A p \in RoundPeer : inflight'[p] = inflight[p]
            + (IF calls'[expert].peer = p THEN 1 ELSE 0) - (IF calls[expert].peer = p THEN 1 ELSE 0)
                                             + (IF hedge'.peer = p THEN 1 ELSE 0) - (IF hedge.peer = p THEN 1 ELSE 0)
      <4> TAKE p \in RoundPeer
      <4>1. inflight[p] \in Int /\ p # None
        BY DEF RoundType, RoundConstants
      <4>2. inflight'[p] = inflight[p] - (IF lost.peer = p THEN 1 ELSE 0)
        BY <2>3
      <4>3. IF primary THEN calls'[expert].peer = None /\ hedge'.peer = hedge.peer /\ lost.peer = calls[expert].peer
            ELSE hedge'.peer = None /\ calls'[expert].peer = calls[expert].peer /\ lost.peer = hedge.peer
        BY <1>2, <2>2
      <4> HIDE DEF lost, rival
      <4> QED BY <4>1, <4>2, <4>3
    <3> QED BY <1>2, <2>2, <3>1, CallsMoved
  <2>5. CallInv(k)'
    <3>1. ASSUME NEW j \in 1 .. Kind[k].experts, j = expert PROVE CallOk(k, j)'
      <4>1. CallOk(k, j)
        BY DEF CallInv
      <4>2. CASE primary
        BY <1>2, <2>2, <3>1, <4>2 DEF CallOk
      <4>3. CASE ~primary
        <5>1. calls'[j] = calls[j] /\ (calls[j].peer # None => round_pc' = "collect")
          BY <1>2, <1>4, <2>1, <2>2, <3>1, <4>3
        <5> QED BY <1>1, <3>1, <4>1, <5>1 DEF CallOk
      <4> QED BY <4>2, <4>3
    <3>2. ASSUME NEW j \in 1 .. Kind[k].experts, j # expert PROVE CallOk(k, j)'
      BY <1>1, <1>4, <2>2, <3>2, OthersKept
    <3>3. HedgeOk(k)'
      <4>1. HedgeOk(k)
        BY DEF CallInv
      <4>2. CASE primary
        <5>1. hedge' = hedge /\ calls'[expert].peer = None /\ (hedge.peer # None => round_pc' = "collect")
          BY <1>2, <1>4, <2>2, <4>2
        <5> QED BY <1>1, <4>1, <5>1 DEF HedgeOk
      <4>3. CASE ~primary
        BY <1>2, <2>2, <4>3 DEF HedgeOk
      <4> QED BY <4>2, <4>3
    <3> QED BY <3>1, <3>2, <3>3 DEF CallInv
  <2>6. Sockets(k)'
    BY <1>1, <2>2, <2>3 DEF RoundType, Sockets
  <2>7. round_pc' \in {"collect", "retry"}
    BY <1>4
  <2> QED BY <1>1, <2>4, <2>5, <2>6, <2>7, CollectKept
<1> QED BY <1>1, <1>3, <1>4 DEF Round!Break

LEMMA TimeoutStep == ASSUME NEW k, RoundConstants(k), RoundInv(k), Round(k)!Timeout PROVE RoundInv(k)'
<1> USE DEF RoundInv
<1> DEFINE silent == {calls[expert].peer, hedge.peer} \ {None}
<1>1. /\ round_pc = "collect" /\ expert \in Round(k)!Remote /\ round_pc' = "retry" /\ hedge' = Round(k)!NoCall
         /\ calls' = [calls EXCEPT ![expert] = Round(k)!NoCall]
      /\ inflight' = [p \in RoundPeer |-> IF p \in silent /\ inflight[p] > 0 THEN inflight[p] - 1 ELSE inflight[p]]
      /\ UNCHANGED <<round, expert, tried, res, sum, pooled, standing, disputed, probes>>
  BY DEF Round!Timeout, Round!swarm
<1>2. /\ expert \in 1 .. Kind[k].experts /\ Round(k)!NoCall \in CallRec(k) /\ Round(k)!NoCall.peer = None
         /\ (hedge.peer # None => hedge.peer # calls[expert].peer)
  BY <1>1, Known
<1>3. calls' \in [1 .. Kind[k].experts -> CallRec(k)] /\ calls'[expert] = Round(k)!NoCall
        /\ \A j \in (1 .. Kind[k].experts) \ {expert} : calls'[j] = calls[j]
  BY <1>1, <1>2 DEF RoundType
<1>4. inflight' \in [RoundPeer -> Int]
  BY <1>1 DEF RoundType
<1>5. RoundCountInv(k)'
  <2>1. \A p \in RoundPeer : inflight'[p] = inflight[p]
          + (IF calls'[expert].peer = p THEN 1 ELSE 0) - (IF calls[expert].peer = p THEN 1 ELSE 0)
                                           + (IF hedge'.peer = p THEN 1 ELSE 0) - (IF hedge.peer = p THEN 1 ELSE 0)
    <3> TAKE p \in RoundPeer
    <3>1. inflight[p] \in Int /\ inflight[p] >= (IF calls[expert].peer = p THEN 1 ELSE 0)
            + (IF hedge.peer = p THEN 1 ELSE 0)
      BY <1>2, CallCounts
    <3>2. p # None /\ calls'[expert].peer = None /\ hedge'.peer = None
      BY <1>1, <1>2, <1>3 DEF RoundConstants
    <3>3. p \in silent <=> calls[expert].peer = p \/ hedge.peer = p
      BY <3>2
    <3>4. ~(calls[expert].peer = p /\ hedge.peer = p)
      BY <1>2, <3>2
    <3>5. inflight'[p] = IF p \in silent /\ inflight[p] > 0 THEN inflight[p] - 1 ELSE inflight[p]
      BY <1>1
    <3> HIDE DEF silent
    <3> QED BY <3>1, <3>2, <3>3, <3>4, <3>5
  <2> QED BY <1>2, <1>3, <2>1, CallsMoved
<1>6. CallInv(k)'
  <2>1. ASSUME NEW j \in 1 .. Kind[k].experts, j = expert PROVE CallOk(k, j)'
    BY <1>2, <1>3, <2>1 DEF CallOk
  <2>2. ASSUME NEW j \in 1 .. Kind[k].experts, j # expert PROVE CallOk(k, j)'
    BY <1>1, <1>3, <2>2, OthersKept
  <2>3. HedgeOk(k)'
    BY <1>1, <1>2 DEF HedgeOk
  <2> QED BY <2>1, <2>2, <2>3 DEF CallInv
<1>7. Sockets(k)'
  BY <1>1, <1>2, <1>3, <1>4 DEF RoundType, Sockets
<1> QED BY <1>1, <1>5, <1>6, <1>7, CollectKept
LEMMA UnsentStep == ASSUME NEW k, RoundConstants(k), RoundInv(k), Round(k)!Unsent PROVE RoundInv(k)'
<1> USE DEF RoundInv
<1>1. /\ round_pc = "collect" /\ expert \in Round(k)!Remote /\ calls[expert] = Round(k)!NoCall
         /\ hedge = Round(k)!NoCall /\ round_pc' = "retry"
      /\ UNCHANGED <<round, expert, calls, hedge, tried, res, sum, pooled, inflight, standing, disputed, probes>>
  BY DEF Round!Unsent, Round!swarm
<1>2. RoundCountInv(k)' /\ Sockets(k)'
  BY <1>1, RoundCountKept DEF RoundType, Sockets
<1>3. CallInv(k)'
  <2>1. ASSUME NEW j \in 1 .. Kind[k].experts PROVE CallOk(k, j)'
    <3>1. CallOk(k, j)
      BY DEF CallInv
    <3> QED BY <1>1, <3>1 DEF CallOk, Round!NoCall
  <2>2. HedgeOk(k)'
    BY <1>1 DEF HedgeOk, Round!NoCall
  <2> QED BY <2>1, <2>2 DEF CallInv
<1> QED BY <1>1, <1>2, <1>3, CollectKept

\* A retry works on one expert, with no socket of it open.
LEMMA RetryKept ==
    ASSUME NEW k, RoundConstants(k), RoundInv(k), round_pc = "retry"
    PROVE  /\ expert \in Round(k)!Remote /\ expert \in 1 .. Kind[k].experts /\ expert \in Int
              /\ calls[expert] = Round(k)!NoCall /\ calls[expert].peer = None /\ hedge = Round(k)!NoCall
                 /\ hedge.peer = None
           /\ \A d \in disputed : d.tag[1] = round => d.by # None /\ standing[d.by] = "quarantine"
<1>1. expert \in Round(k)!Remote
  BY DEF RoundInv, GotInv, Running
<1>2. expert \in 1 .. Kind[k].experts /\ expert \in Int /\ CallOk(k, expert) /\ HedgeOk(k)
  BY <1>1, Known DEF RoundInv, CallInv
<1>3. calls[expert] = Round(k)!NoCall /\ calls[expert].peer = None /\ hedge = Round(k)!NoCall /\ hedge.peer = None
  BY <1>2 DEF CallOk, HedgeOk, Round!NoCall
<1>4. \A d \in disputed : d.tag[1] = round => d.by # None /\ standing[d.by] = "quarantine"
  BY DEF RoundInv, DisputeInv, Running
<1> QED BY <1>1, <1>2, <1>3, <1>4

\* An answer of a peer in good standing, or of the relay, was never disputed.
LEMMA Answered ==
    ASSUME NEW k, RoundConstants(k), RoundInv(k), round_pc = "retry", round_pc' = "recheck",
           NEW p \in RoundPeer \cup {None},
           res' = [res EXCEPT ![expert] = Round(k)!Answer(p, <<round, expert>>)], p = None \/ standing[p] = "no",
           pooled' \in [RoundPeer -> Seq({<<>>})], tried' \in [1 .. Kind[k].experts -> SUBSET RoundPeer],
           \A j \in 1 .. Kind[k].experts : tried[j] \subseteq tried'[j],
           UNCHANGED <<round, expert, calls, hedge, sum, inflight, standing, disputed, probes>>
    PROVE  RoundInv(k)'
<1> USE DEF RoundInv
<1>1. /\ expert \in Round(k)!Remote /\ expert \in 1 .. Kind[k].experts /\ expert \in Int
         /\ calls[expert] = Round(k)!NoCall /\ calls[expert].peer = None /\ hedge = Round(k)!NoCall
            /\ hedge.peer = None
      /\ \A d \in disputed : d.tag[1] = round => d.by # None /\ standing[d.by] = "quarantine"
  BY RetryKept
<1>2. <<round, expert>> \in Tag
  BY <1>1 DEF Tag, RoundType
<1>3. res'[expert] = Round(k)!Answer(p, <<round, expert>>) /\ DOMAIN res' = 1 .. Kind[k].experts
        /\ \A j \in (1 .. Kind[k].experts) \ {expert} : res'[j] = res[j]
  BY <1>1 DEF RoundType
<1>11. res'[expert] \in Bytes(k) /\ res'[expert].tag = <<round, expert>> /\ res'[expert].by = p
  <2>1. Round(k)!Answer(p, <<round, expert>>) \in Bytes(k)
          /\ Round(k)!Answer(p, <<round, expert>>).tag = <<round, expert>>
             /\ Round(k)!Answer(p, <<round, expert>>).by = p
    BY <1>2 DEF Round!Answer, Bytes
  <2> QED BY <1>3, <2>1
<1>4. RoundType(k)'
  BY <1>3 DEF RoundType
<1>5. RoundCountInv(k)'
  BY RoundCountKept
<1>6. CallInv(k)'
  <2>1. ASSUME NEW j \in 1 .. Kind[k].experts PROVE CallOk(k, j)'
    <3>1. CallOk(k, j) /\ calls'[j] = calls[j] /\ tried[j] \subseteq tried'[j]
      BY DEF CallInv
    <3> QED BY <3>1 DEF CallOk
  <2>2. HedgeOk(k)'
    BY <1>1 DEF HedgeOk
  <2> QED BY <2>1, <2>2 DEF CallInv
<1>7. GotInv(k)'
  <2>1. ASSUME NEW j \in Got(k)' PROVE res'[j] \in Bytes(k) /\ res'[j].tag = <<round', j>> /\ res'[j] \notin disputed'
    <3>1. CASE j = expert
      <4>1. res'[j] \in Bytes(k) /\ res'[j].tag = <<round, j>> /\ res'[j].by = p
        BY <1>11, <3>1
      <4>2. res'[j] \notin disputed
        <5> DEFINE r == res'[j]
        <5>1. r.tag[1] = round /\ r.by = p
          BY <4>1, SMTT(30)
        <5> HIDE DEF r
        <5>2. r \notin disputed
          BY <1>1, <5>1
        <5> QED BY <5>2 DEF r
      <4> QED BY <4>1, <4>2
    <3>2. CASE j # expert
      <4>1. j \in Got(k) /\ j \in 1 .. Kind[k].experts
        BY <2>1, <3>2 DEF Got
      <4>2. res[j] \in Bytes(k) /\ res[j].tag = <<round, j>> /\ res[j] \notin disputed
        BY <4>1 DEF GotInv, Running
      <4> QED BY <1>3, <3>2, <4>1, <4>2
    <3> QED BY <3>1, <3>2
  <2> QED BY <1>1, <2>1 DEF GotInv
<1>8. DisputeInv(k)'
  BY <1>1, DisputeKept DEF Running
<1>9. OutInv(k)'
  <2>1. \A j \in 1 .. Len(sum) : res'[j] = res[j]
    <3>1. CASE Kind[k].batch
      <4>1. Len(sum) = expert - 1
        BY <3>1 DEF OutInv, Running
      <4> QED BY <1>1, <1>3, <4>1 DEF RoundConstants
    <3>2. CASE ~Kind[k].batch
      BY <3>2 DEF OutInv, Running
    <3> QED BY <3>1, <3>2
  <2> QED BY <2>1, OutKept DEF Running
<1>10. Round(k)!SumIsOwn'
  BY DEF Round!SumIsOwn
<1> QED BY <1>4, <1>5, <1>6, <1>7, <1>8, <1>9, <1>10

\* A retry that goes on.
LEMMA Retried ==
    ASSUME NEW k, RoundConstants(k), RoundInv(k), round_pc = "retry", round_pc' \in {"retry", "died"},
           UNCHANGED <<round, expert, calls, hedge, res, sum, disputed, probes>>,
           Sockets(k)', RoundCountInv(k)', standing' \in [RoundPeer -> {"no", "quarantine", "due"}],
           \A p \in RoundPeer : /\ standing[p] = "quarantine" => standing'[p] = "quarantine"
                                /\ standing'[p] = "due" => standing[p] = "due",
           \A j \in (1 .. Kind[k].experts) \ {expert} : tried[j] \subseteq tried'[j]
    PROVE  RoundInv(k)'
<1> USE DEF RoundInv
<1>1. expert \in Round(k)!Remote /\ expert \in Int /\ calls[expert].peer = None /\ calls[expert] = Round(k)!NoCall
        /\ hedge.peer = None /\ hedge = Round(k)!NoCall
  BY RetryKept
<1>2. RoundType(k)'
  BY DEF RoundType, Sockets
<1>3. CallInv(k)'
  <2>1. ASSUME NEW j \in 1 .. Kind[k].experts, j = expert PROVE CallOk(k, j)'
    BY <1>1, <2>1 DEF CallOk
  <2>2. ASSUME NEW j \in 1 .. Kind[k].experts, j # expert PROVE CallOk(k, j)'
    <3>1. CallOk(k, j) /\ calls'[j] = calls[j] /\ tried[j] \subseteq tried'[j] /\ calls[j] \in CallRec(k)
      BY <2>2 DEF CallInv, RoundType
    <3>2. calls[j].peer # None => calls[j].peer \in RoundPeer
      BY <3>1 DEF CallRec
    <3> QED BY <3>1, <3>2 DEF CallOk
  <2>3. HedgeOk(k)'
    BY <1>1 DEF HedgeOk
  <2> QED BY <2>1, <2>2, <2>3 DEF CallInv
<1>4. GotInv(k)'
  BY <1>1, GotKept DEF Got, Running
<1>5. DisputeInv(k)'
  BY <1>1, DisputeKept DEF Running
<1>6. OutInv(k)'
  BY OutKept DEF Running
<1>7. Round(k)!SumIsOwn'
  BY DEF Round!SumIsOwn
<1> QED BY <1>2, <1>3, <1>4, <1>5, <1>6, <1>7

LEMMA RetryReplicaStep == ASSUME NEW k, RoundConstants(k), RoundInv(k), Round(k)!RetryReplica PROVE RoundInv(k)'
<1>1. round_pc = "retry" /\ UNCHANGED <<round, expert, calls, hedge, sum, inflight, standing, disputed, probes>>
  BY DEF Round!RetryReplica, Round!swarm
<1>2. expert \in Round(k)!Remote /\ expert \in 1 .. Kind[k].experts
  BY <1>1, RetryKept
<1>3. RoundType(k) /\ RoundCountInv(k)
  BY DEF RoundInv
<1>4. ASSUME NEW p \in Round(k)!lumi_pick(expert), tried' = [tried EXCEPT ![expert] = @ \cup {p}]
      PROVE  /\ p \in RoundPeer /\ standing[p] = "no" /\ tried' \in [1 .. Kind[k].experts -> SUBSET RoundPeer]
             /\ \A j \in 1 .. Kind[k].experts : tried[j] \subseteq tried'[j]
  <2>1. p \in RoundPeer /\ standing[p] = "no"
    BY <1>2, Picked
  <2> QED BY <1>3, <1>4, <2>1 DEF RoundType
<1>5. ASSUME NEW p \in Round(k)!lumi_pick(expert), tried' = [tried EXCEPT ![expert] = @ \cup {p}],
             Round(k)!Unreachable(p) \/ Round(k)!SendFailed(p), UNCHANGED <<round_pc, res>>
      PROVE  RoundInv(k)'
  <2>1. pooled' \in [RoundPeer -> Seq({<<>>})]
    BY <1>3, <1>4, <1>5, Dialed
  <2>2. Sockets(k)'
    BY <1>1, <1>3, <1>4, <1>5, <2>1 DEF RoundType, Sockets
  <2>3. RoundCountInv(k)'
    BY <1>1, <1>3, RoundCountKept
  <2>4. standing' \in [RoundPeer -> {"no", "quarantine", "due"}]
    BY <1>1, <1>3 DEF RoundType
  <2> QED BY <1>1, <1>4, <1>5, <2>2, <2>3, <2>4, Retried
<1>6. ASSUME NEW p \in Round(k)!lumi_pick(expert), tried' = [tried EXCEPT ![expert] = @ \cup {p}],
             NEW s \in Round(k)!lumi_send_exec(p, expert),
                  res' = [res EXCEPT ![expert] = Round(k)!Answer(p, Head(s.owes))],
             pooled' = Round(k)!lumi_put_sock([pooled EXCEPT ![p] = s.left], p, Tail(s.owes)), round_pc' = "recheck"
      PROVE  RoundInv(k)'
  <2>1. s.left \in Seq({<<>>}) /\ Head(s.owes) = <<round, expert>> /\ Tail(s.owes) = <<>>
    <3>1. RoundType(k) /\ p \in RoundPeer /\ expert \in 1 .. Kind[k].experts
            /\ s \in Round(k)!lumi_send_exec(p, expert)
      BY <1>2, <1>3, <1>4, <1>6
    <3>2. \A j \in 1 .. Kind[k].experts : \A t \in Round(k)!lumi_send_exec(p, j) :
             /\ t.peer = p /\ t.owes = <<<<round, j>>>> /\ t.left \in Seq({<<>>})
             /\ Head(t.owes) = <<round, j>> /\ Tail(t.owes) = <<>> /\ <<round, j>> \in Tag
      <4> HIDE DEF RoundInv
      <4> QED BY <3>1, Requests
    <3> QED BY <3>1, <3>2
  <2>2. [pooled EXCEPT ![p] = s.left] \in [RoundPeer -> Seq({<<>>})]
    BY <1>3, <2>1 DEF RoundType
  <2>3. pooled' \in [RoundPeer -> Seq({<<>>})]
    BY <1>4, <1>6, <2>1, <2>2, Pooled
  <2>4. res' = [res EXCEPT ![expert] = Round(k)!Answer(p, <<round, expert>>)]
    BY <1>6, <2>1
  <2> QED BY <1>1, <1>4, <1>6, <2>3, <2>4, Answered
<1> QED BY <1>5, <1>6 DEF Round!RetryReplica

LEMMA RetryRelayStep == ASSUME NEW k, RoundConstants(k), RoundInv(k), Round(k)!RetryRelay PROVE RoundInv(k)'
<1>1. /\ round_pc = "retry" /\ round_pc' = "recheck"
         /\ res' = [res EXCEPT ![expert] = Round(k)!Answer(None, <<round, expert>>)]
      /\ UNCHANGED <<round, expert, calls, hedge, tried, sum, pooled, inflight, standing, disputed, probes>>
  BY DEF Round!RetryRelay, Round!swarm
<1>2. pooled' \in [RoundPeer -> Seq({<<>>})] /\ tried' \in [1 .. Kind[k].experts -> SUBSET RoundPeer]
  BY <1>1 DEF RoundInv, RoundType
<1> QED BY <1>1, <1>2, Answered

\* A peer that comes back owes nothing and is charged for nothing.
LEMMA PeerBack ==
    ASSUME NEW k, RoundConstants(k), RoundInv(k), NEW back \in SUBSET {p \in RoundPeer : standing[p] = "due"},
           Round(k)!lumi_add_peer(back), UNCHANGED <<calls, hedge>>
    PROVE  /\ RoundCountInv(k)' /\ pooled' \in [RoundPeer -> Seq({<<>>})] /\ inflight' \in [RoundPeer -> Int]
           /\ standing' \in [RoundPeer -> {"no", "quarantine", "due"}]
           /\ \A p \in RoundPeer : /\ standing[p] = "quarantine" => standing'[p] = "quarantine"
                                   /\ standing'[p] = "due" => standing[p] = "due"
<1> USE DEF RoundInv
<1>1. /\ standing' = [p \in RoundPeer |-> IF p \in back THEN "no" ELSE standing[p]]
      /\ pooled' = [p \in RoundPeer |-> IF p \in back THEN <<>> ELSE pooled[p]]
      /\ inflight' = [p \in RoundPeer |-> IF p \in back THEN 0 ELSE inflight[p]]
  BY DEF Round!lumi_add_peer
<1>2. ASSUME NEW p \in RoundPeer, p \in back PROVE inflight[p] = 0
  <2>1. standing[p] = "due" /\ p # None
    BY <1>2 DEF RoundConstants
  <2>2. {j \in Round(k)!Open : calls[j].peer = p} = {}
    BY <2>1 DEF Round!Open, CallInv, CallOk
  <2>3. hedge.peer # p
    BY <2>1 DEF CallInv, HedgeOk
  <2>4. inflight[p] = Cardinality({j \in Round(k)!Open : calls[j].peer = p}) + 0
    BY <2>3 DEF RoundCountInv
  <2>5. Cardinality({}) = 0
    BY FS_EmptySet
  <2>6. Cardinality({j \in Round(k)!Open : calls[j].peer = p}) = 0
    BY <2>2, <2>5
  <2> HIDE DEF Round!Open
  <2> QED BY <2>4, <2>6
<1>3. \A p \in RoundPeer : inflight'[p] = inflight[p]
  BY <1>1, <1>2
<1>4. RoundCountInv(k)'
  <2>1. ASSUME NEW p \in RoundPeer
        PROVE  inflight'[p] = Cardinality({j \in Round(k)!Open' : calls'[j].peer = p})
                 + (IF hedge'.peer = p THEN 1 ELSE 0)
    <3>1. inflight[p] = Cardinality({j \in Round(k)!Open : calls[j].peer = p}) + (IF hedge.peer = p THEN 1 ELSE 0)
      BY DEF RoundCountInv
    <3>2. {j \in Round(k)!Open' : calls'[j].peer = p} = {j \in Round(k)!Open : calls[j].peer = p}
      BY DEF Round!Open
    <3> QED BY <1>3, <3>1, <3>2
  <2> QED BY <2>1 DEF RoundCountInv
<1>5. pooled' \in [RoundPeer -> Seq({<<>>})] /\ inflight' \in [RoundPeer -> Int]
        /\ standing' \in [RoundPeer -> {"no", "quarantine", "due"}]
  BY <1>1 DEF RoundType
<1>6. \A p \in RoundPeer : (standing[p] = "quarantine" => standing'[p] = "quarantine")
        /\ (standing'[p] = "due" => standing[p] = "due")
  BY <1>1
<1> QED BY <1>4, <1>5, <1>6
LEMMA RetryWaitStep == ASSUME NEW k, RoundConstants(k), RoundInv(k), Round(k)!RetryWait PROVE RoundInv(k)'
<1>1. round_pc = "retry" /\ tried' = [tried EXCEPT ![expert] = {}]
        /\ UNCHANGED <<round, round_pc, expert, calls, hedge, res, sum, disputed, probes>>
  BY DEF Round!RetryWait, Round!swarm
<1>2. PICK back \in SUBSET {p \in RoundPeer : standing[p] = "due"} : Round(k)!lumi_add_peer(back)
  BY DEF Round!RetryWait
<1>3. /\ RoundCountInv(k)' /\ pooled' \in [RoundPeer -> Seq({<<>>})] /\ inflight' \in [RoundPeer -> Int]
      /\ standing' \in [RoundPeer -> {"no", "quarantine", "due"}]
      /\ \A p \in RoundPeer : /\ standing[p] = "quarantine" => standing'[p] = "quarantine"
                              /\ standing'[p] = "due" => standing[p] = "due"
  BY <1>1, <1>2, PeerBack
<1>4. Sockets(k)'
  BY <1>1, <1>3 DEF Sockets, RoundInv, RoundType
<1>5. \A j \in (1 .. Kind[k].experts) \ {expert} : tried[j] \subseteq tried'[j]
  BY <1>1 DEF RoundInv, RoundType
<1> QED BY <1>1, <1>3, <1>4, <1>5, Retried
LEMMA RetryGivesUpStep == ASSUME NEW k, RoundConstants(k), RoundInv(k), Round(k)!RetryGivesUp PROVE RoundInv(k)'
<1>1. round_pc = "retry" /\ UNCHANGED <<round, expert, hedge, tried, pooled, standing, disputed, probes>>
  BY DEF Round!RetryGivesUp
<1>2. RoundType(k) /\ RoundCountInv(k) /\ \A d \in disputed : d.tag[1] <= round
  BY DEF RoundInv, DisputeInv
<1>3. CASE round_pc' = "died" /\ UNCHANGED <<calls, inflight, res, sum>>
  <2>1. RoundCountInv(k)' /\ Sockets(k)' /\ standing' \in [RoundPeer -> {"no", "quarantine", "due"}]
    BY <1>1, <1>2, <1>3, RoundCountKept DEF RoundType, Sockets
  <2> QED BY <1>1, <1>3, <2>1, Retried
<1>4. CASE Round(k)!Fail
  BY <1>1, <1>2, <1>4, FailStep, RetryKept DEF RoundType
<1> QED BY <1>3, <1>4 DEF Round!RetryGivesUp

\* An answer that is looked at.
LEMMA CheckKept ==
    ASSUME NEW k, RoundConstants(k), RoundInv(k), Round(k)!Checking
    PROVE  /\ expert \in Round(k)!Remote /\ expert \in 1 .. Kind[k].experts /\ expert \in Int
              /\ expert <= Kind[k].experts - Kind[k].here /\ hedge = Round(k)!NoCall /\ hedge.peer = None
           /\ res[expert] \in Bytes(k) /\ res[expert].tag = <<round, expert>> /\ calls[expert].peer = None
              /\ calls[expert] = Round(k)!NoCall
           /\ \A j \in 1 .. Kind[k].experts : j <= expert => j \in Got(k)
<1>1. round_pc \in {"check", "recheck"}
  BY DEF Round!Checking
<1>2. expert \in Round(k)!Remote
  BY <1>1 DEF RoundInv, GotInv, Running
<1>3. expert \in 1 .. Kind[k].experts /\ expert \in Int /\ expert <= Kind[k].experts - Kind[k].here
        /\ CallOk(k, expert) /\ HedgeOk(k)
  BY <1>2, Known DEF RoundInv, CallInv, Round!Remote
<1>4. \A j \in 1 .. Kind[k].experts : j <= expert => j \in Got(k)
  BY <1>1, <1>3 DEF Got
<1>5. res[expert] \in Bytes(k) /\ res[expert].tag = <<round, expert>>
  BY <1>1, <1>3, <1>4 DEF RoundInv, GotInv, Running
<1>6. calls[expert] = Round(k)!NoCall /\ calls[expert].peer = None /\ hedge = Round(k)!NoCall /\ hedge.peer = None
  BY <1>1, <1>3 DEF CallOk, HedgeOk, Round!NoCall
<1> QED BY <1>2, <1>3, <1>4, <1>5, <1>6
LEMMA RoundAcceptStep ==
    ASSUME NEW k, RoundConstants(k), RoundInv(k), Round(k)!Checking, Round(k)!Accept,
           pooled' \in [RoundPeer -> Seq({<<>>})],
           UNCHANGED <<round, calls, hedge, tried, res, inflight, standing, disputed, probes>>
    PROVE  RoundInv(k)'
<1> USE DEF RoundInv
<1>1. /\ round_pc \in {"check", "recheck"}
         /\ round_pc' = (IF expert = Kind[k].experts - Kind[k].here THEN "publish" ELSE "collect")
      /\ expert' = (IF expert = Kind[k].experts - Kind[k].here THEN expert ELSE expert + 1)
         /\ sum' = IF Kind[k].batch THEN Append(sum, res[expert]) ELSE sum
  BY DEF Round!Checking, Round!Accept, Round!After
<1>2. /\ expert \in Round(k)!Remote /\ expert \in 1 .. Kind[k].experts /\ expert \in Int
         /\ expert <= Kind[k].experts - Kind[k].here /\ hedge = Round(k)!NoCall /\ hedge.peer = None
      /\ calls[expert].peer = None /\ calls[expert] = Round(k)!NoCall
         /\ \A j \in 1 .. Kind[k].experts : j <= expert => j \in Got(k)
  BY CheckKept
<1>3. expert' \in 1 .. Kind[k].experts + 1 /\ expert' \in Int /\ expert' >= expert /\ expert' \in Round(k)!Remote
  <2> DEFINE last == Kind[k].experts - Kind[k].here
  <2>1. last \in Int /\ Kind[k].experts \in Int /\ last <= Kind[k].experts
    BY DEF RoundConstants
  <2>2. expert \in 1 .. last /\ expert' = (IF expert = last THEN expert ELSE expert + 1)
    BY <1>1, <1>2, Zenon DEF Round!Remote
  <2>3. expert' \in 1 .. last /\ expert' >= expert
    <3> HIDE DEF last
    <3> QED BY <2>1, <2>2
  <2>4. expert' \in Round(k)!Remote
    BY <2>3 DEF Round!Remote
  <2>5. expert' \in Int /\ expert' \in 1 .. Kind[k].experts + 1
    <3> HIDE DEF last
    <3> QED BY <2>1, <2>3
  <2> QED BY <2>3, <2>4, <2>5
<1>4. RoundType(k)'
  <2>0. res[expert] \in Bytes(k)
    BY CheckKept
  <2>1. sum' \in Seq(Bytes(k))
    BY <1>1, <2>0 DEF RoundType
  <2> QED BY <1>1, <1>3, <2>1 DEF RoundType
<1>5. RoundCountInv(k)'
  BY RoundCountKept
<1>6. CallInv(k)'
  <2>1. ASSUME NEW j \in 1 .. Kind[k].experts PROVE CallOk(k, j)'
    <3>1. CallOk(k, j) /\ calls'[j] = calls[j] /\ tried'[j] = tried[j]
      BY DEF CallInv
    <3>2. CASE calls[j].peer = None
      BY <3>1, <3>2 DEF CallOk
    <3>3. CASE calls[j].peer # None
      <4>1. j > expert /\ j \in Round(k)!Remote
        BY <1>1, <3>1, <3>3 DEF CallOk
      <4>2. expert # Kind[k].experts - Kind[k].here /\ round_pc' = "collect" /\ expert' = expert + 1 /\ j >= expert'
        BY <1>1, <1>2, <4>1 DEF Round!Remote, RoundConstants
      <4>3. j > expert' \/ j = expert'
        BY <1>3, <4>2
      <4> QED BY <3>1, <3>3, <4>2, <4>3 DEF CallOk
    <3> QED BY <3>2, <3>3
  <2>2. HedgeOk(k)'
    BY <1>2 DEF HedgeOk
  <2> QED BY <2>1, <2>2 DEF CallInv
<1>7. GotInv(k)'
  <2>1. Got(k)' \subseteq Got(k)
    <3>1. ASSUME NEW j \in Got(k)' PROVE j \in Got(k)
      <4>1. j \in 1 .. Kind[k].experts /\ (j \notin Round(k)!Remote \/ j <= expert)
        BY <1>1, <1>2 DEF Got, RoundConstants
      <4> QED BY <1>1, <1>2, <4>1 DEF Got
    <3> QED BY <3>1
  <2>2. round_pc' # "check" /\ (round_pc' = "publish" => expert' = Kind[k].experts - Kind[k].here)
    BY <1>1
  <2> QED BY <1>1, <1>3, <2>1, <2>2, GotKept DEF Running
<1>8. DisputeInv(k)'
  <2>1. round_pc' # "issue" /\ Running(k) /\ (round_pc' \in {"collect", "check"} => expert' > expert)
    BY <1>1, <1>2 DEF Running
  <2> QED BY <1>3, <2>1, DisputeKept
<1>9. OutInv(k)'
  <2>1. CASE Kind[k].batch
    <3>1. Len(sum) = expert - 1 /\ \A j \in 1 .. Len(sum) : sum[j] = res[j]
      BY <1>1, <2>1 DEF OutInv, Running
    <3>2. sum' = Append(sum, res[expert])
      BY <1>1, <2>1
    <3>3. Len(sum') = expert /\ \A j \in 1 .. expert : sum'[j] = res[j]
      <4>1. sum \in Seq(Bytes(k)) /\ res[expert] \in Bytes(k)
        BY CheckKept DEF RoundType
      <4> QED BY <1>2, <3>1, <3>2, <4>1
    <3>4. round_pc' # "issue" /\ (round_pc' = "publish" => expert' = expert)
            /\ (round_pc' # "publish" => expert' - 1 = expert)
      BY <1>1, <1>2
    <3> QED BY <2>1, <3>3, <3>4 DEF OutInv
  <2>2. CASE ~Kind[k].batch
    BY <1>1, <2>2 DEF OutInv, Running
  <2> QED BY <2>1, <2>2
<1>10. Round(k)!SumIsOwn'
  BY <1>1 DEF Round!SumIsOwn
<1> QED BY <1>4, <1>5, <1>6, <1>7, <1>8, <1>9, <1>10

LEMMA UncheckedStep == ASSUME NEW k, RoundConstants(k), RoundInv(k), Round(k)!Unchecked PROVE RoundInv(k)'
<1>1. /\ Round(k)!Checking /\ Round(k)!Accept
         /\ UNCHANGED <<round, calls, hedge, tried, res, inflight, standing, disputed, probes>>
  BY DEF Round!Unchecked, Round!swarm
<1>2. expert \in Round(k)!Remote /\ RoundType(k)
  BY <1>1, CheckKept DEF RoundInv
<1>3. pooled' \in [RoundPeer -> Seq({<<>>})]
  <2>1. CASE UNCHANGED pooled
    BY <1>2, <2>1 DEF RoundType
  <2>2. ASSUME NEW p \in Round(k)!lumi_pick(expert), Round(k)!Unreachable(p)
        PROVE  pooled' \in [RoundPeer -> Seq({<<>>})]
    BY <1>2, <2>2, Picked, Dialed
  <2>3. ASSUME NEW p \in Round(k)!lumi_pick(expert), NEW s \in Round(k)!lumi_take_sock(p),
               pooled' = [pooled EXCEPT ![p] = s.left]
        PROVE  pooled' \in [RoundPeer -> Seq({<<>>})]
    <3>1. p \in RoundPeer
      BY <1>2, Picked
    <3>2. s.left \in Seq({<<>>})
      BY <1>2, <3>1, Socks
    <3> QED BY <1>2, <2>3, <3>2 DEF RoundType
  <2> QED BY <2>1, <2>2, <2>3 DEF Round!Unchecked, Round!health
<1> QED BY <1>1, <1>3, RoundAcceptStep

\* A second replica's bytes are compared.
LEMMA SpotCheckStep == ASSUME NEW k, RoundConstants(k), RoundInv(k), Round(k)!SpotCheck PROVE RoundInv(k)'
<1> USE DEF RoundInv
<1>1. /\ Round(k)!Checking /\ UNCHANGED <<round, hedge, tried, probes>>
  BY DEF Round!SpotCheck, Round!swarm
<1>2. /\ expert \in Round(k)!Remote /\ expert \in 1 .. Kind[k].experts /\ expert \in Int
         /\ expert <= Kind[k].experts - Kind[k].here /\ hedge = Round(k)!NoCall /\ hedge.peer = None
      /\ res[expert] \in Bytes(k) /\ res[expert].tag = <<round, expert>> /\ calls[expert].peer = None
         /\ calls[expert] = Round(k)!NoCall
  BY <1>1, CheckKept
<1>3. PICK p \in Round(k)!lumi_pick(expert) \ Kind[k].exec2 : \E s \in Round(k)!lumi_send_exec(p, expert) :
         /\ pooled' = Round(k)!lumi_put_sock([pooled EXCEPT ![p] = s.left], p, Tail(s.owes))
         /\ IF (p \notin Liar) = res[expert].good /\ Head(s.owes) = res[expert].tag
            THEN Round(k)!Accept /\ UNCHANGED <<res, calls, inflight, standing, disputed>>
            ELSE /\ standing' = [q \in RoundPeer |-> IF q \in Round(k)!Suspects(p) THEN "quarantine" ELSE standing[q]]
                 /\ disputed' = disputed \cup {res[expert]}
                 /\ IF round_pc = "recheck" THEN Round(k)!Fail /\ UNCHANGED <<expert, asked_again>>
                    ELSE /\ res' = [res EXCEPT ![expert] = None] /\ round_pc' = "retry"
                         /\ UNCHANGED <<expert, calls, inflight, asked_again, sum>>
  BY DEF Round!SpotCheck
<1>4. p \in RoundPeer
  BY <1>2, <1>3, Picked
<1>5. pooled' \in [RoundPeer -> Seq({<<>>})]
  <2>1. PICK s \in Round(k)!lumi_send_exec(p, expert) :
          pooled' = Round(k)!lumi_put_sock([pooled EXCEPT ![p] = s.left], p, Tail(s.owes))
    BY <1>3
  <2>2. s.left \in Seq({<<>>}) /\ Tail(s.owes) = <<>>
    <3>1. RoundType(k) /\ p \in RoundPeer /\ expert \in 1 .. Kind[k].experts
            /\ s \in Round(k)!lumi_send_exec(p, expert)
      BY <1>2, <1>4
    <3>2. \A j \in 1 .. Kind[k].experts : \A t \in Round(k)!lumi_send_exec(p, j) :
             /\ t.peer = p /\ t.owes = <<<<round, j>>>> /\ t.left \in Seq({<<>>})
             /\ Head(t.owes) = <<round, j>> /\ Tail(t.owes) = <<>> /\ <<round, j>> \in Tag
      <4> HIDE DEF RoundInv
      <4> QED BY <3>1, Requests
    <3> QED BY <3>1, <3>2
  <2>3. [pooled EXCEPT ![p] = s.left] \in [RoundPeer -> Seq({<<>>})]
    BY <2>2 DEF RoundType
  <2> QED BY <1>4, <2>1, <2>2, <2>3, Pooled
<1>6. CASE Round(k)!Accept /\ UNCHANGED <<res, calls, inflight, standing, disputed>>
  BY <1>1, <1>5, <1>6, RoundAcceptStep
<1>7. CASE /\ standing' = [q \in RoundPeer |-> IF q \in Round(k)!Suspects(p) THEN "quarantine" ELSE standing[q]]
           /\ disputed' = disputed \cup {res[expert]}
           /\ IF round_pc = "recheck" THEN Round(k)!Fail /\ UNCHANGED <<expert, asked_again>>
              ELSE /\ res' = [res EXCEPT ![expert] = None] /\ round_pc' = "retry"
                   /\ UNCHANGED <<expert, calls, inflight, asked_again, sum>>
  <2>1. standing' \in [RoundPeer -> {"no", "quarantine", "due"}] /\ disputed' \subseteq Bytes(k)
    BY <1>2, <1>7 DEF RoundType
  <2>2. round \in Nat /\ \A d \in disputed' : d.tag[1] <= round
    BY <1>2, <1>7 DEF DisputeInv, RoundType
  <2>3. CASE round_pc = "recheck"
    <3>1. Round(k)!Fail /\ UNCHANGED expert /\ probes' \in Int
      BY <1>1, <1>7, <2>3 DEF RoundType
    <3> QED BY <1>1, <1>2, <1>5, <2>1, <2>2, <3>1, FailStep
  <2>4. CASE round_pc = "check"
    <3>1. res' = [res EXCEPT ![expert] = None] /\ round_pc' = "retry" /\ UNCHANGED <<expert, calls, inflight, sum>>
      BY <1>7, <2>4
    <3>2. DOMAIN res' = 1 .. Kind[k].experts /\ \A j \in (1 .. Kind[k].experts) \ {expert} : res'[j] = res[j]
      BY <1>2, <3>1 DEF RoundType
    <3>3. /\ \A q \in RoundPeer : standing[q] = "quarantine" => standing'[q] = "quarantine"
          /\ \A q \in RoundPeer : standing'[q] = "due" => standing[q] = "due"
      BY <1>7
    <3>4. RoundType(k)'
      BY <1>1, <1>5, <2>1, <3>1, <3>2 DEF RoundType
    <3>5. RoundCountInv(k)'
      BY <1>1, <3>1, RoundCountKept
    <3>6. CallInv(k)'
      <4>1. ASSUME NEW j \in 1 .. Kind[k].experts PROVE CallOk(k, j)'
        <5>1. CallOk(k, j) /\ calls'[j] = calls[j] /\ tried'[j] = tried[j] /\ calls[j] \in CallRec(k)
          BY <1>1, <3>1 DEF CallInv, RoundType
        <5>2. calls[j].peer # None => calls[j].peer \in RoundPeer
          BY <5>1 DEF CallRec
        <5> QED BY <1>1, <2>4, <3>1, <3>3, <5>1, <5>2 DEF CallOk
      <4>2. HedgeOk(k)'
        BY <1>1, <1>2 DEF HedgeOk
      <4> QED BY <4>1, <4>2 DEF CallInv
    <3>7. GotInv(k)'
      <4>1. ASSUME NEW j \in Got(k)'
            PROVE  res'[j] \in Bytes(k) /\ res'[j].tag = <<round', j>> /\ res'[j] \notin disputed'
        <5>1. j \in 1 .. Kind[k].experts /\ j # expert /\ j \in Got(k)
          BY <1>2, <2>4, <3>1 DEF Got
        <5>2. res[j] \in Bytes(k) /\ res[j].tag = <<round, j>> /\ res[j] \notin disputed
          BY <2>4, <5>1 DEF GotInv, Running
        <5>3. res[j] # res[expert]
          <6>1. <<round, j>> # <<round, expert>>
            BY <5>1
          <6> QED BY <1>2, <5>2, <6>1
        <5> QED BY <1>1, <1>7, <3>2, <5>1, <5>2, <5>3
      <4> QED BY <1>2, <3>1, <4>1 DEF GotInv
    <3>8. DisputeInv(k)'
      <4>1. ASSUME NEW d \in disputed', d.tag[1] = round
            PROVE  d.by # None /\ standing'[d.by] = "quarantine" /\ d.tag[2] \in Round(k)!Remote /\ d.tag[2] <= expert
        <5>1. CASE d \in disputed
          <6>1. d.by # None /\ standing[d.by] = "quarantine" /\ d.tag[2] \in Round(k)!Remote /\ d.tag[2] <= expert
            BY <2>4, <4>1, <5>1 DEF DisputeInv, Running
          <6>2. d.by \in RoundPeer
            BY <5>1, <6>1 DEF RoundType, Bytes
          <6> QED BY <3>3, <6>1, <6>2
        <5>2. CASE d = res[expert]
          <6>1. res[expert].by # None /\ res[expert].by \in RoundPeer
            BY <1>2, <2>4 DEF GotInv, Running, Bytes
          <6>2. standing'[res[expert].by] = "quarantine"
            BY <1>7, <6>1 DEF Round!Suspects
          <6>3. d.tag[2] = expert
            BY <1>2, <5>2
          <6> QED BY <1>2, <5>2, <6>1, <6>2, <6>3
        <5> QED BY <1>7, <5>1, <5>2
      <4> QED BY <1>1, <2>2, <3>1, <4>1 DEF DisputeInv
    <3>9. OutInv(k)'
      <4>1. \A j \in 1 .. Len(sum) : res'[j] = res[j]
        <5>1. CASE Kind[k].batch
          <6>1. Len(sum) = expert - 1
            BY <2>4, <5>1 DEF OutInv, Running
          <6> QED BY <1>2, <3>2, <6>1 DEF RoundConstants
        <5>2. CASE ~Kind[k].batch
          BY <2>4, <5>2 DEF OutInv, Running
        <5> QED BY <5>1, <5>2
      <4> QED BY <2>4, <3>1, <4>1, OutKept DEF Running
    <3>10. Round(k)!SumIsOwn'
      BY <3>1 DEF Round!SumIsOwn
    <3> QED BY <3>4, <3>5, <3>6, <3>7, <3>8, <3>9, <3>10
  <2> QED BY <1>1, <2>3, <2>4 DEF Round!Checking
<1> QED BY <1>3, <1>6, <1>7

\* The total is published.
LEMMA PublishStep ==
    ASSUME NEW k, RoundConstants(k), RoundInv(k), NEW checked \in BOOLEAN, Round(k)!Publish(checked)
    PROVE  RoundInv(k)'
<1> USE DEF RoundInv
<1> DEFINE total == IF checked THEN Round(k)!Replaced ELSE res
<1>1. /\ round_pc = "publish" /\ round_pc' = "idle" /\ (checked => Round(k)!Due)
         /\ (Round(k)!Due /\ probes < Probes => checked)
      /\ sum' = (IF Kind[k].batch THEN sum ELSE [j \in 1 .. Kind[k].experts |-> total[j]])
      /\ probes' = (IF checked /\ probes < Probes THEN probes + 1 ELSE probes)
      /\ UNCHANGED <<round, expert, calls, hedge, tried, res, pooled, inflight, standing, disputed>>
  BY DEF Round!Publish
<1>2. expert = Kind[k].experts - Kind[k].here
  BY <1>1 DEF GotInv, Running
<1>3. ASSUME NEW j \in 1 .. Kind[k].experts
      PROVE  res[j] \in Bytes(k) /\ res[j].tag = <<round, j>> /\ res[j] \notin disputed
  <2>1. j \in Got(k)
    BY <1>1, <1>2 DEF Got, Round!Remote, RoundConstants
  <2> QED BY <1>1, <2>1 DEF GotInv, Running
<1>4. \A d \in disputed : d.tag[1] <= round /\ (d.tag[1] = round => d.by # None)
  BY <1>1 DEF DisputeInv, Running
<1>5. ASSUME NEW j \in 1 .. Kind[k].experts
      PROVE  total[j] \in Bytes(k) /\ total[j].tag = <<round, j>> /\ total[j] \notin disputed
               /\ (checked => total[j].good)
  <2>1. CASE ~checked
    BY <1>3, <2>1
  <2>2. CASE checked /\ res[j].good
    <3>1. total[j] = res[j]
      BY <2>2 DEF Round!Replaced
    <3> HIDE DEF total
    <3> QED BY <1>3, <2>2, <3>1
  <2>3. CASE checked /\ ~res[j].good
    <3>1. total[j] = Round(k)!Answer(None, <<round, j>>)
      BY <2>3 DEF Round!Replaced
    <3>2. <<round, j>> \in Tag /\ None \notin Liar
      BY DEF RoundType, RoundConstants, Tag
    <3> HIDE DEF total
    <3>3. total[j] \in Bytes(k) /\ total[j].tag = <<round, j>> /\ total[j].by = None /\ total[j].good
      <4>1. /\ Round(k)!Answer(None, <<round, j>>) \in Bytes(k)
               /\ Round(k)!Answer(None, <<round, j>>).tag = <<round, j>>
            /\ Round(k)!Answer(None, <<round, j>>).by = None /\ Round(k)!Answer(None, <<round, j>>).good
        BY <3>2, Answers
      <4> QED BY <3>1, <4>1
    <3>4. total[j].tag[1] = round
      BY <3>3
    <3> QED BY <1>4, <3>3, <3>4
  <2> QED BY <2>1, <2>2, <2>3
<1>6. /\ sum' \in Seq(Bytes(k)) /\ Len(sum') = Kind[k].experts
         /\ \A j \in 1 .. Kind[k].experts : sum'[j].tag = <<round, j>> /\ sum'[j] \notin disputed
      /\ ~Kind[k].batch /\ checked => \A j \in 1 .. Kind[k].experts : sum'[j].good
  <2> HIDE DEF total
  <2>1. CASE Kind[k].batch
    <3>1. sum' = sum /\ Len(sum) = Kind[k].experts /\ \A j \in 1 .. Kind[k].experts : sum[j] = res[j]
      BY <1>1, <1>2, <2>1 DEF OutInv, Running, RoundConstants
    <3> QED BY <1>3, <2>1, <3>1 DEF RoundType
  <2>2. CASE ~Kind[k].batch
    <3>1. sum' = [j \in 1 .. Kind[k].experts |-> total[j]]
      BY <1>1, <2>2
    <3>2. Kind[k].experts \in Nat /\ sum' \in [1 .. Kind[k].experts -> Bytes(k)]
      BY <1>5, <3>1 DEF RoundConstants
    <3>3. sum' \in Seq(Bytes(k)) /\ Len(sum') = Kind[k].experts
      BY <3>2
    <3> QED BY <1>5, <3>1, <3>3
  <2> QED BY <2>1, <2>2
<1>7. RoundType(k)'
  <2>1. probes' \in Int
    BY <1>1 DEF RoundType
  <2> QED BY <1>1, <1>6, <2>1 DEF RoundType
<1>8. CallInv(k)'
  <2>1. ASSUME NEW j \in 1 .. Kind[k].experts PROVE CallOk(k, j)'
    <3>1. CallOk(k, j) /\ calls'[j] = calls[j]
      BY <1>1 DEF CallInv
    <3> QED BY <1>1, <1>2, <3>1 DEF CallOk, Round!Remote, RoundConstants
  <2>2. HedgeOk(k)'
    BY <1>1 DEF HedgeOk, CallInv
  <2> QED BY <2>1, <2>2 DEF CallInv
<1>9. RoundCountInv(k)'
  BY <1>1, RoundCountKept
<1>10. GotInv(k)' /\ DisputeInv(k)' /\ OutInv(k)'
  BY <1>1, <1>4 DEF GotInv, DisputeInv, OutInv, Running
<1>11. Round(k)!SumIsOwn'
  <2>1. Round(k)!Due /\ probes' < Probes => ~Kind[k].batch /\ checked
    BY <1>1 DEF Round!Due, RoundConstants, RoundType
  <2> QED BY <1>1, <1>6, <2>1 DEF Round!SumIsOwn, Round!Due
<1> QED BY <1>7, <1>8, <1>9, <1>10, <1>11

\* Time, and what happens between two rounds.
LEMMA StillStep ==
    ASSUME NEW k, RoundConstants(k), RoundInv(k),
           UNCHANGED <<round, round_pc, expert, calls, hedge, tried, res, sum, disputed, probes>>,
           pooled' \in [RoundPeer -> Seq({<<>>})], inflight' \in [RoundPeer -> Int], RoundCountInv(k)',
           standing' \in [RoundPeer -> {"no", "quarantine", "due"}], standing' = standing \/ round_pc = "idle"
    PROVE  RoundInv(k)'
<1> USE DEF RoundInv
<1>1. RoundType(k)'
  BY DEF RoundType
<1>2. CallInv(k)'
  <2>1. ASSUME NEW j \in 1 .. Kind[k].experts PROVE CallOk(k, j)'
    BY DEF CallInv, CallOk
  <2>2. HedgeOk(k)'
    BY DEF CallInv, HedgeOk
  <2> QED BY <2>1, <2>2 DEF CallInv
<1>3. GotInv(k)'
  BY DEF GotInv, Got, Running
<1>4. DisputeInv(k)'
  BY DEF DisputeInv, Running
<1>5. OutInv(k)' /\ Round(k)!SumIsOwn'
  BY DEF OutInv, Round!SumIsOwn, Running, Round!Due
<1> QED BY <1>1, <1>2, <1>3, <1>4, <1>5
LEMMA BetweenSteps ==
    ASSUME NEW k, RoundConstants(k), RoundInv(k), NEW p \in RoundPeer,
           Round(k)!Cool(p) \/ Round(k)!Ripen(p) \/ Round(k)!Promote \/ Round(k)!lumi_maybe_discover(p)
                \/ Round(k)!lumi_refresh_rtt(p)
    PROVE  RoundInv(k)'
<1> USE DEF RoundInv
<1>1. UNCHANGED <<round, round_pc, expert, calls, hedge, tried, res, sum, disputed, probes>>
  BY DEF Round!Cool, Round!Ripen, Round!Promote, Round!lumi_maybe_discover, Round!lumi_refresh_rtt, Round!round_vars,
     Round!swarm
<1>2. CASE Round(k)!Cool(p) \/ Round(k)!Promote
  <2>1. UNCHANGED <<pooled, inflight, standing>>
    BY <1>2 DEF Round!Cool, Round!Promote
  <2> QED BY <1>1, <2>1, RoundCountKept, StillStep DEF RoundType
<1>3. CASE Round(k)!Ripen(p)
  <2>1. round_pc = "idle" /\ standing' = [standing EXCEPT ![p] = "due"] /\ UNCHANGED <<pooled, inflight>>
    BY <1>3 DEF Round!Ripen
  <2>2. standing' \in [RoundPeer -> {"no", "quarantine", "due"}]
    BY <2>1 DEF RoundType
  <2> QED BY <1>1, <2>1, <2>2, RoundCountKept, StillStep DEF RoundType
<1>4. CASE Round(k)!lumi_maybe_discover(p)
  <2>1. round_pc = "idle" /\ Round(k)!lumi_add_peer({p}) /\ {p} \in SUBSET {q \in RoundPeer : standing[q] = "due"}
    BY <1>4 DEF Round!lumi_maybe_discover
  <2> QED BY <1>1, <2>1, PeerBack, StillStep
<1>5. CASE Round(k)!lumi_refresh_rtt(p)
  <2>1. round_pc = "idle" /\ pooled[p] # <<>> /\ pooled' = [pooled EXCEPT ![p] = SubSeq(@, 1, Len(@) - 1)]
          /\ UNCHANGED <<inflight, standing>>
    BY <1>5 DEF Round!lumi_refresh_rtt
  <2>2. SubSeq(pooled[p], 1, Len(pooled[p]) - 1) \in Seq({<<>>})
    <3>1. pooled[p] \in Seq({<<>>})
      BY DEF RoundType
    <3>2. Len(pooled[p]) \in Nat /\ Len(pooled[p]) # 0
      BY <2>1, <3>1
    <3>3. Len(pooled[p]) - 1 \in Nat /\ Len(pooled[p]) - 1 <= Len(pooled[p])
      BY <3>2
    <3> QED BY <3>1, <3>3
  <2>3. pooled' \in [RoundPeer -> Seq({<<>>})]
    BY <2>1, <2>2 DEF RoundType
  <2> QED BY <1>1, <2>1, <2>3, RoundCountKept, StillStep DEF RoundType
<1> QED BY <1>2, <1>3, <1>4, <1>5

LEMMA RoundKept == ASSUME NEW k, RoundConstants(k), RoundInv(k), UNCHANGED (Round(k)!vars) PROVE RoundInv(k)'
  BY RoundCountKept, StillStep DEF Round!vars, RoundInv, RoundType
LEMMA RoundStep == ASSUME NEW k, RoundConstants(k), RoundInv(k), Round(k)!Next PROVE RoundInv(k)'
<1>1. CASE Round(k)!Start
  BY <1>1, StartStep
<1>2. CASE Round(k)!Step
  <2>1. CASE Round(k)!Issue \/ Round(k)!Compute \/ Round(k)!LocalFails \/ Round(k)!Unsent \/ Round(k)!Timeout
    BY <2>1, IssueStep, ComputeStep, LocalFailsStep, UnsentStep, TimeoutStep
  <2>2. CASE round_pc = "collect" /\ expert \in Round(k)!Remote
          /\ (Round(k)!Receive(calls[expert], hedge) \/ Round(k)!Receive(hedge, calls[expert]))
    BY <2>2, RoundReceiveStep
  <2>3. CASE round_pc = "collect" /\ expert \in Round(k)!Remote /\ \E primary \in BOOLEAN : Round(k)!Break(primary)
    BY <2>3, BreakStep
  <2>4. CASE Round(k)!Hedge \/ Round(k)!RetryReplica \/ Round(k)!RetryRelay \/ Round(k)!RetryWait
          \/ Round(k)!RetryGivesUp
    BY <2>4, HedgeStep, RetryReplicaStep, RetryRelayStep, RetryWaitStep, RetryGivesUpStep
  <2>5. CASE Round(k)!Unchecked \/ Round(k)!SpotCheck \/ \E checked \in BOOLEAN : Round(k)!Publish(checked)
    BY <2>5, UncheckedStep, SpotCheckStep, PublishStep
  <2> QED BY <1>2, <2>1, <2>2, <2>3, <2>4, <2>5 DEF Round!Step
<1>3. CASE Round(k)!Clock
  <2>1. CASE Round(k)!Promote
    <3>1. UNCHANGED <<round, round_pc, expert, calls, hedge, tried, res, sum, pooled, inflight, standing, disputed,
                    probes>>
      BY <2>1 DEF Round!Promote, Round!round_vars
    <3> QED BY <3>1, RoundCountKept, StillStep DEF RoundInv, RoundType
  <2>2. CASE \E p \in RoundPeer : Round(k)!Cool(p) \/ Round(k)!Ripen(p)
    BY <2>2, BetweenSteps
  <2> QED BY <1>3, <2>1, <2>2 DEF Round!Clock
<1>4. CASE \E p \in RoundPeer : Round(k)!lumi_maybe_discover(p) \/ Round(k)!lumi_refresh_rtt(p)
  BY <1>4, BetweenSteps
<1>5. CASE Round(k)!Ended
  BY <1>5, RoundKept DEF Round!Ended
<1> QED BY <1>1, <1>2, <1>3, <1>4, <1>5 DEF Round!Next

\* What a round promises.
LEMMA RoundPromise == ASSUME NEW k, RoundConstants(k), RoundInv(k) PROVE Round(k)!RoundSound
<1>1. \A p \in RoundPeer : \A n \in 1 .. Len(pooled[p]) : pooled[p][n] = <<>>
  <2> TAKE p \in RoundPeer
  <2>1. pooled[p] \in Seq({<<>>})
    BY DEF RoundInv, RoundType
  <2> QED BY <2>1
<1>2. round_pc = "idle" => Round(k)!Open = {} /\ hedge = Round(k)!NoCall
  BY DEF RoundInv, CallInv, CallOk, HedgeOk, Round!Open
<1>3. ASSUME NEW p \in RoundPeer
      PROVE  inflight[p] = Round(k)!Cardinality({j \in Round(k)!Open : calls[j].peer = p})
               + (IF hedge.peer = p THEN 1 ELSE 0)
  <2> DEFINE opened == {j \in Round(k)!Open : calls[j].peer = p}
  <2>1. inflight[p] = Cardinality(opened) + (IF hedge.peer = p THEN 1 ELSE 0)
    BY DEF RoundInv, RoundCountInv
  <2>2. Round(k)!Cardinality(opened) = Cardinality(opened)
    BY RoundCounts, Zenon
  <2>3. inflight[p] = Round(k)!Cardinality(opened) + (IF hedge.peer = p THEN 1 ELSE 0)
    <3> HIDE DEF opened
    <3> QED BY <2>1, <2>2
  <2> QED BY <2>3, Zenon
<1>4. Round(k)!NothingOwed
  BY <1>1, <1>2, <1>3, Zenon DEF Round!NothingOwed
<1> QED BY <1>4 DEF RoundInv, Round!RoundSound
------------------------------------------------------------------------------
\* What the names of the parts stand for is what their modules expect.
CallConstants ==
    /\ "node" \notin Relays \cup Rounds /\ Relays \cap Rounds = {}
    /\ \A k \in Relays : RelayConstants(k)
    /\ KernelConstants
    /\ \A k \in Rounds : RoundConstants(k)
\* Each part, in the state its own argument describes.
PartsInv == /\ \A k \in Relays : part = k => RelayInv(k)
            /\ part = "node" => KernelInv
            /\ \A k \in Rounds : part = k => RoundInv(k)

\* Each part starts in such a state.
LEMMA PartsStart ==
    ASSUME CallConstants, PartsInit PROVE PartsInv
<1>1. ASSUME NEW k \in Relays, part = k, Relay(k)!Init PROVE PartsInv
  <2>1. RelayInv(k)
    BY <1>1, RelayStart DEF CallConstants
  <2> QED BY <1>1, <2>1 DEF PartsInv, CallConstants
<1>2. CASE part = "node" /\ Kernels!Init
  BY <1>2, KernelStart DEF PartsInv, CallConstants
<1>3. ASSUME NEW k \in Rounds, part = k, Round(k)!Init PROVE PartsInv
  <2>1. RoundInv(k)
    BY <1>3, RoundStart DEF CallConstants
  <2> QED BY <1>3, <2>1 DEF PartsInv, CallConstants
<1> QED BY <1>1, <1>2, <1>3 DEF PartsInit

\* A part moves by its own steps, and no other part moves.
LEMMA PartsStep ==
    ASSUME CallConstants, PartsInv, [PartsNext]_<<part, registers>> PROVE PartsInv'
<1>0. part' = part
  BY DEF PartsNext
<1>1. ASSUME NEW k \in Relays, part = k PROVE PartsInv'
  <2>1. [Relay(k)!Next]_(Relay(k)!vars)
    <3>1. CASE UNCHANGED registers
      BY <3>1 DEF registers, Relay!vars, tun, ctrl, wire, box, rex, outq, rq_next, stage, answer, cand, turn_of,
         refs, rate, connects
    <3>2. CASE PartsNext
      BY <1>1, <3>2 DEF PartsNext, CallConstants
    <3> QED BY <3>1, <3>2
  <2>2. RelayInv(k)'
    BY <1>1, <2>1, RelayStep DEF PartsInv, CallConstants
  <2> QED BY <1>0, <1>1, <2>2 DEF PartsInv, CallConstants
<1>2. ASSUME part = "node" PROVE PartsInv'
  <2>1. [Kernels!Next]_Kernels!vars
    <3>1. CASE UNCHANGED registers
      BY <3>1 DEF registers, Kernels!vars, pc, asleep, pinned, cache, tick, gate_free, queue, seq, served, in_flight,
         tickets, inline, paused, holds
    <3>2. CASE PartsNext
      BY <1>2, <3>2 DEF PartsNext, CallConstants
    <3> QED BY <3>1, <3>2
  <2>2. KernelInv'
    BY <1>2, <2>1, KernelStep DEF PartsInv, CallConstants
  <2> QED BY <1>0, <1>2, <2>2 DEF PartsInv, CallConstants
<1>3. ASSUME NEW k \in Rounds, part = k PROVE PartsInv'
  <2>1. RoundInv(k) /\ RoundConstants(k)
    BY <1>3 DEF PartsInv, CallConstants
  <2>2. CASE UNCHANGED registers
    <3>1. UNCHANGED (Round(k)!vars)
      BY <2>2 DEF registers, Round!vars, round, round_pc, expert, calls, hedge, asked_again, tried, res, sum, pooled,
         inflight, standing, fails, cooling, waited, sick, demoted, rejected, probes, disputed
    <3>2. RoundInv(k)'
      BY <2>1, <3>1, RoundKept
    <3> QED BY <1>0, <1>3, <3>2 DEF PartsInv, CallConstants
  <2>3. CASE PartsNext
    <3>1. Round(k)!Next
      BY <1>3, <2>3 DEF PartsNext, CallConstants
    <3>2. RoundInv(k)'
      BY <2>1, <3>1, RoundStep
    <3> QED BY <1>0, <1>3, <3>2 DEF PartsInv, CallConstants
  <2> QED BY <2>2, <2>3
<1>4. CASE part \notin Relays \cup Rounds \cup {"node"}
  BY <1>0, <1>4 DEF PartsInv
<1> QED BY <1>1, <1>2, <1>3, <1>4

\* Whatever is lost, late, broken or wrong, an expert call gets its own answer
\* and leaves nothing behind: the relay routes replies by their number and
\* gives back its slots (handle_rexec, relay_post), the node's cache and gate
\* count what they hold (expert_run, gate_enter_from), and a round publishes
\* its own sum or nothing (lumi_finish_exec, lumi_spot_check).
THEOREM CallCorrect ==
    ASSUME CallConstants
    PROVE  PartsSpec => []CallSound
<1>1. PartsInit => PartsInv
  BY PartsStart
<1>2. PartsInv /\ [PartsNext]_<<part, registers>> => PartsInv'
  BY PartsStep
<1>3. PartsInv => CallSound
  <2> SUFFICES ASSUME PartsInv PROVE CallSound
    OBVIOUS
  <2>1. ASSUME NEW k \in Relays, part = k PROVE Relay(k)!AnswerIsOwn /\ Relay(k)!NothingLeaks
    BY <2>1, RelayPromise DEF PartsInv, CallConstants
  <2>2. ASSUME part = "node" PROVE Kernels!ExecSound
    BY <2>2, KernelPromise DEF PartsInv, CallConstants
  <2>3. ASSUME NEW k \in Rounds, part = k PROVE Round(k)!RoundSound
    BY <2>3, RoundPromise DEF PartsInv, CallConstants
  <2> QED BY <2>1, <2>2, <2>3 DEF CallSound
<1> QED BY <1>1, <1>2, <1>3, PTL DEF PartsSpec
==============================================================================
