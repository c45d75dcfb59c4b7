-------------------------- MODULE ElasticReplicas --------------------------
(***************************************************************************)
(* The elastic controller of one managed model.  A child of the gateway    *)
(* ticks: it loads the saved policy, reconciles it with the route          *)
(* registry, and moves one replica through prepare, publish, withdraw and  *)
(* retire, saving an intent before every effect.  The child may be killed  *)
(* between any two durable effects and every save may fail.  A detached    *)
(* keeper prepares the new allocation; the operator reconfigures the       *)
(* policy, edits routes and retires allocations meanwhile.                 *)
(* (runtime/lumabri_elastic_controller.h, planner/lumabri_elastic_policy.h *)
(* and lumabri_elastic_store.h, runtime/lumabri_preparation_api.h,         *)
(* lumabri_preparation_store.h, lumabri_joint_prepare.h, lumabri_service.h,*)
(* api_route_admin in lumabri_managed_models.h.)                           *)
(***************************************************************************)
EXTENDS Integers, FiniteSets, Sequences, SequencesExt, FiniteSetsExt

CONSTANTS MaxOps,      \* bound: preparations; operation n prepares allocation n
          Adopted,     \* the allocations routed when the policy is configured
          Size,        \* allocation -> bytes it reserves on its donors
          Review,      \* operation -> bytes its review promised
          MinReplicas, MaxReplicas, MaxBytes,
          MaxEdits,    \* bound: operator actions
          MaxFaults    \* bound: killed ticks, failed saves, dead processes

Model == {"m", "x"}                     \* the managed model, and an alias
Alloc == Adopted \cup 1 .. MaxOps
NoAlloc == -1
Op == 1 .. MaxOps

VARIABLES pol,     \* the saved policy record
          tick,    \* the controller's child: where it is and its copy p
          reg,     \* the route registry: model -> [rev, reps]
          ops,     \* operation -> its intent and its receipt
          keeper,  \* the preparation keeper: [op, at]
          live,    \* allocations with memory reserved on donors
          dead,    \* live allocations of which a process exited
          drained, \* allocations whose retirement began
          build,   \* the operator's model-add or model-update under way
          edits, faults

vars == <<pol, tick, reg, ops, keeper, live, dead, drained, build, edits, faults>>

NoTick == [at |-> "off"]
NoKeeper == [op |-> 0, at |-> "off"]
NoBuild == [model |-> "none"]
NoRoute == [rev |-> 0, reps |-> <<>>]

Routed(a, models) == \E m \in models : a \in Range(reg[m].reps)

-----------------------------------------------------------------------------
(* lmb_elastic_total: a replica about to be withdrawn is still charged as   *)
(* resident, so its pending charge is not counted twice                     *)
Total(p) == FoldLeft(LAMBDA s, n : s + n, IF p.phase = "shrink" THEN 0 ELSE p.bytes, p.res)

(* lmb_elastic_valid, as lmb_elastic_encode asks for it before every save *)
Valid(p) ==
  /\ Len(p.route.reps) <= MaxReplicas /\ Total(p) <= MaxBytes
  /\ p.phase = "idle" => p.bytes = 0 /\ p.pend = NoAlloc /\ p.op = 0
  /\ p.phase # "idle" => p.bytes > 0
  /\ p.phase \in {"preparing", "grow"} => p.op # 0 /\ Len(p.route.reps) < MaxReplicas
  /\ p.phase \in {"grow", "shrink", "retiring"} => p.pend # NoAlloc
  /\ p.phase = "grow" => p.target.reps = Append(p.route.reps, p.pend)
  /\ p.phase = "shrink" => p.pend \in Range(p.route.reps) /\ p.target.reps = Remove(p.route.reps, p.pend)

(* lmb_elastic_idle *)
Idle(p) == [p EXCEPT !.phase = "idle", !.bytes = 0, !.pend = NoAlloc, !.op = 0, !.target = NoRoute]

Fault(p) == [p EXCEPT !.faulted = TRUE]

At(s, a) == CHOOSE i \in DOMAIN s : s[i] = a

(* Mutant: the charge of the last replica is dropped with a withdrawn one. *)
BugReconcile(p, current) ==
  IF p.route = current THEN p
  ELSE IF p.phase = "grow" /\ p.target = current
  THEN Idle([p EXCEPT !.res = Append(@, p.bytes), !.route = current])
  ELSE IF p.phase = "shrink" /\ p.target = current
  THEN Idle([p EXCEPT !.res = RemoveAt(@, At(p.route.reps, p.pend)), !.route = current])
  ELSE Fault(p)

(* lmb_elastic_reconcile: only the exact old or the exact intended record   *)
(* is recognised; anything else stops automation and keeps what is owned    *)
Reconcile(p, current) ==
  IF p.route = current THEN p
  ELSE IF p.phase = "grow" /\ p.target = current
  THEN Idle([p EXCEPT !.res = Append(@, p.bytes), !.route = current])
  ELSE IF p.phase = "shrink" /\ p.target = current
  THEN [p EXCEPT !.res = RemoveAt(@, At(p.route.reps, p.pend)), !.route = current, !.phase = "retiring"]
  ELSE Fault(p)

(* lmb_elastic_withdraw of replica number i *)
Withdraw(p, i) ==
  [p EXCEPT !.bytes = p.res[i], !.pend = p.route.reps[i], !.phase = "shrink",
            !.target = [rev |-> p.route.rev + 1, reps |-> RemoveAt(p.route.reps, i)]]

Unobserved(p) == [p EXCEPT !.health = [i \in DOMAIN p.route.reps |-> "unknown"], !.seen = p.route.rev]

NoOp == [intent |-> "none", state |-> "none", alloc |-> NoAlloc, ready |-> FALSE]

Init ==
  /\ reg = [m \in Model |-> [rev |-> 1, reps |-> IF m = "m" THEN SetToSeq(Adopted) ELSE <<>>]]
  /\ pol = [enabled |-> TRUE, faulted |-> FALSE, phase |-> "idle", route |-> reg["m"], target |-> NoRoute,
            res |-> [i \in DOMAIN reg["m"].reps |-> Size[reg["m"].reps[i]]],
            pend |-> NoAlloc, bytes |-> 0, op |-> 0,
            health |-> [i \in DOMAIN reg["m"].reps |-> "unknown"], seen |-> 1]
  /\ tick = NoTick
  /\ ops = [n \in Op |-> NoOp]
  /\ keeper = NoKeeper
  /\ live = Adopted
  /\ dead = {}
  /\ drained = {}
  /\ build = NoBuild
  /\ edits = 0
  /\ faults = 0

-----------------------------------------------------------------------------
(* Where the tick stands, with its copy p of the policy *)
Goes(at, p) == tick' = [at |-> at, p |-> p]

(* api_elastic_tick and the head of api_elastic_tick_one: the saved policy  *)
(* is loaded under the lock of the elastic directory and reconciled with    *)
(* the registry; the phase decides what the tick does                       *)
Begin ==
  /\ tick = NoTick
  /\ ~pol.faulted /\ (pol.enabled \/ pol.phase # "idle")
  /\ LET p == Reconcile(pol, reg["m"])
     IN Goes(CASE p.faulted -> "save"
               [] p.phase = "preparing" -> "prepare"
               [] p.phase \in {"grow", "shrink"} -> IF p.enabled THEN "publish" ELSE "save"
               [] p.phase = "retiring" -> "retire"
               [] OTHER -> "decide", p)
  /\ UNCHANGED <<pol, reg, ops, keeper, live, dead, drained, build, edits, faults>>

(* lmb_elastic_save: the record of an invalid policy is never written, and  *)
(* a failed write may or may not have replaced it                           *)
Stored(p) ==
  \/ Valid(p) /\ pol' = p /\ UNCHANGED faults
  \/ ~Valid(p) /\ UNCHANGED <<pol, faults>>
  \/ faults < MaxFaults /\ faults' = faults + 1 /\ UNCHANGED pol

Save ==
  /\ tick.at = "save"
  /\ Stored(tick.p)
  /\ tick' = NoTick
  /\ UNCHANGED <<reg, ops, keeper, live, dead, drained, build, edits>>

(* The alarm of the child, or a crash of the gateway *)
Kill ==
  /\ tick # NoTick
  /\ faults < MaxFaults
  /\ faults' = faults + 1
  /\ tick' = NoTick
  /\ UNCHANGED <<pol, reg, ops, keeper, live, dead, drained, build, edits>>

-----------------------------------------------------------------------------
(* api_elastic_probe and lmb_elastic_health_observe: one replica per tick;  *)
(* "down" stands for three separated failures within one observer           *)
Probed(p) ==
  LET fresh == IF p.seen = p.route.rev THEN p ELSE Unobserved(p)
  IN {fresh, Unobserved(p)} \cup
     {[fresh EXCEPT !.health[i] = h] : i \in DOMAIN p.route.reps, h \in {"unknown", "ready", "down"}}

(* What lmb_elastic_choose and lmb_elastic_health_choice may answer: demand *)
(* and idleness are any, the limits and the health of every replica count   *)
MayGrow(p) == p.enabled /\ Len(p.route.reps) < MaxReplicas
MayShrink(p) ==
  /\ p.enabled /\ Len(p.route.reps) > MinReplicas
  /\ \A i \in DOMAIN p.route.reps : p.health[i] = "ready"

(* api_elastic_failed_candidate: down, and a participant proved its exit *)
Failed(p) == {i \in DOMAIN p.route.reps : p.enabled /\ p.health[i] = "down" /\ p.route.reps[i] \in dead}

(* api_elastic_begin_grow: the reviewed bytes must fit next to all charged  *)
(* ones; the intent is saved before anything is asked of a donor            *)
NextOp == Min({n \in Op : ops[n] = NoOp /\ n # pol.op})
BeginGrow(p) ==
  /\ \E n \in Op : ops[n] = NoOp /\ n # pol.op
  /\ Review[NextOp] <= MaxBytes - Total(p)
  /\ LET q == [p EXCEPT !.op = NextOp, !.bytes = Review[NextOp], !.phase = "preparing"]
     IN \/ Valid(q) /\ pol' = q /\ Goes("prepare", q) /\ UNCHANGED faults
        \/ /\ faults < MaxFaults /\ faults' = faults + 1
           /\ Goes("save", q)
           /\ UNCHANGED pol

Decide ==
  /\ tick.at = "decide"
  /\ \E p \in Probed(tick.p) :
       \/ MayGrow(p) /\ BeginGrow(p)
       \/ /\ UNCHANGED <<pol, faults>>
          /\ \/ \E i \in Failed(p) : Goes("save", Withdraw(p, i))
             \/ Failed(p) = {} /\ MayShrink(p) /\ Goes("save", Withdraw(p, Len(p.route.reps)))
             \/ Failed(p) = {} /\ Goes("save", p)
  /\ UNCHANGED <<reg, ops, keeper, live, dead, drained, build, edits>>

-----------------------------------------------------------------------------
(* The checks of api_elastic_prepare on a finished preparation: the size,   *)
(* a live host with the same contract, and the policy still enabled         *)
Finished(p, a) ==
  IF Size[a] > p.bytes THEN "fault"
  ELSE IF a \notin live \/ a \in dead \cup drained \/ ~p.enabled THEN "wait"
  ELSE "grow"

(* api_elastic_prepare.  Without an intent nothing was ever offered: the    *)
(* operation may be dropped or started.  With one, it is only observed.     *)
Prepare ==
  /\ tick.at = "prepare"
  /\ LET p == tick.p
         o == ops[p.op]
         q == [p EXCEPT !.pend = o.alloc]
     IN CASE o.intent = "none" ->
               \/ Goes("save", Idle(p)) /\ UNCHANGED ops
               \/ /\ p.enabled
                  /\ \/ ops' = [ops EXCEPT ![p.op].intent = "ok"] /\ Goes("receipt", p)
                     \/ ops' = [ops EXCEPT ![p.op].intent = "bad"] /\ Goes("save", p)
          [] o.intent = "bad" \/ o.state \in {"none", "failed"} -> Goes("save", Fault(p)) /\ UNCHANGED ops
          [] o.state = "running" -> Goes("save", p) /\ UNCHANGED ops
          [] o.alloc = NoAlloc \/ ~o.ready -> Goes("save", Fault(p)) /\ UNCHANGED ops
          [] OTHER ->
               /\ UNCHANGED ops
               /\ LET what == Finished(p, o.alloc)
                  IN Goes("save", CASE what = "fault" -> Fault(q)
                                    [] what = "wait" -> q
                                    [] what = "grow" ->
                                         [q EXCEPT !.phase = "grow",
                                                   !.target = [rev |-> p.route.rev + 1,
                                                               reps |-> Append(p.route.reps, o.alloc)]])
  /\ UNCHANGED <<pol, reg, keeper, live, dead, drained, build, edits, faults>>

(* preparation_execute after the intent: the first receipt, then the keeper *)
Receipt ==
  /\ tick.at = "receipt"
  /\ \/ ops' = [ops EXCEPT ![tick.p.op].state = "running"] /\ Goes("spawn", tick.p) /\ UNCHANGED faults
     \/ faults < MaxFaults /\ faults' = faults + 1 /\ Goes("save", tick.p) /\ UNCHANGED ops
  /\ UNCHANGED <<pol, reg, keeper, live, dead, drained, build, edits>>

(* home_prepare_portfolio_begin: one keeper per household, by its lock *)
Spawn ==
  /\ tick.at = "spawn"
  /\ keeper' = IF keeper = NoKeeper THEN [op |-> tick.p.op, at |-> "assign"] ELSE keeper
  /\ Goes("save", tick.p)
  /\ UNCHANGED <<pol, reg, ops, live, dead, drained, build, edits, faults>>

-----------------------------------------------------------------------------
(* api_elastic_publish, under the lock of the registry: the whole old       *)
(* record must still be there, and a withdrawn replica must not be another  *)
(* model's; the write may fail                                              *)
Publish ==
  /\ tick.at = "publish"
  /\ LET p == tick.p
     IN \/ /\ reg["m"] = p.route
           /\ p.phase = "shrink" => ~Routed(p.pend, Model \ {"m"})
           /\ reg' = [reg EXCEPT !["m"] = p.target]
        \/ UNCHANGED reg
  /\ Goes("settle", tick.p)
  /\ UNCHANGED <<pol, ops, keeper, live, dead, drained, build, edits, faults>>

(* Whatever the publication answered, the registry says what happened *)
Settle ==
  /\ tick.at = "settle"
  /\ Goes("save", Reconcile(tick.p, reg["m"]))
  /\ UNCHANGED <<pol, reg, ops, keeper, live, dead, drained, build, edits, faults>>

(* api_elastic_unshared: another model's route names the allocation *)
Shared(a) == Routed(a, Model \ {"m"})

(* The retiring phase: the registry's lock is taken without waiting, and    *)
(* held over the look at the other models and the retirement               *)
Retire ==
  /\ tick.at = "retire"
  /\ \/ ~Shared(tick.p.pend) /\ Goes("drain", tick.p)
     \/ Goes("save", tick.p)
  /\ UNCHANGED <<pol, reg, ops, keeper, live, dead, drained, build, edits, faults>>

(* Mutant: the lock is let go between the look and the retirement. *)
BugLocked == FALSE

(* The tick holds the lock of the route registry *)
Locked == tick.at = "drain"

(* api_retirement_execute: the replica drains, and the charge stays until   *)
(* the retirement is complete                                               *)
Drain ==
  /\ tick.at = "drain"
  /\ drained' = drained \cup {tick.p.pend}
  /\ \/ Goes("save", tick.p) /\ UNCHANGED live
     \/ live' = live \ {tick.p.pend} /\ Goes("save", Idle(tick.p))
  /\ UNCHANGED <<pol, reg, ops, keeper, dead, build, edits, faults>>

-----------------------------------------------------------------------------
(* home_service_preparation_assign: the receipt names the allocation before *)
(* any donor is asked; a failed save ends the preparation                   *)
Assign(n) ==
  /\ keeper = [op |-> n, at |-> "assign"]
  /\ ops' = [ops EXCEPT ![n].alloc = n]
  /\ keeper' = [keeper EXCEPT !.at = "offer"]
  /\ UNCHANGED live

(* The keeper offers, observes READY and writes its last receipt, or fails  *)
(* and cancels; a lost cancel leaves the allocation with its donors         *)
Keeps(n) ==
  /\ \/ Assign(n)
     \/ /\ keeper = [op |-> n, at |-> "offer"]
        /\ live' = live \cup {n}
        /\ keeper' = [keeper EXCEPT !.at = "wait"]
        /\ UNCHANGED ops
     \/ /\ keeper = [op |-> n, at |-> "wait"]
        /\ ops' = [ops EXCEPT ![n].ready = TRUE, ![n].state = "done"]
        /\ keeper' = NoKeeper
        /\ UNCHANGED live
     \/ /\ keeper.op = n /\ keeper.at # "off"
        /\ ops' = [ops EXCEPT ![n].state = "failed"]
        /\ keeper' = NoKeeper
        /\ live' \in {live, live \ {n}}
  /\ UNCHANGED <<pol, tick, reg, dead, drained, build, edits, faults>>

(* A keeper dies without a last receipt, a donor lets go of an allocation   *)
(* that never became ready, or a process of a replica exits                 *)
Breaks ==
  /\ faults < MaxFaults
  /\ faults' = faults + 1
  /\ \/ keeper # NoKeeper /\ keeper' = NoKeeper /\ UNCHANGED <<live, dead>>
     \/ /\ \E n \in live \cap Op : n # keeper.op /\ ~ops[n].ready /\ live' = live \ {n}
        /\ UNCHANGED <<keeper, dead>>
     \/ \E a \in live \ dead : dead' = dead \cup {a} /\ UNCHANGED <<keeper, live>>
  /\ UNCHANGED <<pol, tick, reg, ops, drained, build, edits>>

-----------------------------------------------------------------------------
Edit == edits < MaxEdits /\ edits' = edits + 1

(* api_elastic_configure takes the lock the tick holds *)
Configures ==
  /\ Edit
  /\ tick = NoTick
  /\ \/ \* disable, or resume a policy that is not faulted
        /\ \E on \in BOOLEAN : (on => ~pol.faulted) /\ pol' = [pol EXCEPT !.enabled = on]
        /\ UNCHANGED ops
     \/ \* configure again: idle, and nothing the old policy owned is dropped
        /\ pol.phase = "idle"
        /\ LET now == reg["m"].reps
               q == [pol EXCEPT !.enabled = TRUE, !.faulted = FALSE, !.route = reg["m"],
                                !.res = [i \in DOMAIN now |-> Size[now[i]]]]
           IN /\ Range(pol.route.reps) \subseteq Range(now)
              /\ \A a \in Range(now) : a \in live \ (dead \cup drained)
              /\ Valid(q)
              /\ pol' = Unobserved(q)
        /\ UNCHANGED ops
  /\ UNCHANGED <<tick, reg, keeper, live, dead, drained, build, faults>>

(* The receipt proves that nothing is outstanding: no allocation was ever   *)
(* assigned, or the assigned one completed its retirement                   *)
Unassigned(o) == o.alloc = NoAlloc \/ (o.alloc \in drained /\ o.alloc \notin live)

(* api_elastic_recover_preparation, with the keeper's lock held: the        *)
(* operation is closed, or its completed result is observed again           *)
Recovers ==
  /\ Edit
  /\ tick = NoTick /\ keeper = NoKeeper
  /\ pol.phase = "preparing" /\ pol.route = reg["m"]
  /\ LET o == ops[pol.op]
     IN /\ o.intent = "ok" /\ o.state # "none"
        /\ \/ /\ Unassigned(o)
              /\ ops' = [ops EXCEPT ![pol.op].state = "failed"]
              /\ pol' = [Idle(pol) EXCEPT !.faulted = FALSE]
           \/ /\ ~Unassigned(o) /\ o.state = "done" /\ o.ready
              /\ pol' = [pol EXCEPT !.faulted = FALSE]
              /\ UNCHANGED ops
  /\ UNCHANGED <<tick, reg, keeper, live, dead, drained, build, faults>>

(* api_route_admin: the replicas are checked live first, without any lock,  *)
(* and the route is saved only at the revision that was read, and refused   *)
(* while the tick holds the registry's lock                                 *)
Builds ==
  /\ Edit
  /\ build = NoBuild
  /\ \E m \in Model, s \in SeqOf(Alloc, 2) :
       /\ s # <<>> /\ IsInjective(s)
       /\ Range(s) \subseteq live \ (dead \cup drained)
       /\ build' = [model |-> m, rev |-> reg[m].rev, reps |-> s]
  /\ UNCHANGED <<pol, tick, reg, ops, keeper, live, dead, drained, faults>>

(* lmb_route_save_many: the lock of the registry is free, and the route is  *)
(* still at the revision that was read                                      *)
lmb_route_save(r) == ~Locked /\ reg[r.model].rev = r.rev
Saves ==
  /\ build # NoBuild
  /\ reg' = IF lmb_route_save(build)
            THEN [reg EXCEPT ![build.model] = [rev |-> build.rev + 1, reps |-> build.reps]]
            ELSE reg
  /\ build' = NoBuild
  /\ UNCHANGED <<pol, tick, ops, keeper, live, dead, drained, edits, faults>>

(* The operator retires an allocation that no route names *)
Retires ==
  /\ Edit
  /\ \E a \in live :
       /\ ~Routed(a, Model)
       /\ drained' = drained \cup {a}
       /\ live' \in {live, live \ {a}}
  /\ UNCHANGED <<pol, tick, reg, ops, keeper, dead, build, faults>>

Ticks == Begin \/ Decide \/ Prepare \/ Receipt \/ Spawn \/ Publish \/ Settle \/ Retire \/ Drain \/ Save
Operates == Configures \/ Recovers \/ Builds \/ Saves \/ Retires

Next == Ticks \/ Operates \/ Kill \/ Breaks \/ \E n \in Op : Keeps(n)

Spec == Init /\ [][Next]_vars

-----------------------------------------------------------------------------
(* Whatever is killed, fails to save or is edited meanwhile: every          *)
(* allocation that holds memory is one the saved policy still names (a      *)
(* replica of its route, its pending allocation, or the result of its       *)
(* pending operation), and so the household never holds more replicas or    *)
(* more reviewed bytes than the owner approved.                             *)
ElasticSound ==
  LET owned == Range(pol.route.reps) \cup {pol.pend} \cup IF pol.phase = "preparing" THEN {pol.op} ELSE {}
      charge(a) == IF a \in Op THEN Review[a] ELSE Size[a]
  IN /\ live \subseteq owned
     /\ Cardinality(live) <= MaxReplicas
     /\ MapThenSumSet(charge, live) <= MaxBytes
     /\ pol.phase = "idle" => Len(pol.res) = Len(pol.route.reps)

(* What the controller drains or releases no other model's route names, at  *)
(* that moment and not only when it looked: "An existing replica shared     *)
(* through another logical model cannot be retired by this policy until the *)
(* other reference is removed" (docs/ELASTIC_REPLICAS.md:87).  An alias may  *)
(* be validated and saved at any time, also between two ticks of a          *)
(* retirement that has begun.                                               *)
LeavesOthers ==
    \A a \in (drained' \ drained) \cup (live \ live') :
        tick.at = "drain" /\ a = tick.p.pend => ~Shared(a)
=============================================================================
