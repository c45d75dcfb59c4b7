---------------------------- MODULE ReplicaEvidence ----------------------------
(***************************************************************************)
(* What a model's route knows of its replicas, and the order it tries them *)
(* in: one observation per completed turn, kept in a bounded set of        *)
(* profile slots; the load of the participating machines; and the ranking  *)
(* of the replicas under the owner's policy (lumabri_calibration.h and     *)
(* _store.h, planner/lumabri_calibration_profiles.h,                       *)
(* lumabri_turn_observation.h, lumabri_replica_load.h, _rank.h,            *)
(* runtime/lumabri_route_evidence.h, catalog_record_turn in lumabri.c).    *)
(*                                                                         *)
(* Gateway workers and chats finish turns concurrently, with clocks that   *)
(* may deliver an older observation later; each may be killed between any  *)
(* two effects.  The key of an observation is the replica's plan with the  *)
(* resident workload of its machines; every other field of it is fixed by  *)
(* the plan.  Rates and times are integers; the band of 5% is kept.        *)
(***************************************************************************)
EXTENDS Integers, Sequences, FiniteSets, SequencesExt, FiniteSetsExt

CONSTANTS Turn,      \* processes that record turns
          Replica,   \* the replicas of the route: 1 .. n in the owner's order
          NodesOf,   \* replica -> the machines of its plan, with repetitions
          Need,      \* bytes its plan reserves on each machine
          Facts,     \* machine -> its price: [known, cur, micro]
          Rates,     \* what a turn can measure: [decode, ttft, prompt, tokens, source]
          Reports,   \* initial inventories: machine -> a report, or NoReport
          Held,      \* initial sets of replicas held by turns of the gateway
          Seeds,     \* initial profile slots
          SlotCount, \* LMB_CAL_PROFILE_SLOTS
          Policies,  \* the policies asked for
          Fresh,     \* 300 seconds
          MaxPending, MaxLoadAge, \* limits of a valid load
          MaxTime, MaxMoves, MaxTurns, MaxFaults \* bounds

NoReport == [known |-> FALSE]
NoRecord == [at |-> 0]
Idle == [at |-> "idle"]
Slots == 1 .. SlotCount

VARIABLES report,  \* machine -> its leased report: work, reserved, active, queued, age
          held,    \* replicas a turn of this gateway holds
          usable,  \* replicas whose approved plan still matches the route
          slots,   \* slot -> a profile record or NoRecord
          pending, \* the transaction file: "none", "part" or "whole"
          lock,    \* the holder of write.lock, or 0
          latest,  \* the record per checkpoint that the catalogue shows
          t,       \* process -> where its observation is
          chosen,  \* the last decision: [facts, order, why, policy]
          now, moves, turns, faults,
          best     \* history: key -> newest record published and not evicted since

vars == <<report, held, usable, slots, pending, lock, latest, t, chosen,
          now, moves, turns, faults, best>>

-----------------------------------------------------------------------------
(* Observations: keys, matching and the profile slots. *)

\* A report from each machine, with a known workload that covers the plan.
Captured(r) == \A h \in Range(NodesOf[r]) : report[h].known /\ report[h].reserved >= Need[r]

CaptureKey(r) == [replica |-> r, work |-> [h \in Range(NodesOf[r]) |-> report[h].work]]

Matches(key, rec) == rec # NoRecord /\ rec.key = key

\* Counts continue a matching record that is not newer.
Count(rec, prior) ==
  IF Matches(rec.key, prior) /\ rec.at >= prior.at
  THEN [rec EXCEPT !.samples = prior.samples + 1] ELSE rec

\* lmb_cal_profile_load: the newest readable match.
Loaded(key) ==
  LET match == {i \in Slots : Matches(key, slots[i])}
  IN IF match = {} THEN NoRecord
     ELSE slots[CHOOSE i \in match : \A j \in match :
                  slots[j].at < slots[i].at \/ (slots[j].at = slots[i].at /\ i <= j)]

\* Mutant: a delayed writer replaces whatever matches.
BugTarget(rec, seen) ==
  LET match == {i \in Slots : Matches(rec.key, seen[i])}
      empty == {i \in Slots : seen[i] = NoRecord}
  IN IF match # {} THEN Min(match)
     ELSE IF empty # {} THEN Min(empty)
     ELSE Min({i \in Slots : \A j \in Slots : seen[i].at <= seen[j].at})

\* The slot a store replaces, or 0 when a newer match is already there.  An
\* unreadable slot counts as empty.
Target(rec, seen) ==
  LET match == {i \in Slots : Matches(rec.key, seen[i])}
      empty == {i \in Slots : seen[i] = NoRecord}
  IN IF match # {} THEN IF seen[Min(match)].at > rec.at THEN 0 ELSE Min(match)
     ELSE IF empty # {} THEN Min(empty)
     ELSE Min({i \in Slots : \A j \in Slots : seen[i].at <= seen[j].at})

-----------------------------------------------------------------------------
(* Loads and prices of a replica, each distinct machine once. *)

Distinct(r) == Range(NodesOf[r])

Pending(h) == report[h].active + report[h].queued

Sum(S, f(_)) == FoldSet(LAMBDA h, n : n + f(h), 0, S)

NoLoad == [nodes |-> 0, max |-> 0, total |-> 0]

\* Any machine whose report is old makes the whole load unknown.
LoadOf(r) ==
  IF \E h \in Distinct(r) : report[h].age > MaxLoadAge THEN NoLoad
  ELSE [nodes |-> Cardinality(Distinct(r)), max |-> Max({Pending(h) : h \in Distinct(r)}),
        total |-> Sum(Distinct(r), Pending)]

LoadValid(l) ==
  l.nodes > 0 /\ l.max <= MaxPending /\ l.total >= l.max /\ l.total <= l.max * l.nodes

\* -1, 0 or 1, as both compare functions do
Before(a, b) ==
  IF a.max # b.max THEN IF a.max < b.max THEN -1 ELSE 1
  ELSE IF a.total # b.total THEN IF a.total < b.total THEN -1 ELSE 1 ELSE 0

\* Turns of this gateway on the machines of a replica.
GatewayLoad(r) ==
  LET On(h) == Cardinality({k \in held : h \in Distinct(k)})
  IN [known |-> TRUE, max |-> Max({On(h) : h \in Distinct(r)}), total |-> Sum(Distinct(r), On)]

PriceOf(r) ==
  LET known == \A h \in Distinct(r) : Facts[h].known
      curs == {Facts[h].cur : h \in Distinct(r)}
  IN IF known /\ Cardinality(curs) = 1
     THEN [known |-> TRUE, cur |-> CHOOSE c \in curs : TRUE,
           micro |-> Sum(Distinct(r), LAMBDA h : Facts[h].micro)]
     ELSE [known |-> FALSE, cur |-> "", micro |-> 0]

NoRate == [decode |-> 0, ttft |-> 0, prompt |-> 0, tokens |-> 0, source |-> "none"]
Unknown == [usable |-> TRUE, price |-> [known |-> FALSE, cur |-> "", micro |-> 0],
            load |-> NoLoad, gateway |-> [known |-> FALSE, max |-> 0, total |-> 0],
            rate |-> NoRate, at |-> 0]

\* api_replica_evidence: a matching plan whose facts are missing stays
\* eligible, and looks neither idle nor cheap.
Evidence(r) ==
  LET rec == Loaded(CaptureKey(r))
  IN IF r \notin usable THEN [Unknown EXCEPT !.usable = FALSE]
     ELSE IF ~Captured(r) THEN [Unknown EXCEPT !.gateway = GatewayLoad(r)]
     ELSE [usable |-> TRUE, price |-> PriceOf(r), load |-> LoadOf(r), gateway |-> GatewayLoad(r),
           rate |-> IF rec = NoRecord THEN NoRate ELSE rec.rate, at |-> rec.at]

-----------------------------------------------------------------------------
(* The ranking. *)

Value(e, first) == IF first THEN e.rate.ttft ELSE e.rate.decode

\* Comparable completed observations of every usable replica.
TimingKnown(ev, first) ==
  LET use == {i \in Replica : ev[i].usable}
  IN /\ \A i \in use : /\ Value(ev[i], first) > 0 /\ ev[i].at > 0
                       /\ now >= ev[i].at /\ now - ev[i].at <= Fresh
                       /\ ev[i].rate.prompt > 0 /\ ev[i].rate.tokens >= IF first THEN 1 ELSE 8
     /\ \A i, j \in use : /\ ev[i].rate.prompt = ev[j].rate.prompt
                          /\ ev[i].rate.tokens = ev[j].rate.tokens
                          /\ first => ev[i].rate.source = ev[j].rate.source
     /\ first => \A i \in use : ev[i].rate.source \in {"probe", "session"}

Owner == [i \in Replica |-> i]

LoadAware(policy) == policy \in {"load", "latency"}

\* Why the owner's order stands, or "ranked".
Reason(policy, ev) ==
  LET use == {i \in Replica : ev[i].usable}
  IN CASE policy = "ordered" -> "operator_order"
       [] policy = "decode" /\ ~TimingKnown(ev, FALSE) -> "observations"
       [] LoadAware(policy) /\ (\E i \in use : ~LoadValid(ev[i].load)) -> "workload_missing_or_expired"
       [] policy = "cost" /\ ((\E i \in use : ~ev[i].price.known)
                              \/ Cardinality({ev[i].price.cur : i \in use}) > 1)
            -> "prices_missing_or_mixed_currency"
       [] use = {} -> "no_approved_plan"
       [] OTHER -> "ranked"

\* What decides: load and the gateway's turns, then a time, a rate or a price.
Terms(policy, ev) ==
  [aware |-> LoadAware(policy),
   gateway |-> LoadAware(policy) /\ \A i \in Replica : ev[i].usable => ev[i].gateway.known,
   by |-> CASE policy = "latency" /\ TimingKnown(ev, TRUE) -> "first"
            [] policy = "decode" -> "decode"
            [] policy = "load" /\ TimingKnown(ev, FALSE) -> "decode"
            [] policy = "cost" -> "cost"
            [] OTHER -> "nothing"]

\* Machines first, this gateway's turns on them second.
LoadOrder(d, ev, i, j) ==
  LET work == IF d.aware THEN Before(ev[i].load, ev[j].load) ELSE 0
  IN IF work = 0 /\ d.gateway THEN Before(ev[i].gateway, ev[j].gateway) ELSE work

Better(d, ev, i, j) ==
  CASE d.by = "first" -> ev[i].rate.ttft < ev[j].rate.ttft
    [] d.by = "decode" -> ev[i].rate.decode > ev[j].rate.decode
    [] d.by = "cost" -> ev[i].price.micro < ev[j].price.micro
    [] OTHER -> FALSE

Timed(d) == d.by \in {"first", "decode"}

\* Within 5% of the best remaining score.
InBand(d, ev, i, b) ==
  IF d.by = "first" THEN 100 * ev[i].rate.ttft <= 105 * ev[b].rate.ttft
  ELSE 105 * ev[i].rate.decode >= 100 * ev[b].rate.decode

Ahead(d, ev, i, j) ==
  LET o == LoadOrder(d, ev, i, j) IN o < 0 \/ (o = 0 /\ Better(d, ev, i, j))

\* Mutant: the band is applied across different loads.
BugPick(d, ev, left) ==
  LET use == {i \in left : ev[i].usable}
      top == Min({i \in use : \A j \in use : ~Ahead(d, ev, j, i)})
      band == {i \in use : i <= top /\ InBand(d, ev, i, top)}
  IN IF use = {} THEN Min(left) ELSE IF Timed(d) THEN Min(band) ELSE top

\* The next replica: the best remaining one, or the first in the owner's
\* order that is as loaded and within the band; then the unusable ones.
Pick(d, ev, left) ==
  LET use == {i \in left : ev[i].usable}
      top == Min({i \in use : \A j \in use : ~Ahead(d, ev, j, i)})
      band == {i \in use : i <= top /\ LoadOrder(d, ev, i, top) = 0 /\ InBand(d, ev, i, top)}
  IN IF use = {} THEN Min(left) ELSE IF Timed(d) THEN Min(band) ELSE top

Rank(policy, ev) ==
  LET d == Terms(policy, ev)
  IN IF Reason(policy, ev) # "ranked" THEN Owner
     ELSE FoldLeft(LAMBDA order, k : Append(order, Pick(d, ev, Replica \ Range(order))),
                   <<>>, Owner)

-----------------------------------------------------------------------------
Init ==
  /\ report \in Reports /\ held \in Held /\ usable = Replica
  /\ slots \in Seeds /\ pending = "none" /\ lock = 0 /\ latest = NoRecord
  /\ t = [p \in Turn |-> Idle] /\ chosen = [why |-> "none"]
  /\ now = 1 /\ moves = 0 /\ turns = 0 /\ faults = 0
  /\ best = {slots[i] : i \in {j \in Slots : slots[j] # NoRecord}}

Tick == now < MaxTime /\ now' = now + 1
        /\ UNCHANGED <<report, held, usable, slots, pending, lock, latest, t, chosen, moves, turns, faults, best>>

\* External: a machine's resident set changes, or a plan leaves the route.
Move ==
  /\ moves < MaxMoves /\ moves' = moves + 1
  /\ \/ \E h \in DOMAIN report : /\ report[h].known
                                 /\ report' = [report EXCEPT ![h].work = 1 - @] /\ UNCHANGED usable
     \/ \E r \in Replica : usable' = usable \ {r} /\ UNCHANGED report
  /\ UNCHANGED <<held, slots, pending, lock, latest, t, chosen, now, turns, faults, best>>

\* A turn starts under the key captured before it.
Start(p, r) ==
  /\ t[p] = Idle /\ turns < MaxTurns /\ turns' = turns + 1 /\ Captured(r)
  /\ t' = [t EXCEPT ![p] = [at |-> "turn", rec |-> [key |-> CaptureKey(r), rate |-> NoRate,
                                                    at |-> 0, samples |-> 1]]]
  /\ UNCHANGED <<report, held, usable, slots, pending, lock, latest, chosen, now, moves, faults, best>>

\* The turn ends: its observation is dated now.
Observe(p) ==
  /\ t[p].at = "turn"
  /\ \E rate \in Rates :
       t' = [t EXCEPT ![p] = [at |-> "seen",
               rec |-> Count([t[p].rec EXCEPT !.rate = rate, !.at = now], latest)]]
  /\ UNCHANGED <<report, held, usable, slots, pending, lock, latest, chosen, now, moves, turns, faults, best>>

\* lmb_cal_store: one record per checkpoint; writers may replace each other.
KeepLatest(rec) == latest' = rec

\* The workload must be the one the turn started under, or nothing is saved;
\* then the catalogue's latest record is replaced, or nothing more is saved.
Confirm(p) ==
  LET rec == t[p].rec
      same == Captured(rec.key.replica) /\ CaptureKey(rec.key.replica) = rec.key
  IN /\ t[p].at = "seen"
     /\ \/ /\ same /\ KeepLatest(rec) /\ t' = [t EXCEPT ![p].at = "store"] /\ UNCHANGED faults
        \/ /\ ~same /\ t' = [t EXCEPT ![p] = Idle] /\ UNCHANGED <<latest, faults>>
        \/ /\ same /\ faults < MaxFaults /\ faults' = faults + 1
           /\ t' = [t EXCEPT ![p] = Idle] /\ UNCHANGED latest
     /\ UNCHANGED <<report, held, usable, slots, pending, lock, chosen, now, moves, turns, best>>

\* The profile's lock is not waited for.
Scan(p) ==
  LET to == Target(t[p].rec, slots)
  IN /\ t[p].at = "store"
     /\ IF lock # 0 \/ to = 0
        THEN t' = [t EXCEPT ![p] = Idle] /\ UNCHANGED <<pending, lock>>
        ELSE /\ lock' = p /\ pending' = "part"
             /\ t' = [t EXCEPT ![p] = [at |-> "write", rec |-> t[p].rec, to |-> to]]
     /\ UNCHANGED <<report, held, usable, slots, latest, chosen, now, moves, turns, faults, best>>

\* External: a slot is damaged.  It is no observation from then on.
Damage(i) ==
  /\ slots[i] # NoRecord /\ faults < MaxFaults /\ faults' = faults + 1
  /\ slots' = [slots EXCEPT ![i] = NoRecord] /\ best' = best \ {slots[i]}
  /\ UNCHANGED <<report, held, usable, pending, lock, latest, t, chosen, now, moves, turns>>

Write(p) ==
  /\ t[p].at = "write"
  /\ \/ pending' = "whole" /\ t' = [t EXCEPT ![p].at = "rename"] /\ UNCHANGED <<lock, faults>>
     \/ /\ faults < MaxFaults /\ faults' = faults + 1
        /\ pending' = "none" /\ lock' = 0 /\ t' = [t EXCEPT ![p] = Idle]
  /\ UNCHANGED <<report, held, usable, slots, latest, chosen, now, moves, turns, best>>

Rename(p) ==
  LET old == slots[t[p].to]
      rec == t[p].rec
  IN /\ t[p].at = "rename" /\ pending' = "none" /\ lock' = 0
     /\ slots' = [slots EXCEPT ![t[p].to] = rec] /\ t' = [t EXCEPT ![p] = Idle]
     /\ best' = {b \in best : IF Matches(rec.key, b) THEN b.at > rec.at ELSE b # old}
                \cup {rec : x \in {y \in {1} : ~\E b \in best : Matches(rec.key, b) /\ b.at > rec.at}}
     /\ UNCHANGED <<report, held, usable, latest, chosen, now, moves, turns, faults>>

\* A killed process leaves its transaction file to the next store.
Crash(p) ==
  /\ t[p] # Idle /\ faults < MaxFaults /\ faults' = faults + 1
  /\ t' = [t EXCEPT ![p] = Idle] /\ lock' = IF lock = p THEN 0 ELSE lock
  /\ UNCHANGED <<report, held, usable, slots, pending, latest, chosen, now, moves, turns, best>>

\* api_route_capture and api_route_order, for one turn.
Capture(policy) ==
  LET ev == [r \in Replica |-> Evidence(r)]
  IN /\ chosen.why = "none"
     /\ chosen' = [facts |-> ev, order |-> Rank(policy, ev), why |-> Reason(policy, ev),
                   policy |-> policy]
     /\ UNCHANGED <<report, held, usable, slots, pending, lock, latest, t, now, moves, turns, faults, best>>

\* The turn goes to the replicas in that order.
Taken ==
  /\ chosen.why # "none" /\ chosen' = [why |-> "none"]
  /\ UNCHANGED <<report, held, usable, slots, pending, lock, latest, t, now, moves, turns, faults, best>>

Next ==
  \/ Tick \/ Move
  \/ \E p \in Turn : \/ \E r \in Replica : Start(p, r)
                     \/ Observe(p) \/ Confirm(p) \/ Scan(p) \/ Write(p) \/ Rename(p) \/ Crash(p)
  \/ \E i \in Slots : Damage(i)
  \/ \E policy \in Policies : Capture(policy)
  \/ Taken

Spec == Init /\ [][Next]_vars

-----------------------------------------------------------------------------
(* An observation published for a plan and workload stays the answer of     *)
(* lookups for them until a newer one, or another key, takes its slot ("A   *)
(* delayed writer may not roll a newer observation back"): concurrent       *)
(* writers, crashes and damaged slots never leave  a lookup with an older *)
(* one, and only a writer at work holds the lock.                           *)
NeverRolledBack ==
  /\ \A b \in best : Loaded(b.key).at >= b.at
  /\ lock # 0 => t[lock].at \in {"write", "rename"}

(* The order is a permutation.  It is the owner's where evidence is missing *)
(* or not comparable.  Otherwise usable replicas come first; no replica is  *)
(* ahead of one with less load, nor, at equal load, of one more than 5%     *)
(* better; and the owner's order is reversed only for a strictly better     *)
(* replica.                                                                 *)
RankSound ==
  chosen.why # "none" =>
    LET o == chosen.order
        ev == chosen.facts
        d == Terms(chosen.policy, chosen.facts)
    IN /\ Len(o) = Cardinality(Replica) /\ Range(o) = Replica
       /\ chosen.why # "ranked" => o = Owner
       /\ chosen.why = "ranked" => \A x, y \in DOMAIN o : x < y =>
            LET i == o[x]
                j == o[y]
                load == LoadOrder(d, ev, i, j)
            IN /\ ev[j].usable => ev[i].usable
               /\ ev[i].usable /\ ev[j].usable =>
                    /\ load <= 0
                    /\ load = 0 /\ Timed(d) => InBand(d, ev, i, j)
                    /\ i > j => load < 0 \/ Better(d, ev, i, j)
=============================================================================
