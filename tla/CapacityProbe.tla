----------------------------- MODULE CapacityProbe -----------------------------
(***************************************************************************)
(* The owner's capacity probe: bursts of real requests against approved    *)
(* allocations, the immutable records they leave, and the verdicts and     *)
(* choices that later commands read from those records                     *)
(* (planner/lumabri_capacity.h, planner/lumabri_capacity_store.h and       *)
(* runtime/lumabri_capacity_probe.h; applying a choice is in Portfolio).   *)
(*                                                                         *)
(* Gateway workers and command-line processes run these operations         *)
(* concurrently and may be killed between any two effects on the disk.     *)
(* Machines change their resident workload and hosts drain at any time.    *)
(* A client's answer is what its wire carries; completion times are only   *)
(* reported, and are left out.                                             *)
(***************************************************************************)
EXTENDS Integers, Sequences, FiniteSets, SequencesExt, FiniteSetsExt

CONSTANTS Worker,      \* processes that measure, check, select and remove
          Name,        \* record names
          Mix,         \* the model mixes measured: sequences of allocations
          RoundCounts, \* rounds an owner may ask for
          Clients,     \* requests per round
          Wire,        \* answers a client can get: [status, done, retries, timing]
          Content,     \* allocation -> content and numeric contract
          Machines,    \* allocation -> set of machines
          Price,       \* machine -> [known, cur, micro]
          Huge,        \* UINT64_MAX, for the sum of prices
          MaxRecords,  \* LMB_CAPACITY_RECORDS
          MaxNew,      \* max_new of the requests
          Old,         \* records earlier probes may have left
          Ttft, Gap, MaxAge,          \* the limits of a verdict
          MaxTime, MaxMoves, MaxRuns, \* bounds: clock, cluster changes, commands
          MaxFaults                   \* bound: crashes and failed writes

Allocs == UNION {Range(m) : m \in Mix}
Hosts == UNION {Machines[a] : a \in Allocs}
NoTiming == [first |-> 0, gap |-> 0, prompt |-> 0, tokens |-> 0]
NoSample == [status |-> 0, complete |-> FALSE, timed |-> FALSE, timing |-> NoTiming]
NoFile == [mix |-> <<>>]
Clear == [at |-> "none"]
NoCost == [known |-> FALSE, cur |-> "", micro |-> 0]
Idle == [at |-> "idle"]

VARIABLES work,    \* machine -> its resident workload, as a version
          alive,   \* allocation -> its host answers and is not draining
          files,   \* name -> the published record or NoFile
          pending, \* the transaction file: none, part, whole, or linked to a name
          lock,    \* the holder of probe.lock, or 0
          w,       \* worker -> where its command is
          now, moves, runs, faults,
          clean    \* history: published name -> no snapshot of its run differed

vars == <<work, alive, files, pending, lock, w, now, moves, runs, faults, clean>>

-----------------------------------------------------------------------------
(* Prices and snapshots. *)

CostAdd(c, f) ==
  LET cur == IF c.cur = "" THEN f.cur ELSE c.cur
  IN  IF ~f.known THEN [c EXCEPT !.known = FALSE]
      ELSE IF cur # f.cur \/ Huge - c.micro < f.micro THEN [c EXCEPT !.known = FALSE, !.cur = cur]
      ELSE [c EXCEPT !.cur = cur, !.micro = @ + f.micro]

\* Each machine of the mix is paid once.
Cost(mix) ==
  FoldSet(LAMBDA h, c : CostAdd(c, Price[h]), [known |-> TRUE, cur |-> "", micro |-> 0],
          UNION {Machines[a] : a \in Range(mix)})

KeyHash(a) == [h \in Machines[a] |-> work[h]]

Reachable(mix) == \A a \in Range(mix) : alive[a]

Snapshot(mix) == [m \in DOMAIN mix |-> [alloc |-> mix[m], key |-> KeyHash(mix[m])]]

-----------------------------------------------------------------------------
(* Samples, their summary and the verdict. *)

Parse(wire) ==
  IF wire.status # 200 \/ ~wire.done \/ wire.retries > 0
  THEN [NoSample EXCEPT !.status = wire.status]
  ELSE IF wire.timing.tokens < 2 \/ wire.timing.prompt = 0
  THEN [NoSample EXCEPT !.status = 200, !.complete = TRUE]
  ELSE [status |-> 200, complete |-> TRUE, timed |-> TRUE, timing |-> wire.timing]

\* The model of the i-th sample, counted from 0.
ModelOf(rec, i) == ((i % Clients) % Len(rec.mix)) + 1

Valid(rec) ==
  /\ rec.mix # <<>> /\ Len(rec.mix) <= Clients /\ Cardinality(Range(rec.mix)) = Len(rec.mix)
  /\ Len(rec.samples) = Clients * rec.rounds
  /\ \A i \in DOMAIN rec.samples :
       LET s == rec.samples[i] IN
       /\ s.complete => s.status = 200
       /\ s.timed => s.complete /\ s.timing.prompt > 0 /\ s.timing.tokens \in 2 .. MaxNew
       /\ ~s.timed => s.timing = NoTiming

P95(values) ==
  IF values = <<>> THEN 0 ELSE SortSeq(values, <)[(95 * Len(values) + 99) \div 100]

\* lmb_capacity_summary of one model: every request stays in the denominator.
Summary(rec, m) ==
  LET mine == SelectSeq([i \in DOMAIN rec.samples |-> <<ModelOf(rec, i - 1), rec.samples[i]>>],
                        LAMBDA p : p[1] = m)
      Count(Is(_)) == Len(SelectSeq(mine, LAMBDA p : Is(p[2])))
      timed == SelectSeq(mine, LAMBDA p : p[2].timed)
  IN [requests |-> Len(mine),
      completed |-> Count(LAMBDA s : s.complete),
      rejected |-> Count(LAMBDA s : ~s.complete /\ s.status = 429),
      failed |-> Count(LAMBDA s : ~s.complete /\ s.status # 429),
      measured |-> Len(timed),
      ttft |-> P95([i \in DOMAIN timed |-> timed[i][2].timing.first]),
      gap |-> P95([i \in DOMAIN timed |-> timed[i][2].timing.gap])]

Passed == "observed_workload_passed"

\* The first model that disappoints names the verdict.
ModelVerdict(s) ==
  CASE s.rejected + s.failed > 0 -> "requests_rejected_or_failed"
    [] s.measured # s.requests -> "timing_unavailable"
    [] s.ttft > Ttft \/ s.gap > Gap -> "latency_target_missed"
    [] OTHER -> Passed

Evaluate(rec, current, time) ==
  LET of == [m \in DOMAIN rec.mix |-> ModelVerdict(Summary(rec, m))]
      bad == {m \in DOMAIN of : of[m] # Passed}
  IN  CASE ~Valid(rec) -> "invalid_evidence_or_limits"
        [] ~rec.stable \/ rec.print # current -> "configuration_changed"
        [] time < rec.at \/ time - rec.at > MaxAge -> "expired"
        [] rec.rounds < 3 -> "insufficient_rounds"
        [] OTHER -> IF bad = {} THEN Passed ELSE of[Min(bad)]

\* The same ordered contents, rounds, and one prompt and reply length per model.
Comparable(a, b) ==
  LET Lengths(m) == {<<r.samples[i].timing.prompt, r.samples[i].timing.tokens>> :
                       r \in {a, b}, i \in {j \in DOMAIN a.samples : ModelOf(a, j - 1) = m}}
                    \ {<<0, 0>>}
  IN /\ Valid(a) /\ Valid(b) /\ Len(a.mix) = Len(b.mix) /\ a.rounds = b.rounds
     /\ \A m \in DOMAIN a.mix : Content[a.mix[m]] = Content[b.mix[m]]
     /\ \A m \in DOMAIN a.mix : Cardinality(Lengths(m)) = 1

Verdict(rec) ==
  IF Reachable(rec.mix) THEN Evaluate(rec, Snapshot(rec.mix), now)
  ELSE "inventory_or_runtime_unavailable"

\* Prices decide only when every eligible candidate has one, in one currency.
PricesKnown(costs, eligible) ==
  /\ \A i \in eligible : costs[i].known /\ costs[i].cur # ""
  /\ Cardinality({costs[i].cur : i \in eligible}) <= 1

Choose1(costs, eligible) ==
  IF eligible = {} THEN 0
  ELSE IF ~PricesKnown(costs, eligible) THEN Min(eligible)
  ELSE LET low == Min({costs[i].micro : i \in eligible})
       IN Min({i \in eligible : costs[i].micro = low})

-----------------------------------------------------------------------------
(* The store.  A published record with a second link is not yet private.    *)

Linked(n) == pending.at = "linked" /\ pending.name = n

Readable(n) == files[n] # NoFile /\ ~Linked(n) /\ Valid(files[n])

Room(n) ==
  /\ files[n] = NoFile
  /\ Cardinality({m \in Name : files[m] # NoFile}) < MaxRecords

-----------------------------------------------------------------------------
Init ==
  /\ work = [h \in Hosts |-> 0] /\ alive = [a \in Allocs |-> TRUE]
  /\ files \in [Name -> {NoFile} \cup Old] /\ pending = Clear /\ lock = 0
  /\ w = [p \in Worker |-> Idle]
  /\ clean = [n \in Name |-> files[n] # NoFile /\ files[n].stable]
  /\ now = 1 /\ moves = 0 /\ runs = 0 /\ faults = 0

Tick == now < MaxTime /\ now' = now + 1
        /\ UNCHANGED <<work, alive, files, pending, lock, w, moves, runs, faults, clean>>

\* External: another model is loaded somewhere, or a host drains or returns.
Move ==
  /\ moves < MaxMoves /\ moves' = moves + 1
  /\ \/ \E h \in Hosts : work' = [work EXCEPT ![h] = 1 - @] /\ UNCHANGED alive
     \/ \E a \in Allocs : alive' = [alive EXCEPT ![a] = ~@] /\ UNCHANGED work
  /\ UNCHANGED <<files, pending, lock, w, now, runs, faults, clean>>

\* A measurement takes the lock without waiting, recovers the transaction
\* file, and needs a new name and a first snapshot.
Begin(p, n, mix, rounds) ==
  /\ w[p] = Idle /\ runs < MaxRuns /\ runs' = runs + 1 /\ lock = 0 /\ pending' = Clear
  /\ IF Room(n) /\ Reachable(mix)
     THEN /\ lock' = p
          /\ w' = [w EXCEPT ![p] = [at |-> "burst", name |-> n, round |-> 0, ok |-> TRUE,
                     rec |-> [mix |-> mix, rounds |-> rounds, at |-> now, stable |-> TRUE,
                              print |-> Snapshot(mix),
                              samples |-> [i \in 1 .. Clients * rounds |-> NoSample]]]]
     ELSE UNCHANGED <<lock, w>>
  /\ UNCHANGED <<work, alive, files, now, moves, faults, clean>>

\* One burst: every client's wire is read to its end, or the round is cut
\* short (a stop, a lost observer, a client that hung or failed) after some.
Burst(p) ==
  /\ w[p].at = "burst"
  /\ \E heard \in SUBSET (1 .. Clients) : \E wires \in [heard -> Wire] :
       LET base == w[p].round * Clients
           Put(i) == IF i - base \in heard THEN Parse(wires[i - base]) ELSE w[p].rec.samples[i]
           whole == heard = 1 .. Clients
       IN /\ whole \/ faults < MaxFaults
          /\ faults' = IF whole THEN faults ELSE faults + 1
          /\ w' = [w EXCEPT ![p].rec.samples = [i \in DOMAIN @ |-> Put(i)],
                            ![p].at = IF whole THEN "compare" ELSE "save",
                            ![p].rec.stable = whole, ![p].ok = @ /\ whole]
  /\ UNCHANGED <<work, alive, files, pending, lock, now, moves, runs, clean>>

\* Mutant: the configuration is compared only between rounds.
BugCompare(p) ==
  LET same == Reachable(w[p].rec.mix) /\ Snapshot(w[p].rec.mix) = w[p].rec.print
      last == w[p].round + 1 = w[p].rec.rounds
  IN /\ w[p].at = "compare"
     /\ w' = [w EXCEPT ![p].round = @ + 1, ![p].ok = @ /\ same,
                       ![p].rec.stable = same \/ last,
                       ![p].at = IF same /\ ~last THEN "burst" ELSE "save"]
     /\ UNCHANGED <<work, alive, files, pending, lock, now, moves, runs, faults, clean>>

\* After every round, the last one too, the configuration must be the first
\* one; a stop or an observer that left (cut) also ends the run.
Compare(p) ==
  LET same == Reachable(w[p].rec.mix) /\ Snapshot(w[p].rec.mix) = w[p].rec.print
      last == w[p].round + 1 = w[p].rec.rounds
  IN /\ w[p].at = "compare"
     /\ \E cut \in {0, 1} :
          /\ faults + cut <= MaxFaults /\ faults' = faults + cut
          /\ w' = [w EXCEPT ![p].round = @ + 1, ![p].ok = @ /\ same,
                            ![p].rec.stable = same /\ cut = 0,
                            ![p].at = IF same /\ cut = 0 /\ ~last THEN "burst" ELSE "save"]
     /\ UNCHANGED <<work, alive, files, pending, lock, now, moves, runs, clean>>

Release(p) == lock' = 0 /\ w' = [w EXCEPT ![p] = Idle]

SaveOpen(p) ==
  /\ w[p].at = "save"
  /\ IF Room(w[p].name) /\ Valid(w[p].rec)
     THEN /\ pending' = [at |-> "part"] /\ w' = [w EXCEPT ![p].at = "write"] /\ UNCHANGED lock
     ELSE Release(p) /\ UNCHANGED pending
  /\ UNCHANGED <<work, alive, files, now, moves, runs, faults, clean>>

SaveWrite(p) ==
  /\ w[p].at = "write"
  /\ \/ /\ pending' = [at |-> "whole", rec |-> w[p].rec]
        /\ w' = [w EXCEPT ![p].at = "link"] /\ UNCHANGED <<lock, faults>>
     \/ /\ faults < MaxFaults /\ faults' = faults + 1 /\ pending' = Clear /\ Release(p)
  /\ UNCHANGED <<work, alive, files, now, moves, runs, clean>>

\* linkat never replaces a name.
SaveLink(p) ==
  /\ w[p].at = "link"
  /\ IF files[w[p].name] = NoFile
     THEN /\ files' = [files EXCEPT ![w[p].name] = pending.rec]
          /\ pending' = [at |-> "linked", name |-> w[p].name]
          /\ clean' = [clean EXCEPT ![w[p].name] = w[p].ok]
     ELSE UNCHANGED <<files, pending, clean>>
  /\ w' = [w EXCEPT ![p].at = "unlink"]
  /\ UNCHANGED <<work, alive, lock, now, moves, runs, faults>>

SaveEnd(p) ==
  /\ w[p].at = "unlink" /\ pending' = Clear /\ Release(p)
  /\ UNCHANGED <<work, alive, files, now, moves, runs, faults, clean>>

\* Removal takes the lock without waiting and recovers the transaction file,
\* as a measurement does, so that a record a crash left linked can be removed.
RemoveRecord(p, n) ==
  /\ w[p] = Idle /\ runs < MaxRuns /\ runs' = runs + 1 /\ lock = 0 /\ pending' = Clear
  /\ files' = IF files[n] # NoFile /\ Valid(files[n]) THEN [files EXCEPT ![n] = NoFile] ELSE files
  /\ UNCHANGED <<work, alive, lock, w, now, moves, faults, clean>>

\* A check is a selection of one.
BeginSelect(p, names) ==
  /\ w[p] = Idle /\ runs < MaxRuns /\ runs' = runs + 1
  /\ w' = [w EXCEPT ![p] = [at |-> "select", names |-> names, base |-> NoFile, next |-> 1,
                            eligible |-> {}, costs |-> [i \in DOMAIN names |-> NoCost],
                            seen |-> [i \in DOMAIN names |-> NoFile], picked |-> 0]]
  /\ UNCHANGED <<work, alive, files, pending, lock, now, moves, faults, clean>>

\* One candidate: loaded, compared with the first one, and judged now.
Judge(p) ==
  LET s == w[p]
      i == s.next
      rec == files[s.names[i]]
      base == IF i = 1 THEN rec ELSE s.base
  IN /\ s.at = "select" /\ i <= Len(s.names)
     /\ w' = [w EXCEPT ![p] =
          IF ~Readable(s.names[i]) THEN [s EXCEPT !.next = i + 1]
          ELSE IF base = NoFile \/ ~Comparable(base, rec)
          THEN [s EXCEPT !.next = i + 1, !.base = base]
          ELSE [s EXCEPT !.next = i + 1, !.base = base,
                         !.costs[i] = IF Reachable(rec.mix) THEN Cost(rec.mix) ELSE NoCost,
                         !.seen[i] = [rec |-> rec, clean |-> clean[s.names[i]], age |-> now - rec.at,
                                      same |-> Reachable(rec.mix) /\ Snapshot(rec.mix) = rec.print],
                         !.eligible = IF Verdict(rec) = Passed THEN @ \cup {i} ELSE @]]
     /\ UNCHANGED <<work, alive, files, pending, lock, now, moves, runs, faults, clean>>

Select(p) ==
  /\ w[p].at = "select" /\ w[p].next > Len(w[p].names)
  /\ w' = [w EXCEPT ![p].at = "answered", ![p].picked = Choose1(w[p].costs, w[p].eligible)]
  /\ UNCHANGED <<work, alive, files, pending, lock, now, moves, runs, faults, clean>>

Answered(p) ==
  /\ w[p].at = "answered" /\ w' = [w EXCEPT ![p] = Idle]
  /\ UNCHANGED <<work, alive, files, pending, lock, now, moves, runs, faults, clean>>

\* A killed process loses its lock and leaves its transaction file.
Crash(p) ==
  /\ w[p] # Idle /\ faults < MaxFaults /\ faults' = faults + 1
  /\ w' = [w EXCEPT ![p] = Idle] /\ lock' = IF lock = p THEN 0 ELSE lock
  /\ UNCHANGED <<work, alive, files, pending, now, moves, runs, clean>>

Step(p) ==
  \/ Burst(p) \/ Compare(p) \/ SaveOpen(p) \/ SaveWrite(p) \/ SaveLink(p) \/ SaveEnd(p)
  \/ Judge(p) \/ Select(p) \/ Answered(p)

Next ==
  \/ Tick \/ Move
  \/ \E p \in Worker :
       \/ \E n \in Name, mix \in Mix, k \in RoundCounts : Begin(p, n, mix, k)
       \/ \E n \in Name : RemoveRecord(p, n)
       \/ \E names \in {<<n>> : n \in Name} \cup {<<a, b>> : a, b \in Name} : BeginSelect(p, names)
       \/ Step(p) \/ Crash(p)

Spec == Init /\ [][Next]_vars

-----------------------------------------------------------------------------
(* What a named record and a verdict are worth, however probes, crashes,    *)
(* removals and cluster changes interleave:                                 *)
(*   - a record marked stable comes from a run none of whose snapshots      *)
(*     differed and whose rounds all ended ("No \"pass\" for ... changed    *)
(*     configuration");                                                     *)
(*   - the transaction file is left over only where nobody holds the lock,  *)
(*     or is the holder's own, so it never blocks the next probe;           *)
(*   - a candidate is picked only if, when it was judged, its run was       *)
(*     clean, young enough, of the configuration then current, with every   *)
(*     request of at least three rounds answered and timed within limits,   *)
(*     and comparable with the first candidate;                             *)
(*   - and no other eligible candidate is cheaper where prices decide.      *)
CapacitySound ==
  /\ \A n \in Name : files[n] # NoFile /\ files[n].stable => clean[n]
  /\ lock # 0 => pending = Clear \/ w[lock].at \in {"write", "link", "unlink"}
  /\ \A p \in Worker : w[p] # Idle /\ w[p].at = "answered" =>
       /\ w[p].picked = 0 <=> w[p].eligible = {}
       /\ w[p].picked # 0 =>
            LET s == w[p].seen[w[p].picked]
                first == w[p].base
            IN /\ s.clean /\ s.same /\ s.age \in 0 .. MaxAge
               /\ s.rec.rounds >= 3
               /\ \A i \in DOMAIN s.rec.samples :
                    s.rec.samples[i].timed /\ s.rec.samples[i].timing.first <= Ttft
               /\ \A m \in DOMAIN s.rec.mix :
                    /\ Content[s.rec.mix[m]] = Content[first.mix[m]]
                    /\ s.rec.samples[m].timing.prompt = first.samples[m].timing.prompt
               /\ PricesKnown(w[p].costs, w[p].eligible) =>
                    \A i \in w[p].eligible : w[p].costs[w[p].picked].micro <= w[p].costs[i].micro
=============================================================================
