------------------------------ MODULE Placement ------------------------------
(***************************************************************************)
(* The planner: what a range of layers costs, how the layers of a model    *)
(* are divided over the machines of a household, and how several models    *)
(* are placed together (lumabri_planner.h, lumabri_memory_budget.h,        *)
(* lumabri_cluster.h, planner/lumabri_stage_placement.h and                *)
(* planner/lumabri_portfolio.h).                                           *)
(*                                                                         *)
(* These are pure algorithms.  An initial state is a question (models,     *)
(* machines, sessions), and each action computes one answer, as a frontend *)
(* of the catalogue does.  Bytes are small naturals and Huge stands for    *)
(* UINT64_MAX: sizes saturate there as in the code.  A model is the        *)
(* resident contract that every adapter describes; the historical estimate *)
(* and disk mode belong to no verified adapter and are left out.  Layers   *)
(* are 0 .. L - 1 and a slice is the range b .. e - 1, as in the code;     *)
(* machines are numbered from 1.                                           *)
(***************************************************************************)
EXTENDS Integers, FiniteSets, Sequences, SequencesExt, FiniteSetsExt

CONSTANTS Huge,          \* UINT64_MAX, the invalid size
          Mib,           \* the alignment of a process budget
          Guard,         \* the fixed guard of a Segment process
          EdgeGuard,     \* the fixed guard of an Edge process
          Cache,         \* LMB_PREPARE_CACHE_BYTES
          SessionBytes,  \* LMB_HOST_SESSION_BYTES
          HybridExtra,   \* lmb_home_hybrid_extra of the models
          MaxAllocs,     \* allocations one machine may hold
          MaxVisits,     \* LMB_PORTFOLIO_SEARCH
          MaxRefits,     \* LMB_PORTFOLIO_REFITS
          Questions,     \* the questions asked: [kind, models, nodes, sessions]
          CostTables     \* observed seconds per layer: functions over machines

VARIABLES ask,     \* the question
          source,  \* lmb_home_plan_source's answer for the first model
          plan,    \* the catalogue's plan of the first model
          costed,  \* its placement by observed costs: [plan, costs, goal]
          joint,   \* the joint placement of all its models
          done     \* which questions are answered

vars == <<ask, source, plan, costed, joint, done>>

NoPlan == [slices |-> <<>>, edge |-> 0, hybrid |-> FALSE, resident |-> FALSE, missing |-> 0]
NoCosted == [plan |-> NoPlan, seed |-> NoPlan, costs |-> <<>>, goal |-> "none"]
NoJoint == [plans |-> <<>>, reserved |-> <<>>, score |-> <<>>, static |-> <<>>, bounded |-> FALSE]

-----------------------------------------------------------------------------
(* Sizes. *)

\* A bug: the sum wraps around.
BugSizeAdd(a, b) == (a + b) % (Huge + 1)

SizeAdd(a, b) == IF Huge - a < b THEN Huge ELSE a + b

SizeMul(a, b) == IF a = Huge \/ b = Huge \/ a * b > Huge THEN Huge ELSE a * b

SizeSum(start, seq) == FoldLeft(SizeAdd, start, seq)

Aligned(size) == IF size = Huge THEN Huge ELSE size - (size % Mib)
BudgetMib(bytes) == Aligned(SizeAdd(bytes, Mib - 1))

-----------------------------------------------------------------------------
(* What a range costs. *)

Depth(m) == Len(m.layers)

Estimate(fine, resident, state, live) ==
  [ok |-> fine /\ SizeAdd(resident, live) # Huge, resident |-> resident, live |-> live,
   state |-> state]

EstimateSegment(m, b, e, sessions) ==
  LET layers == [i \in 1 .. e - b |-> m.layers[b + i]]
      state == SizeMul(SizeSum(m.session, [i \in DOMAIN layers |-> layers[i].state]), sessions)
  IN  Estimate(b < e /\ e <= Depth(m),
               SizeSum(m.fixed, [i \in DOMAIN layers |-> layers[i].weights]),
               state, SizeAdd(state, m.scratch))

EstimateEdge(m, sessions) ==
  LET state == SizeMul(m.row, sessions)
  IN  Estimate(TRUE, m.edge, state, SizeAdd(state, m.edgeScratch))

\* The proportional share of the checkpoint, remainder kept, plus a twentieth.
CheckpointFloor(m, b, e) ==
  LET share == (m.bytes \div Depth(m)) * (e - b) + ((m.bytes % Depth(m)) * (e - b)) \div Depth(m)
  IN  SizeAdd(share, m.bytes \div 20)

MaxOf(a, b) == IF a > b THEN a ELSE b
MinOf(a, b) == IF a < b THEN a ELSE b
Short(need, ram) == IF need > ram THEN need - ram ELSE 0

\* The budget of the Segment process, and of the Edge process.
SegmentBudget(floor, seg) ==
  IF ~seg.ok THEN Huge
  ELSE BudgetMib(SizeAdd(MaxOf(SizeAdd(SizeAdd(floor, Guard), seg.live),
                               SizeAdd(seg.resident, seg.live)), Cache))

EdgeBudget(own, sessions) ==
  IF ~own.ok THEN Huge
  ELSE LET slots == IF sessions > 1 THEN SizeMul(sessions, SessionBytes) ELSE 0
       IN  BudgetMib(SizeAdd(SizeAdd(SizeAdd(SizeAdd(own.resident, own.live), slots), EdgeGuard),
                             Cache))

\* lmb_home_reservation_sessions: Huge when there is no reservation.
Reservation(m, b, e, sessions, edge) ==
  SizeAdd(SegmentBudget(CheckpointFloor(m, b, e), EstimateSegment(m, b, e, sessions)),
          IF edge THEN EdgeBudget(EstimateEdge(m, sessions), sessions) ELSE 0)

\* lmb_runtime_role_allows for this model's adapter.
RoleAllows(node, edge, hybrid) ==
  /\ "segment" \in node.roles
  /\ edge => "edge" \in node.roles
  /\ hybrid => "hybrid" \in node.roles

Either(p, q) == IF p # NoPlan THEN p ELSE q

-----------------------------------------------------------------------------
(* The proportional split. *)

MaxRam(nodes, S) ==
  CHOOSE i \in S : \A j \in S : nodes[i].ram > nodes[j].ram \/ (nodes[i].ram = nodes[j].ram /\ i <= j)

\* One machine's turn in the pass that hands out the layers.
Hand(m, eff, total, last, sessions, acc, i) ==
  LET left == Depth(m) - acc.at
      take == IF i = last THEN left ELSE MinOf((Depth(m) * eff[i]) \div total, left)
      given(cost, need) ==
        [at |-> acc.at + take,
         slices |-> Append(acc.slices, [node |-> i, b |-> acc.at, e |-> acc.at + take]),
         fits |-> acc.fits /\ cost.ok /\ need <= eff[i],
         ok |-> acc.ok /\ cost.ok /\ SizeMul(Depth(m), eff[i]) # Huge,
         missing |-> SizeAdd(acc.missing, Short(need, eff[i]))]
      priced(cost) == given(cost, SizeAdd(cost.resident, cost.live))
  IN  IF left = 0 \/ eff[i] = 0 \/ take = 0 THEN acc
      ELSE priced(EstimateSegment(m, acc.at, acc.at + take, sessions))

\* What is left of the machines that run Segments, once Edge has its memory.
Effective(nodes, edge, edgeNeed) ==
  [i \in DOMAIN nodes |-> (IF RoleAllows(nodes[i], FALSE, FALSE) THEN nodes[i].ram ELSE 0)
                          - (IF i = edge THEN edgeNeed ELSE 0)]

\* The pass over the machines, and the plan it leaves.
HandAll(m, eff, sessions) ==
  LET total == SizeSum(0, eff)
      last == Max({i \in DOMAIN eff : eff[i] > 0} \cup {1})
  IN  FoldLeft(LAMBDA a, i : Hand(m, eff, total, last, sessions, a, i),
               [at |-> 0, slices |-> <<>>, fits |-> TRUE, ok |-> total \notin {0, Huge}, missing |-> 0],
               [i \in DOMAIN eff |-> i])

SplitPlan(m, nodes, external, edge, acc) ==
  IF ~acc.ok \/ acc.at < Depth(m) \/ acc.missing = Huge THEN NoPlan
  ELSE [slices |-> acc.slices, edge |-> edge, hybrid |-> FALSE,
        resident |-> acc.fits /\ (external \/ \E i \in DOMAIN nodes : nodes[i].has),
        missing |-> acc.missing]

\* lmb_plan_cluster_source, with the checkpoint at hand (external) or not.
PlanCluster(m, nodes, sessions, external) ==
  LET own == EstimateEdge(m, sessions)
      edgeNeed == SizeAdd(own.resident, own.live)
      able == {i \in DOMAIN nodes : RoleAllows(nodes[i], TRUE, FALSE) /\ nodes[i].ram >= edgeNeed}
      split(edge) == SplitPlan(m, nodes, external, edge,
                               HandAll(m, Effective(nodes, edge, edgeNeed), sessions))
  IN  IF ~own.ok \/ able = {} THEN NoPlan ELSE split(MaxRam(nodes, able))

-----------------------------------------------------------------------------
(* The validator every plan goes through, and the two searches. *)

Edges(p) == {i \in DOMAIN p.slices : p.slices[i].node = p.edge}

\* The shape lmb_home_plan_budgets accepts.
Shaped(m, nodes, p) ==
  LET S == p.slices
  IN  /\ Len(S) \in 1 .. Len(nodes)
      /\ \A i, j \in DOMAIN S : i # j => S[i].node # S[j].node
      /\ \A i \in DOMAIN S : RoleAllows(nodes[S[i].node], S[i].node = p.edge, p.hybrid)
      /\ IF p.hybrid
         THEN /\ m.hybrid /\ Len(S) = Len(nodes) /\ Len(S) >= 2
              /\ S[1] = [node |-> p.edge, b |-> 0, e |-> Depth(m)]
              /\ \A i \in 3 .. Len(S) : S[i].b >= S[i - 1].e
         ELSE /\ \A i \in DOMAIN S : S[i].b = (IF i = 1 THEN 0 ELSE S[i - 1].e)
              /\ Last(S).e = Depth(m)
      /\ Cardinality(Edges(p)) = 1

Need(m, sessions, p, i) ==
  SizeAdd(Reservation(m, p.slices[i].b, p.slices[i].e, sessions, p.slices[i].node = p.edge),
          IF p.hybrid THEN HybridExtra ELSE 0)

Verdict(p, missing) == [p EXCEPT !.resident = missing = 0, !.missing = missing]

\* lmb_home_plan_budgets: the plan with its verdict, or none.
PlanBudgets(m, nodes, sessions, p) ==
  IF p = NoPlan \/ ~Shaped(m, nodes, p) THEN NoPlan
  ELSE IF \E i \in DOMAIN p.slices :
            Reservation(m, p.slices[i].b, p.slices[i].e, sessions,
                        p.slices[i].node = p.edge) = Huge THEN NoPlan
  ELSE Verdict(p, SizeSum(0, [i \in DOMAIN p.slices |->
                                Short(Need(m, sessions, p, i), nodes[p.slices[i].node].ram)]))

\* The greatest end that fits after b, by halving; b when nothing does.
RECURSIVE Longest(_, _, _, _, _, _, _)
Longest(m, ram, sessions, edge, b, lo, hi) ==
  IF lo >= hi THEN lo
  ELSE LET mid == lo + (hi - lo) \div 2 + ((hi - lo) % 2)
       IN  IF Reservation(m, b, mid, sessions, edge) \in 0 .. MinOf(ram, Huge - 1)
           THEN Longest(m, ram, sessions, edge, b, mid, hi)
           ELSE Longest(m, ram, sessions, edge, b, lo, mid - 1)

\* The owner of Edge first, then the others by RAM, ties in inventory order.
Order(nodes, owner, ascending) ==
  LET before(i, j) == IF nodes[i].ram = nodes[j].ram THEN i < j
                      ELSE (nodes[i].ram < nodes[j].ram) = ascending
  IN  <<owner>> \o SetToSortSeq(DOMAIN nodes \ {owner}, before)

\* One machine's turn in the greedy search: as many layers as it can hold.
TakeTo(nodes, owner, acc, i, e) ==
  IF acc.done \/ ~RoleAllows(nodes[i], i = owner, FALSE) THEN acc
  ELSE IF e = acc.at THEN [acc EXCEPT !.done = i = owner]
  ELSE [acc EXCEPT !.at = e, !.slices = Append(@, [node |-> i, b |-> acc.at, e |-> e])]

Take(m, nodes, sessions, owner, acc, i) ==
  IF acc.at = Depth(m) THEN acc
  ELSE TakeTo(nodes, owner, acc, i,
              Longest(m, nodes[i].ram, sessions, i = owner, acc.at, acc.at, Depth(m)))

TakeAll(m, nodes, sessions, owner, order) ==
  FoldLeft(LAMBDA a, i : Take(m, nodes, sessions, owner, a, i),
           [at |-> 0, slices |-> <<>>, done |-> FALSE], order)

Taken(m, nodes, sessions, owner, acc) ==
  IF acc.at # Depth(m) THEN NoPlan
  ELSE PlanBudgets(m, nodes, sessions, [NoPlan EXCEPT !.slices = acc.slices, !.edge = owner])

\* A bug: the machines are only tried from the largest to the smallest.
BugGreedy(m, nodes, sessions, owner, ascending) ==
  Taken(m, nodes, sessions, owner, TakeAll(m, nodes, sessions, owner, Order(nodes, owner, FALSE)))

Greedy(m, nodes, sessions, owner, ascending) ==
  Taken(m, nodes, sessions, owner, TakeAll(m, nodes, sessions, owner, Order(nodes, owner, ascending)))

\* The split when it fits, else the first assignment tried that does.
FirstFit(original, tried) ==
  LET hit == {k \in DOMAIN tried : tried[k].resident}
  IN  IF original.resident \/ hit = {} THEN original ELSE tried[Min(hit)]

\* lmb_home_plan_source: the proportional split when it fits, else the first
\* greedy assignment that does, else the split with what it lacks.
PlanSource(m, nodes, sessions) ==
  LET owner(k) == (k + 1) \div 2
  IN  FirstFit(PlanBudgets(m, nodes, sessions, PlanCluster(m, nodes, sessions, TRUE)),
               [k \in 1 .. 2 * Len(nodes) |->
                  IF RoleAllows(nodes[owner(k)], TRUE, FALSE)
                  THEN Greedy(m, nodes, sessions, owner(k), k % 2 = 0) ELSE NoPlan])

\* The seed's order, then the machines it leaves out.
SeedOrder(nodes, seed) ==
  LET listed == [i \in DOMAIN seed.slices |-> seed.slices[i].node]
  IN  listed \o SetToSortSeq(DOMAIN nodes \ ToSet(listed), <)

\* The price of giving machine i of the order `len' layers: observed seconds,
\* or the squared distance from its share of the RAM (scaled to integers).
Local(m, nodes, costs, node, len) ==
  LET total == FoldFunction(LAMBDA n, s : n.ram + s, 0, nodes)
      off == len * total - Depth(m) * nodes[node].ram
  IN  IF costs # <<>> THEN costs[node] * len ELSE off * off

Joined(costs, goal, prior, local) ==
  IF costs # <<>> /\ goal = "throughput" THEN MaxOf(prior, local) ELSE prior + local

\* The machine can hold the range.
Room(m, nodes, sessions, edge, node, b, e) ==
  LET r == Reservation(m, b, e, sessions, node = edge) IN r # Huge /\ r <= nodes[node].ram

\* The cheapest start of a machine's range, the first of equals (-1: none).
NoWay == [value |-> 0, from |-> -1]
Cheapest(price) ==
  LET best == CHOOSE b \in DOMAIN price : \A x \in DOMAIN price :
                price[b] < price[x] \/ (price[b] = price[x] /\ b <= x)
  IN  IF DOMAIN price = {} THEN NoWay ELSE [value |-> price[best], from |-> best]

\* A row of the dynamic program: the cheapest way to give layers 0 .. e - 1 to
\* the first i machines, the last of which is node, with `left' machines to go.
Row(m, nodes, sessions, edge, costs, goal, node, i, left, prior) ==
  LET starts(e) == {b \in i - 1 .. e - 1 : /\ prior[b].from # -1
                                           /\ Room(m, nodes, sessions, edge, node, b, e)}
      price(e) == [b \in starts(e) |-> Joined(costs, goal, prior[b].value,
                                              Local(m, nodes, costs, node, e - b))]
  IN  [e \in 0 .. Depth(m) |->
         IF e < i \/ e > Depth(m) - left THEN NoWay ELSE Cheapest(price(e))]

\* All rows, from that of no machine.
Table(m, nodes, sessions, edge, costs, goal, order) ==
  FoldLeft(LAMBDA rows, i : Append(rows, Row(m, nodes, sessions, edge, costs, goal, order[i], i,
                                             Len(order) - i, Last(rows))),
           <<[e \in 0 .. Depth(m) |-> [value |-> 0, from |-> IF e = 0 THEN 0 ELSE -1]]>>,
           [i \in DOMAIN order |-> i])

Trace(rows, order, L) ==
  LET n == Len(order)
      end[i \in 0 .. n] == IF i = n THEN L ELSE rows[i + 2][end[i + 1]].from
  IN  [i \in 1 .. n |-> [node |-> order[i], b |-> end[i - 1], e |-> end[i]]]

\* The slices the table leads to, if any.
Ranges(rows, order, L) == IF Last(rows)[L].from = -1 THEN <<>> ELSE Trace(rows, order, L)

IfResident(p) == IF p.resident THEN p ELSE NoPlan

\* lmb_home_plan_selected: every selected machine owns a range, the ranges the
\* cheapest for the seed's order and Edge owner; none when nothing fits.
PlanSelected(m, nodes, sessions, seed, costs, goal) ==
  LET order == SeedOrder(nodes, seed)
      T == Table(m, nodes, sessions, seed.edge, costs, goal, order)
      searched == [NoPlan EXCEPT !.slices = Ranges(T, order, Depth(m)), !.edge = seed.edge]
      kept == IF costs = <<>> /\ Len(seed.slices) = Len(nodes)
              THEN IfResident(PlanBudgets(m, nodes, sessions, seed)) ELSE NoPlan
      search == IF \E i \in DOMAIN nodes : nodes[i].ram = 0 THEN NoPlan
                ELSE IfResident(PlanBudgets(m, nodes, sessions, searched))
  IN  IF seed = NoPlan \/ Len(nodes) > Depth(m) THEN NoPlan ELSE Either(kept, search)

\* lmb_home_plan_hybrid: the whole model on Edge's machine, the reviewed ranges
\* on the others as accelerators; none when that does not fit.
PlanHybrid(m, nodes, sessions, seed) ==
  LET others == SelectSeq(seed.slices, LAMBDA s : s.node # seed.edge)
  IN  IF /\ seed.resident /\ ~seed.hybrid /\ sessions = 1 /\ m.hybrid
         /\ Len(nodes) >= 2 /\ Len(seed.slices) = Len(nodes)
      THEN IfResident(PlanBudgets(m, nodes, sessions,
             [seed EXCEPT !.hybrid = TRUE,
                          !.slices = <<[node |-> seed.edge, b |-> 0, e |-> Depth(m)]>> \o others]))
      ELSE NoPlan

\* The plan of a catalogue entry, from what the source planner answered.
HybridOr(m, nodes, sessions, wish, base) ==
  IF wish THEN Either(PlanHybrid(m, nodes, sessions, base), base) ELSE base

EntryPlan(m, nodes, sessions, wish, src) ==
  HybridOr(m, nodes, sessions, wish /\ src # NoPlan,
           Either(PlanSelected(m, nodes, sessions, src, <<>>, "one"),
                  [src EXCEPT !.resident = FALSE, !.slices = <<>>]))

-----------------------------------------------------------------------------
(* Several models on the same machines. *)

Eligible(nodes) == {i \in DOMAIN nodes : nodes[i].allocs < MaxAllocs /\ nodes[i].ram > 0}

NoChoice(nodes, mask) ==
  [plan |-> NoPlan, asked |-> mask, memory |-> [i \in DOMAIN nodes |-> 0]]

\* A price that is not known for every machine disables the cost objective.
Priced(nodes) == \A i \in Eligible(nodes) : nodes[i].price >= 0

\* The choice a plan of the mask's machines (map: their numbers) amounts to.
ChoiceOf(nodes, m, sessions, mask, map, p) ==
  LET need(i) == LET at == {k \in DOMAIN p.slices : map[p.slices[k].node] = i}
                 IN  IF at = {} THEN 0 ELSE Need(m, sessions, p, CHOOSE k \in at : TRUE)
  IN  IF ~p.resident THEN NoChoice(nodes, mask)
      ELSE [plan |-> [p EXCEPT !.slices = [k \in DOMAIN @ |-> [@[k] EXCEPT !.node = map[@]]],
                               !.edge = map[@]],
            asked |-> mask, memory |-> [i \in DOMAIN nodes |-> need(i)]]

\* A bound on what the model needs, whatever the machines.
Minimum(whole, own) ==
  IF ~whole.ok \/ ~own.ok THEN Huge
  ELSE SizeAdd(SizeAdd(whole.resident, whole.state), SizeAdd(own.resident, own.state))

\* The plan of the mask's machines alone.
SubsetPlan(m, subset, sessions) ==
  PlanBudgets(m, subset, sessions,
    Either(PlanSelected(m, subset, sessions, PlanCluster(m, subset, sessions, TRUE), <<>>, "one"),
           PlanSource(m, subset, sessions)))

FitOn(nodes, m, sessions, mask, map, subset) ==
  LET minimum == Minimum(EstimateSegment(m, 0, Depth(m), sessions), EstimateEdge(m, sessions))
  IN  IF map = <<>> \/ Len(map) > Depth(m) THEN NoChoice(nodes, mask)
      ELSE IF minimum \notin 0 .. MinOf(Huge - 1, SizeSum(0, [k \in DOMAIN map |-> subset[k].ram]))
           THEN NoChoice(nodes, mask)
      ELSE ChoiceOf(nodes, m, sessions, mask, map, SubsetPlan(m, subset, sessions))

\* lmb_portfolio_fit: a model on what the machines of the mask still offer.
Fit(nodes, m, sessions, mask, used, added) ==
  LET map == SetToSortSeq({i \in mask : nodes[i].allocs + added[i] < MaxAllocs
                                        /\ used[i] < nodes[i].ram}, <)
  IN  FitOn(nodes, m, sessions, mask, map,
            [k \in DOMAIN map |-> [nodes[map[k]] EXCEPT !.ram = @ - used[map[k]]]])

Used(choice) == {s.node : s \in ToSet(choice.plan.slices)}

\* The first of every value of a sequence.
Distinct(seq) ==
  LET idx == SetToSortSeq({k \in DOMAIN seq : \A x \in 1 .. k - 1 : seq[x] # seq[k]}, <)
  IN  [k \in DOMAIN idx |-> seq[idx[k]]]

ByPrice(nodes, byRam) ==
  LET rank(i) == CHOOSE k \in DOMAIN byRam : byRam[k] = i
  IN  IF ~Priced(nodes) THEN byRam
      ELSE SetToSortSeq(Eligible(nodes), LAMBDA i, j : \/ nodes[i].price < nodes[j].price
                          \/ (nodes[i].price = nodes[j].price /\ rank(i) < rank(j)))

\* The machines, the cheapest and the largest so many, every subset.
MaskSeq(byRam, cheap) ==
  LET n == Len(byRam)
      prefix(q, k) == ToSet(SubSeq(q, 1, k))
  IN  [k \in 1 .. n |-> {byRam[k]}]
      \o [k \in 1 .. 2 * (n - 1) |-> prefix(IF k % 2 = 1 THEN cheap ELSE byRam, (k + 1) \div 2 + 1)]
      \o [x \in 1 .. 2 ^ n - 1 |-> {byRam[i] : i \in {k \in 1 .. n : (x \div 2 ^ (k - 1)) % 2 = 1}}]

\* The masks tried for a model, each once, in the order they are tried.
MasksOf(nodes, byRam) == Distinct(MaskSeq(byRam, ByPrice(nodes, byRam)))
Masks(nodes) ==
  MasksOf(nodes, SetToSortSeq(Eligible(nodes), LAMBDA i, j :
    nodes[i].ram > nodes[j].ram \/ (nodes[i].ram = nodes[j].ram /\ i < j)))

Price(nodes, S) == MapThenSumSet(LAMBDA i : nodes[i].price, S)

\* The choices of a model on its own, cheapest or smallest first.
Sorted(nodes, choices) ==
  LET score(c) == IF Priced(nodes) THEN Price(nodes, Used(c)) ELSE Cardinality(Used(c))
      idx == SetToSortSeq({k \in DOMAIN choices : choices[k].plan # NoPlan}, LAMBDA i, j :
               \/ score(choices[i]) < score(choices[j])
               \/ (score(choices[i]) = score(choices[j]) /\ i < j))
  IN  [k \in DOMAIN idx |-> choices[idx[k]]]

FitEach(nodes, m, sessions, masks) ==
  LET zero == [i \in DOMAIN nodes |-> 0]
  IN  [k \in DOMAIN masks |-> Fit(nodes, m, sessions,
         IF Cardinality(masks[k]) > Depth(m) THEN {} ELSE masks[k], zero, zero)]

OwnChoices(nodes, m, sessions) == Sorted(nodes, FitEach(nodes, m, sessions, Masks(nodes)))

Lower(a, b) == \/ a[1] < b[1] \/ (a[1] = b[1] /\ a[2] < b[2])
               \/ (a[1] = b[1] /\ a[2] = b[2] /\ a[3] < b[3])

Score(nodes, mask, used) ==
  <<IF Priced(nodes) THEN Price(nodes, mask) ELSE 0, Cardinality(mask),
    SizeSum(0, used)>>

\* The choice fits beside what is already placed.
Beside(nodes, c, used, added) ==
  \A i \in Used(c) : /\ nodes[i].allocs + added[i] < MaxAllocs
                      /\ used[i] <= nodes[i].ram /\ c.memory[i] <= nodes[i].ram - used[i]

\* What is used, and how many allocations added, once the choice is placed.
Plus(used, c) == [i \in DOMAIN used |-> used[i] + (IF i \in Used(c) THEN c.memory[i] ELSE 0)]
PlusOne(added, c) == [i \in DOMAIN added |-> added[i] + (IF i \in Used(c) THEN 1 ELSE 0)]

\* lmb_portfolio_search: depth first, pruned by the best placement so far; a
\* choice that no longer fits as it stands is fitted anew.
RECURSIVE Search(_, _, _, _, _, _, _, _)
Search(nodes, models, sessions, static, s, mask, used, added) ==
  LET depth == Len(s.chosen) + 1
      now == Score(nodes, mask, used)
      seen == [s EXCEPT !.visited = @ + 1]
      with(t, c) ==
        IF c.plan = NoPlan THEN t
        ELSE [Search(nodes, models, sessions, static, [t EXCEPT !.chosen = Append(@, c)],
                     mask \cup Used(c), Plus(used, c), PlusOne(added, c)) EXCEPT !.chosen = s.chosen]
      try(t, c) ==
        IF t.bounded THEN t
        ELSE IF Beside(nodes, c, used, added) THEN with(t, c)
        ELSE IF t.refits >= MaxRefits THEN [t EXCEPT !.limited = TRUE]
        ELSE with([t EXCEPT !.refits = @ + 1],
                  Fit(nodes, models[depth], sessions, c.asked, used, added))
  IN  IF s.visited >= MaxVisits THEN [s EXCEPT !.bounded = TRUE]
      ELSE IF now[3] = Huge THEN seen
      ELSE IF s.found /\ (now[1] > s.best[1] \/ (now[1] = s.best[1] /\ now[2] > s.best[2])) THEN seen
      ELSE IF depth > Len(models)
           THEN IF s.found /\ ~Lower(now, s.best) THEN seen
                ELSE [seen EXCEPT !.found = TRUE, !.best = now, !.used = used, !.plans = s.chosen]
      ELSE FoldLeft(try, seen, static[depth])

SearchFrom(nodes, models, sessions, static) ==
  LET zero == [i \in DOMAIN nodes |-> 0]
  IN  Search(nodes, models, sessions, static,
             [visited |-> 0, found |-> FALSE, best |-> <<0, 0, 0>>, refits |-> 0, bounded |-> FALSE,
              limited |-> FALSE, chosen |-> <<>>, used |-> zero, plans |-> <<>>],
             {}, zero, zero)

Outcome(static, s) ==
  [plans |-> [k \in DOMAIN s.plans |-> s.plans[k].plan], reserved |-> s.used,
   score |-> s.best, static |-> static, bounded |-> s.bounded]

PortfolioPlan(nodes, models, sessions) ==
  LET placed(static) == Outcome(static, SearchFrom(nodes, models, sessions, static))
  IN  placed([k \in DOMAIN models |-> OwnChoices(nodes, models[k], sessions)])

-----------------------------------------------------------------------------
(* The questions a frontend asks. *)

Init ==
  /\ ask \in Questions
  /\ source = NoPlan /\ plan = NoPlan /\ costed = NoCosted /\ joint = NoJoint
  /\ done = {}

\* catalog_plan_entry for a household that holds the weights; `wish' is the
\* operator's switch for the hybrid plan.
PlanEntry(wish) ==
  /\ ask.kind = "one" /\ "plan" \notin done
  /\ source' = PlanSource(ask.models[1], ask.nodes, ask.sessions)
  /\ plan' = EntryPlan(ask.models[1], ask.nodes, ask.sessions, wish, source')
  /\ done' = done \cup {"plan"}
  /\ UNCHANGED <<ask, costed, joint>>

\* catalog_calibration_apply: observed seconds per layer of the same machines
\* in the same order choose the ranges anew.
ApplyCosts(costs, goal) ==
  /\ "plan" \in done /\ "cost" \notin done
  /\ plan.resident /\ ~plan.hybrid
  /\ LET table == [i \in DOMAIN ask.nodes |-> costs[i]]
         p == PlanSelected(ask.models[1], ask.nodes, ask.sessions, plan, table, goal)
     IN  /\ costed' = [plan |-> p, seed |-> plan, costs |-> table, goal |-> goal]
         /\ plan' = Either(costed'.plan, plan)
  /\ done' = done \cup {"cost"}
  /\ UNCHANGED <<ask, source, joint>>

\* catalog_portfolio_build.
PlanJoint ==
  /\ ask.kind = "joint" /\ "joint" \notin done
  /\ joint' = PortfolioPlan(ask.nodes, ask.models, ask.sessions)
  /\ done' = done \cup {"joint"}
  /\ UNCHANGED <<ask, source, plan, costed>>

Next ==
  \/ \E wish \in BOOLEAN : PlanEntry(wish)
  \/ \E costs \in CostTables, goal \in {"one", "throughput"} : ApplyCosts(costs, goal)
  \/ PlanJoint

Spec == Init /\ [][Next]_vars

-----------------------------------------------------------------------------
(* What the answers promise. *)

\* The memory a slice really takes, without saturation or rounding.
Exact(m, sessions, p, i) ==
  LET s == p.slices[i]
      segment == m.fixed + m.scratch + sessions * m.session
                 + FoldLeft(LAMBDA a, l : a + l.weights + sessions * l.state, 0,
                            SubSeq(m.layers, s.b + 1, s.e))
  IN  segment + (IF s.node = p.edge THEN m.edge + m.edgeScratch + sessions * m.row ELSE 0)

Resident(m, p) ==
  /\ \A i \in DOMAIN p.slices : p.slices[i].b < p.slices[i].e
  /\ \A l \in 0 .. Depth(m) - 1 :
       Cardinality({i \in DOMAIN p.slices : /\ p.slices[i].b <= l /\ l < p.slices[i].e
                                            /\ p.hybrid => p.slices[i].node = p.edge}) = 1
  /\ Cardinality(Edges(p)) = 1

\* A plan called resident, from whichever search, gives every layer to exactly
\* one machine, Edge to one machine with layers, no machine two ranges or a role
\* it lacks, and to each no more than its RAM, counted without saturation; a
\* joint plan does so for all its models together, within MaxAllocs.
PlanSound ==
  LET fine(m, p) == p.resident =>
        /\ Resident(m, p)
        /\ \A i, j \in DOMAIN p.slices : i # j => p.slices[i].node # p.slices[j].node
        /\ \A i \in DOMAIN p.slices :
             LET node == ask.nodes[p.slices[i].node]
             IN  /\ Exact(m, ask.sessions, p, i) <= node.ram
                 /\ RoleAllows(node, p.slices[i].node = p.edge, p.hybrid)
      on(k, n) == {i \in DOMAIN joint.plans[k].slices : joint.plans[k].slices[i].node = n}
  IN  /\ fine(ask.models[1], source) /\ fine(ask.models[1], plan)
      /\ \A k \in DOMAIN joint.plans : joint.plans[k].resident /\ fine(ask.models[k], joint.plans[k])
      /\ joint.plans # <<>> => \A n \in DOMAIN ask.nodes :
           LET hosts == {k \in DOMAIN joint.plans : on(k, n) # {}}
               total == MapThenSumSet(LAMBDA k : Exact(ask.models[k], ask.sessions, joint.plans[k],
                                                       CHOOSE i \in on(k, n) : TRUE), hosts)
           IN  /\ total <= joint.reserved[n] /\ joint.reserved[n] <= ask.nodes[n].ram
               /\ hosts # {} => ask.nodes[n].allocs + Cardinality(hosts) <= MaxAllocs

\* Every way to cut 0 .. L - 1 into n consecutive ranges.
Cuts(n, L) == {c \in [0 .. n -> 0 .. L] : c[0] = 0 /\ c[n] = L /\ \A i \in 1 .. n : c[i - 1] <= c[i]}

\* Some tried order of the machines admits an assignment.
SomeOrderFits(m, nodes, sessions) ==
  \E owner \in DOMAIN nodes, ascending \in BOOLEAN :
    LET order == Order(nodes, owner, ascending)
    IN  \E c \in Cuts(Len(nodes), Depth(m)) :
          /\ c[1] > 0
          /\ \A i \in DOMAIN order : c[i - 1] < c[i] =>
               /\ RoleAllows(nodes[order[i]], order[i] = owner, FALSE)
               /\ Room(m, nodes, sessions, owner, order[i], c[i - 1], c[i])

CutCost(m, nodes, costs, goal, order, c) ==
  FoldLeft(LAMBDA a, i : Joined(costs, goal, a, Local(m, nodes, costs, order[i], c[i] - c[i - 1])),
           0, [i \in DOMAIN order |-> i])

\* No search misses what it looks for: the source planner reports no resident plan
\* only when none of the orders it tries admits one, although it halves instead
\* of trying every end; the placement by observed costs is the cheapest of all
\* cuts that fit its order; and no combination of the models' own choices that
\* fits together is better than the joint plan, although the search prunes.
PlanComplete ==
  LET m == ask.models[1]
      order == SeedOrder(ask.nodes, costed.seed)
      fitting == {c \in Cuts(Len(ask.nodes), Depth(m)) : \A i \in DOMAIN order :
                    /\ c[i - 1] < c[i]
                    /\ RoleAllows(ask.nodes[order[i]], order[i] = costed.seed.edge, FALSE)
                    /\ Room(m, ask.nodes, ask.sessions, costed.seed.edge, order[i], c[i - 1], c[i])}
      cost(c) == CutCost(m, ask.nodes, costed.costs, costed.goal, order, c)
      ends == [i \in 0 .. Len(order) |-> IF i = 0 THEN 0 ELSE costed.plan.slices[i].e]
      combos == {c \in [DOMAIN ask.models -> UNION {ToSet(joint.static[k]) : k \in DOMAIN joint.static}] :
                   \A k \in DOMAIN c : c[k] \in ToSet(joint.static[k])}
      sum(c) == [n \in DOMAIN ask.nodes |-> MapThenSumSet(LAMBDA k : c[k].memory[n], DOMAIN c)]
      count(c, n) == Cardinality({k \in DOMAIN c : n \in Used(c[k])})
      together(c) == \A n \in DOMAIN ask.nodes :
                       /\ sum(c)[n] <= ask.nodes[n].ram
                       /\ count(c, n) > 0 => ask.nodes[n].allocs + count(c, n) <= MaxAllocs
  IN  /\ "plan" \in done /\ ~source.resident => ~SomeOrderFits(m, ask.nodes, ask.sessions)
      /\ "cost" \in done =>
           /\ fitting # {} => costed.plan # NoPlan
           /\ costed.plan # NoPlan => /\ ends \in fitting
                                     /\ \A c \in fitting : cost(ends) <= cost(c)
      /\ "joint" \in done /\ ~joint.bounded => \A c \in combos : together(c) =>
           /\ joint.plans # <<>>
           /\ ~Lower(Score(ask.nodes, UNION {Used(c[k]) : k \in DOMAIN c}, sum(c)), joint.score)

=============================================================================
