----------------------------- MODULE MCGateway -------------------------------
(* What a household's gateway decides and remembers, component by component:  *)
(* requests, replicas, prices, placement, capacity, evidence, the processes   *)
(* of a machine and the choice of peers, next to the session buckets of this  *)
(* module's base. part names the component that moves in a behaviour; no two  *)
(* share state, so they use one set of registers.                             *)
EXTENDS SegBuckets, Sequences, TLC
CONSTANTS k1, k2, k3, k4, k5, p1, p2, None
VARIABLES part, r1, r2, r3, r4, r5, r6, r7, r8, r9, r10, r11, r12, r13, r14
registers == <<r1, r2, r3, r4, r5, r6, r7, r8, r9, r10, r11, r12, r13, r14>>

(* Three ids on one chain that wraps round the table, two that meet it.       *)
MCHash == (k1 :> 5 @@ k2 :> 12 @@ k3 :> 5 @@ k4 :> 6 @@ k5 :> 0)

(* The questions to the planner: one model on two or three machines, and two  *)
(* models on two machines with prices and earlier allocations.                *)
Every == {"segment", "edge", "hybrid"}
Weights(ws, h) ==
    [layers |-> [i \in DOMAIN ws |-> [weights |-> ws[i], state |-> 1]], fixed |-> 1, session |-> 0,
     scratch |-> 1, row |-> 1, edge |-> 2, edgeScratch |-> 0, bytes |-> 6, hybrid |-> h]
Sizes == {Weights(ws, h) : ws \in {<<3, 3>>, <<2, 2, 8>>, <<60, 70>>}, h \in BOOLEAN}
Machine(r, roles, n, p) == [ram |-> r, roles |-> roles, has |-> FALSE, allocs |-> n, price |-> p]
Asked ==
    [kind : {"one"}, models : {<<m>> : m \in Sizes}, sessions : {1, 2},
     nodes : [1 .. 2 -> {Machine(r, ro, 0, r) : r \in {9, 14, 30}, ro \in {Every, {"segment"}}}]]
    \cup [kind : {"one"}, models : {<<Weights(<<3, 3>>, FALSE)>>, <<Weights(<<2, 2, 8>>, FALSE)>>}, sessions : {1},
          nodes : [1 .. 3 -> {Machine(r, Every, 0, r) : r \in {9, 14, 30}}]]
    \cup [kind : {"joint"}, models : {<<Weights(<<3, 3>>, FALSE), Weights(<<4>>, FALSE)>>}, sessions : {1},
          nodes : [1 .. 2 -> {Machine(r, Every, n, p) : r \in {18, 30}, n \in {0, 1}, p \in {-1, 2, 3}}]]

(* What clients measure, on which machines, and what these cost.              *)
Cost(n) == [known |-> TRUE, cur |-> "EUR", micro |-> n]
Tariff == [h |-> Cost(2), i |-> Cost(1)]
Contents == [a |-> "m", b |-> "m", c |-> "n"]
Homes == [a |-> {"h"}, b |-> {"h", "i"}, c |-> {"i"}]
Timing(f, n) == [first |-> f, gap |-> 1, prompt |-> 4, tokens |-> n]
Reply == [status |-> 200, done |-> TRUE, retries |-> 0, timing |-> Timing(1, 2)]
Sample(f, n) == [status |-> 200, complete |-> TRUE, timed |-> TRUE, timing |-> Timing(f, n)]
Busy == [status |-> 429, complete |-> FALSE, timed |-> FALSE,
         timing |-> [first |-> 0, gap |-> 0, prompt |-> 0, tokens |-> 0]]
Measured ==
    {[mix |-> m, rounds |-> Len(s), at |-> 1, stable |-> TRUE, samples |-> s,
      print |-> [n \in DOMAIN m |-> [alloc |-> m[n], key |-> [h \in Homes[m[n]] |-> 0]]]] :
        m \in {<<"a">>, <<"b">>, <<"c">>},
        s \in {<<Sample(1, 2)>>} \cup
              {<<Sample(1, 2), Sample(1, 2), z>> : z \in {Sample(1, 2), Sample(3, 2), Sample(1, 3), Busy}}}

(* What turns measured of three replicas, and what their machines report.     *)
Rate(n, f, s) == [decode |-> n, ttft |-> f, prompt |-> 4, tokens |-> 8, source |-> s]
Load(n, q, age) == [known |-> TRUE, work |-> 0, reserved |-> 2, active |-> n, queued |-> q, age |-> age]
Nodes == <<<<"h">>, <<"i", "h", "i">>, <<"j">>>>
Loads == [h : {Load(0, 0, 0), Load(1, 0, 0)}, i : {Load(0, 0, 0)},
          j : {Load(0, 0, 0), Load(1, 1, 0), Load(0, 0, 2), [known |-> FALSE]}]
Profile(r, rates) ==
    {[at |-> 1, samples |-> 1, rate |-> x,
      key |-> [replica |-> r, work |-> [m \in {Nodes[r][k] : k \in DOMAIN Nodes[r]} |-> 0]]] : x \in rates}
Profiles ==
    {<<x, y, z>> :
        x \in Profile(1, {Rate(100, 100, "session"), Rate(96, 104, "session"), Rate(93, 109, "session")}),
        y \in Profile(2, {Rate(100, 100, "session"), Rate(96, 104, "session")}),
        z \in Profile(3, {Rate(100, 100, "session"), Rate(93, 109, "session"), Rate(100, 100, "probe")})
              \cup {[at |-> 0]}}

(* What donors offer: any range of three layers, in three qualities.          *)
Offer(x, y, degraded, us, load, direct) ==
    [begin |-> x, end |-> y, degraded |-> degraded, us |-> us, load |-> load, direct |-> direct]
Offers == UNION {{Offer(r[1], r[2], FALSE, 1, 1, TRUE), Offer(r[1], r[2], FALSE, 3, 0, FALSE),
                  Offer(r[1], r[2], TRUE, 1, 0, TRUE)} :
                 r \in {r \in (0 .. 2) \X (1 .. 3) : r[1] < r[2]}}
(* Requests for two models that share one entry, and two children of a model. *)
Demand(children, models, seconds, last) == INSTANCE GatewayDemand WITH
    Slots <- children, Model <- models, Cells <- {1}, Window <- seconds, MaxTime <- last,
    MaxReqs <- 2, now <- r1, child <- r2, worker <- r3, table <- r4, lost <- r5, began <- r6,
    served <- r7
(* Requests to three replicas, one of which writes another answer.            *)
Turns(reqs, fault) == INSTANCE GatewayTurn WITH
    Req <- reqs, Alloc <- {"a", "b", "c"}, First <- {"a", "b"}, Spare <- "c", Cells <- {1, 2},
    Permits <- {1, 2}, Text <- [a |-> <<20, 11>>, b |-> <<20, 11>>, c |-> <<20, 21, 22>>],
    MaxFaults <- fault, req <- r1, cell <- r2, permit <- r3, route <- r4, granted <- r5,
    faults <- r6
(* A budget of 4 bytes, and a second preparation that outgrows its review.    *)
Elastic == INSTANCE ElasticReplicas WITH
    MaxOps <- 2, Adopted <- {0}, Size <- (0 :> 2 @@ 1 :> 2 @@ 2 :> 3), Review <- (1 :> 2 @@ 2 :> 2),
    MinReplicas <- 0, MaxReplicas <- 2, MaxBytes <- 4, MaxEdits <- 1, MaxFaults <- 1, pol <- r1,
    tick <- r2, reg <- r3, ops <- r4, keeper <- r5, live <- r6, dead <- r7, drained <- r8,
    build <- r9, edits <- r10, faults <- r11
(* Three candidates, one of which does not save enough to switch for.         *)
Prices == INSTANCE Portfolio WITH
    Models <- {"m", "n"}, Cand <- {1, 2, 3}, Price <- (1 :> 5 @@ 2 :> 4 @@ 3 :> 2), Ceiling <- 5,
    MinSaving <- 2, Cooldown <- 2, MaxTime <- 3, MaxEdits <- 2, MaxFaults <- 2, reg <- r1,
    pol <- r2, tick <- r3, now <- r4, edited <- r5, switched <- r6, edits <- r7, faults <- r8
(* Machines and models of three sizes, one too large for any of the machines. *)
Planner == INSTANCE Placement WITH
    Huge <- 127, Mib <- 2, Guard <- 2, EdgeGuard <- 1, Cache <- 1, SessionBytes <- 2,
    HybridExtra <- 1, MaxAllocs <- 2, MaxVisits <- 200, MaxRefits <- 20, Questions <- Asked,
    CostTables <- {<<1, 3, 2>>}, ask <- r1, source <- r2, plan <- r3, costed <- r4, joint <- r5,
    done <- r6
(* Two owners measure at once.                                                *)
Probing == INSTANCE CapacityProbe WITH
    Worker <- {1, 2}, Name <- {"x"}, Mix <- {<<"a">>}, RoundCounts <- {2}, Clients <- 1,
    Wire <- {Reply, [Reply EXCEPT !.status = 429]}, Content <- Contents, Machines <- Homes,
    Price <- Tariff, Huge <- 9, MaxRecords <- 1, MaxNew <- 4, Old <- {}, Ttft <- 2, Gap <- 2,
    MaxAge <- 1, MaxTime <- 1, MaxMoves <- 1, MaxRuns <- 3, MaxFaults <- 1, work <- r1, alive <- r2,
    files <- r3, pending <- r4, lock <- r5, w <- r6, now <- r7, moves <- r8, runs <- r9,
    faults <- r10, clean <- r11
(* One owner compares what earlier probes left.                               *)
Judging == INSTANCE CapacityProbe WITH
    Worker <- {1}, Name <- {"x", "y"}, Mix <- {<<"a">>, <<"b">>, <<"c">>}, RoundCounts <- {},
    Clients <- 1, Wire <- {}, Content <- Contents, Machines <- Homes, Price <- Tariff, Huge <- 9,
    MaxRecords <- 2, MaxNew <- 4, Old <- Measured, Ttft <- 2, Gap <- 2, MaxAge <- 1, MaxTime <- 2,
    MaxMoves <- 1, MaxRuns <- 1, MaxFaults <- 0, work <- r1, alive <- r2, files <- r3,
    pending <- r4, lock <- r5, w <- r6, now <- r7, moves <- r8, runs <- r9, faults <- r10,
    clean <- r11
(* Two turns record what they measured in one slot.                           *)
Observing == INSTANCE ReplicaEvidence WITH
    Turn <- {1, 2}, Replica <- {1, 2}, NodesOf <- <<<<"h">>, <<"i">>>>, Need <- <<1, 2>>,
    Facts <- Tariff, Rates <- {Rate(100, 100, "session")},
    Reports <- {[x \in {"h", "i"} |-> Load(0, 0, 0)]}, Held <- {{}}, Seeds <- {<<[at |-> 0]>>},
    SlotCount <- 1, Policies <- {}, Fresh <- 1, MaxPending <- 3, MaxLoadAge <- 1, MaxTime <- 2,
    MaxMoves <- 1, MaxTurns <- 3, MaxFaults <- 1, report <- r1, held <- r2, usable <- r3,
    slots <- r4, pending <- r5, lock <- r6, latest <- r7, t <- r8, chosen <- r9, now <- r10,
    moves <- r11, turns <- r12, faults <- r13, best <- r14
(* Three replicas of a route are ranked by every policy.                      *)
Ranking == INSTANCE ReplicaEvidence WITH
    Turn <- {}, Replica <- {1, 2, 3}, NodesOf <- Nodes, Need <- <<1, 1, 2>>,
    Facts <- [h |-> Cost(3), i |-> Cost(1), j |-> Cost(2)], Rates <- {}, Reports <- Loads,
    Held <- {{}, {2}}, Seeds <- Profiles, SlotCount <- 3,
    Policies <- {"ordered", "decode", "cost", "load", "latency"}, Fresh <- 1, MaxPending <- 3,
    MaxLoadAge <- 1, MaxTime <- 1, MaxMoves <- 1, MaxTurns <- 0, MaxFaults <- 0, report <- r1,
    held <- r2, usable <- r3, slots <- r4, pending <- r5, lock <- r6, latest <- r7, t <- r8,
    chosen <- r9, now <- r10, moves <- r11, turns <- r12, faults <- r13, best <- r14
(* A supervisor with two local Segment processes.                             *)
Serving == INSTANCE Supervisor WITH
    Layers <- 3, Chunks <- 2, MaxPids <- 6, at <- r1, kids <- r2, slots <- r3, argv <- r4,
    sig <- r5, n <- r6, stopping <- r7
(* Two chats of one machine, both of which share it.                          *)
Chatting == INSTANCE ChatSession WITH
    Chats <- {1, 2}, Hosted <- {}, Shares <- <<{"compute"}, {"compute"}>>, MaxLines <- 1,
    MaxFaults <- 1, at <- r1, eng <- r2, kid <- r3, listed <- r4, lease <- r5, stop <- r6,
    roled <- r7, lines <- r8, faults <- r9
(* Every snapshot of four ranges of a model with three layers.                *)
Routes == INSTANCE SegmentDiscovery WITH
    Chat <- {}, MaxGen <- 1, Layers <- 3, Ranges <- Offers, Offered <- 4, gen <- r1, snapshot <- r2,
    asked <- r3, worker <- r4, next <- r5, at <- r6, fetched <- r7, seen <- r8, since <- r9,
    owed <- r10, entries <- r11
(* Two peers with two checkpoints.                                            *)
Directory == INSTANCE ExpertDirectory WITH
    Addr <- {p1, p2}, Gid <- {1, 2}, Layer <- {1}, LayerOf <- <<1, 1>>, Root <- {"r", "s"},
    Strict <- FALSE, MaxRep <- 1, MaxPeers <- 2, known <- r1, dead <- r2, due <- r3, pooled <- r4,
    own <- r5, admitted <- r6, pinned <- r7, relay <- r8, covered <- r9, on <- r10

(* The registers that a component with n of them leaves alone.                *)
Empty(n) ==
    /\ (IF n < 7 THEN r7 = 0 ELSE TRUE) /\ (IF n < 8 THEN r8 = 0 ELSE TRUE) /\ (IF n < 9 THEN r9 = 0 ELSE TRUE)
    /\ (IF n < 10 THEN r10 = 0 ELSE TRUE) /\ (IF n < 11 THEN r11 = 0 ELSE TRUE) /\ (IF n < 12 THEN r12 = 0 ELSE TRUE)
    /\ (IF n < 13 THEN r13 = 0 ELSE TRUE) /\ (IF n < 14 THEN r14 = 0 ELSE TRUE)
Rest(n) ==
    /\ (IF n < 7 THEN r7' = r7 ELSE TRUE) /\ (IF n < 8 THEN r8' = r8 ELSE TRUE) /\ (IF n < 9 THEN r9' = r9 ELSE TRUE)
    /\ (IF n < 10 THEN r10' = r10 ELSE TRUE) /\ (IF n < 11 THEN r11' = r11 ELSE TRUE) /\ (IF n < 12 THEN r12' = r12 ELSE TRUE)
    /\ (IF n < 13 THEN r13' = r13 ELSE TRUE) /\ (IF n < 14 THEN r14' = r14 ELSE TRUE)
Unused == r1 = 0 /\ r2 = 0 /\ r3 = 0 /\ r4 = 0 /\ r5 = 0 /\ r6 = 0 /\ Empty(6)

MCInit ==
    /\ Init
    /\ \/ part = "buckets" /\ Unused
       \/ part = "demand" /\ Demand({1}, {"m", "n"}, 2, 5)!Init /\ Empty(7)
       \/ part = "children" /\ Demand({1, 2}, {"m"}, 1, 2)!Init /\ Empty(7)
       \/ part = "turns" /\ Turns({1, 2}, 1)!Init /\ Empty(6)
       \/ part = "faults" /\ Turns({1}, 4)!Init /\ Empty(6)
       \/ part = "elastic" /\ Elastic!Init /\ Empty(11)
       \/ part = "prices" /\ Prices!Init /\ Empty(8)
       \/ part = "plans" /\ Planner!Init /\ Empty(6)
       \/ part = "probe" /\ Probing!Init /\ Empty(11)
       \/ part = "judge" /\ Judging!Init /\ Empty(11)
       \/ part = "observe" /\ Observing!Init /\ Empty(14)
       \/ part = "rank" /\ Ranking!Init /\ Empty(14)
       \/ part = "serve" /\ Serving!Init /\ Empty(7)
       \/ part = "chat" /\ Chatting!Init /\ Empty(9)
       \/ part = "routes" /\ Routes!Init /\ Empty(11)
       \/ part = "directory" /\ Directory!Init /\ Empty(10)
MCNext ==
    /\ part' = part
    /\ \/ part = "buckets" /\ Next /\ UNCHANGED registers
       \/ /\ part # "buckets" /\ UNCHANGED vars
          /\ \/ part = "demand" /\ Demand({1}, {"m", "n"}, 2, 5)!Next /\ Rest(7)
             \/ part = "children" /\ Demand({1, 2}, {"m"}, 1, 2)!Next /\ Rest(7)
             \/ part = "turns" /\ Turns({1, 2}, 1)!Next /\ Rest(6)
             \/ part = "faults" /\ Turns({1}, 4)!Next /\ Rest(6)
             \/ part = "elastic" /\ Elastic!Next /\ Rest(11)
             \/ part = "prices" /\ Prices!Next /\ Rest(8)
             \/ part = "plans" /\ Planner!Next /\ Rest(6)
             \/ part = "probe" /\ Probing!Next /\ Rest(11)
             \/ part = "judge" /\ Judging!Next /\ Rest(11)
             \/ part = "observe" /\ Observing!Next /\ Rest(14)
             \/ part = "rank" /\ Ranking!Next /\ Rest(14)
             \/ part = "serve" /\ Serving!Next /\ Rest(7)
             \/ part = "chat" /\ Chatting!Next /\ Rest(9)
             \/ part = "directory" /\ Directory!Next /\ Rest(10)
MCSpec == MCInit /\ [][MCNext]_<<part, vars, registers>>
-----------------------------------------------------------------------------
(* A request is answered once, by one replica, within its user's permits, and *)
(* the demand the gateway reports is what was served: GatewayTurn,            *)
(* GatewayDemand.                                                             *)
RequestsSound ==
    /\ part = "demand" => Demand({1}, {"m", "n"}, 2, 5)!DemandSound
    /\ part = "children" => Demand({1, 2}, {"m"}, 1, 2)!DemandSound
    /\ part = "turns" => Turns({1, 2}, 1)!TurnSound
    /\ part = "faults" => Turns({1}, 4)!TurnSound
(* The two controllers of replicas stay within the owner's limits and leave a *)
(* change of the owner alone: see ElasticReplicas, Portfolio.                 *)
PoliciesSound ==
    /\ part = "elastic" => Elastic!ElasticSound
    /\ part = "prices" => Prices!PortfolioSound
(* A plan fits its machines, and one is found where one exists; a machine has *)
(* one donor, and a stop reaches every process: see Placement, ChatSession,   *)
(* Supervisor.                                                                *)
PlacementSound ==
    /\ part = "plans" => Planner!PlanSound /\ Planner!PlanComplete
    /\ part = "serve" => Serving!SignalReachesAll
    /\ part = "chat" => Chatting!OneDonorPerMachine
(* What the gateway learned of its replicas describes them: see               *)
(* CapacityProbe, ReplicaEvidence.                                            *)
EvidenceSound ==
    /\ part = "probe" => Probing!CapacitySound
    /\ part = "judge" => Judging!CapacitySound
    /\ part = "observe" => Observing!NeverRolledBack /\ Observing!RankSound
    /\ part = "rank" => Ranking!NeverRolledBack /\ Ranking!RankSound
(* What the elastic controller drains or releases no other model's route      *)
(* names at that moment: see LeavesOthers in ElasticReplicas.                 *)
SharedIsKept == [][part = "elastic" => Elastic!LeavesOthers]_<<part, registers>>
=============================================================================
