---------------------------- MODULE MCHousehold ------------------------------
(* The life of a chat in a household, component by component, each with the   *)
(* fairness of its own threads: the Edge's turns and its view of the routes,  *)
(* the host, the donor keepers and their plans, the chat process, the secure  *)
(* channel and the Segment node, next to the compute broker of this module's  *)
(* base. part names the component that moves in a behaviour; no two share     *)
(* state, so they use one set of registers.                                   *)
EXTENDS Household, TLC
CONSTANTS s1, q1, l1, h1, zero, w1, w2, reaper, nobody
ASSUME HouseholdConstants == HostConstants /\ HomeConstants
VARIABLES prompt, out, result,       \* what the user of a chat sees
          snapshot, seen, since      \* what a chat knows of the routes
shown == <<prompt, out, result>>
known == <<snapshot, seen, since>>
all == <<part, vars, shown, known, registers>>

(* A large allocation with the Edge and a small one on a donor with 3 units,  *)
(* parked, crashing or Hybrid; plans over two donors, one with the Edge; two  *)
(* threads that send on a descriptor that another closes and reuses, and keys *)
(* to pin; a node under pressure, and one that the tracker gives work.        *)
Keeper(hybrid, park, rev, crash) ==
    [hybrid |-> ("a" :> FALSE @@ "b" :> hybrid), park |-> park, rev |-> rev, crash |-> crash]
Preparation(hybrid, background, fault) == [hybrid |-> hybrid, background |-> background, fault |-> fault]
Connection(fds, keys, sizes, gate, send, fault) ==
    [fd |-> fds, keys |-> keys, sizes |-> sizes, gate |-> gate, send |-> send, fault |-> fault]
Node(auto, local, toggle, fault, forward, leases) ==
    [auto |-> auto, local |-> local, toggle |-> toggle, fault |-> fault, forward |-> forward, leases |-> leases]
MCKind == "donor" :> Keeper(FALSE, 1, 0, 0) @@ "crash" :> Keeper(FALSE, 0, 1, 1) @@ "hybrid" :> Keeper(TRUE, 1, 1, 0)
          @@ "plan" :> Preparation(TRUE, FALSE, 2) @@ "window" :> Preparation(FALSE, TRUE, 1)
          @@ "channel" :> Connection({1}, {1}, {1}, 2, 2, 1) @@ "pins" :> Connection({1, 2}, {1, 2}, {1, 2}, 1, 1, 0)
          @@ "admit" :> Node(FALSE, 0, 2, 1, 0, 1) @@ "join" :> Node(TRUE, 1, 0, 1, 1, 2)
MCRam == "a" :> 2 @@ "b" :> 1
MCEdge == "a" :> TRUE @@ "b" :> FALSE

(* One stage with a spare donor and one without; two turns; one fault.        *)
Turn == INSTANCE SegmentTurn WITH
    Stages <- 2, Peer <- {"a", "b", "c"}, StageOf <- ("a" :> 1 @@ "b" :> 1 @@ "c" :> 2),
    First <- <<5, 6>>, User <- 5, MaxRows <- 1, Wanted <- 2, Eos <- 0, MaxTurns <- 2,
    MaxFaults <- 1, sess <- r1, lease <- r2, gen <- r3, view <- r4, conv <- r5, pc <- r6, off <- r7,
    i <- r8, act <- r9, again <- r10, fresh <- r11, tried <- r12, failed <- r13, dead <- r14,
    refreshes <- r15, stale <- r16, shots <- r17, turns <- r18, faults <- r19
(* A chat that fails over next to the worker that fetches the routes.         *)
Views == INSTANCE SegmentDiscovery WITH
    Chat <- {1}, MaxGen <- 2, Layers <- 0, Ranges <- {}, Offered <- 0, gen <- r1, asked <- r2,
    worker <- r3, next <- r4, at <- r5, fetched <- r6, owed <- r7, entries <- r8
(* A chat that shares its machine, and one that serves others.                *)
Chatting(hosted) == INSTANCE ChatSession WITH
    Chats <- {1}, Hosted <- hosted, Shares <- <<{"compute", "disk"}>>, MaxLines <- 2,
    MaxFaults <- 1, at <- r1, eng <- r2, kid <- r3, listed <- r4, lease <- r5, stop <- r6,
    roled <- r7, lines <- r8, faults <- r9
(* The sessions of a Segment node: two workers and the reaper.                *)
Frames == INSTANCE SegSession WITH
    Sessions <- {s1}, Requests <- {q1}, Leases <- {l1}, Epochs <- {1}, Routes <- {1}, Payloads <- {h1},
    Shapes <- {[context |-> 2, max_rows |-> 1, ttl |-> 1, snapshot |-> TRUE]}, ZeroId <- zero,
    MaxSessions <- 1, HistorySlots <- 1, SeqMax <- 1, Positions <- {0, 1}, RowCounts <- {1}
Serving == INSTANCE SegmentNode WITH
    Sessions <- {s1}, Requests <- {q1}, Leases <- {l1}, Epochs <- {1}, Routes <- {1},
    Payloads <- {h1}, Shapes <- {[context |-> 2, max_rows |-> 1, ttl |-> 1, snapshot |-> TRUE]},
    ZeroId <- zero, MaxSessions <- 1, HistorySlots <- 1, SeqMax <- 1, Positions <- {0, 1},
    RowCounts <- {1}, Workers <- {w1, w2}, Reaper <- reaper, Nobody <- nobody, SlotIds <- {1},
    OpenFrames <- Frames!Opens, RunFrames <- {run \in Frames!Runs : run.position = run.sequence},
    TransferFrames <- {x \in Frames!Transfers : x.position = 0 /\ x.sequence = 0},
    CloseFrames <- Frames!Controls, Chunks <- 1, RestoreIdle <- 1, Now <- 1, table <- r1,
    quiet <- r2, slots <- r3, slot_lock <- r4, sessions_lock <- r5, active <- r6, fault <- r7,
    pc <- r8, job <- r9, at <- r10, spent <- r11
(* The registers that a component with n of them leaves alone.                *)
Empty(n) ==
    /\ (IF n < 9 THEN r9 = 0 ELSE TRUE) /\ (IF n < 10 THEN r10 = 0 ELSE TRUE) /\ (IF n < 11 THEN r11 = 0 ELSE TRUE)
    /\ (IF n < 12 THEN r12 = 0 ELSE TRUE) /\ (IF n < 13 THEN r13 = 0 ELSE TRUE) /\ (IF n < 14 THEN r14 = 0 ELSE TRUE)
    /\ (IF n < 15 THEN r15 = 0 ELSE TRUE) /\ (IF n < 16 THEN r16 = 0 ELSE TRUE) /\ (IF n < 17 THEN r17 = 0 ELSE TRUE)
    /\ (IF n < 18 THEN r18 = 0 ELSE TRUE) /\ (IF n < 19 THEN r19 = 0 ELSE TRUE) /\ (IF n < 20 THEN r20 = 0 ELSE TRUE)
    /\ (IF n < 21 THEN r21 = 0 ELSE TRUE) /\ (IF n < 22 THEN r22 = 0 ELSE TRUE) /\ (IF n < 23 THEN r23 = 0 ELSE TRUE)
    /\ (IF n < 24 THEN r24 = 0 ELSE TRUE) /\ (IF n < 25 THEN r25 = 0 ELSE TRUE) /\ (IF n < 26 THEN r26 = 0 ELSE TRUE)
Rest(n) ==
    /\ (IF n < 9 THEN r9' = r9 ELSE TRUE) /\ (IF n < 10 THEN r10' = r10 ELSE TRUE) /\ (IF n < 11 THEN r11' = r11 ELSE TRUE)
    /\ (IF n < 12 THEN r12' = r12 ELSE TRUE) /\ (IF n < 13 THEN r13' = r13 ELSE TRUE) /\ (IF n < 14 THEN r14' = r14 ELSE TRUE)
    /\ (IF n < 15 THEN r15' = r15 ELSE TRUE) /\ (IF n < 16 THEN r16' = r16 ELSE TRUE) /\ (IF n < 17 THEN r17' = r17 ELSE TRUE)
    /\ (IF n < 18 THEN r18' = r18 ELSE TRUE) /\ (IF n < 19 THEN r19' = r19 ELSE TRUE) /\ (IF n < 20 THEN r20' = r20 ELSE TRUE)
    /\ (IF n < 21 THEN r21' = r21 ELSE TRUE) /\ (IF n < 22 THEN r22' = r22 ELSE TRUE) /\ (IF n < 23 THEN r23' = r23 ELSE TRUE)
    /\ (IF n < 24 THEN r24' = r24 ELSE TRUE) /\ (IF n < 25 THEN r25' = r25 ELSE TRUE) /\ (IF n < 26 THEN r26' = r26 ELSE TRUE)
Unused == /\ r1 = 0 /\ r2 = 0 /\ r3 = 0 /\ r4 = 0 /\ r5 = 0 /\ r6 = 0 /\ r7 = 0 /\ r8 = 0
          /\ Empty(8)
Used == IF part \in Lives THEN 26 ELSE IF part = "host" THEN 24 ELSE IF part \in Preparations THEN 22
        ELSE IF part \in Links THEN 16 ELSE 13
Silent == prompt = <<>> /\ out = <<>> /\ result = "done"
Blind == snapshot = 0 /\ seen = [c \in {1} |-> 0] /\ since = [c \in {1} |-> 0]

MCInit ==
    /\ Init
    /\ \/ part = "broker" /\ Unused /\ Silent /\ Blind
       \/ part = "turn" /\ Turn!Init /\ Empty(19) /\ Blind
       \/ part = "views" /\ Views!Init /\ Empty(8) /\ Silent
       \/ HouseInit /\ Empty(Used) /\ Silent /\ Blind
       \/ part = "chat" /\ Chatting({})!Init /\ Empty(9) /\ Silent /\ Blind
       \/ part = "hosted" /\ Chatting({1})!Init /\ Empty(9) /\ Silent /\ Blind
       \/ part = "sessions" /\ Serving!Init /\ Empty(11) /\ Silent /\ Blind
MCNext ==
    /\ part' = part
    /\ \/ part = "broker" /\ Next /\ UNCHANGED <<shown, known, registers>>
       \/ /\ part # "broker" /\ UNCHANGED vars
          /\ \/ part = "turn" /\ Turn!Next /\ Rest(19) /\ UNCHANGED known
             \/ part = "views" /\ Views!Next /\ Rest(8) /\ UNCHANGED shown
             \/ HouseNext /\ Rest(Used) /\ UNCHANGED <<shown, known>>
             \/ part = "chat" /\ Chatting({})!Next /\ Rest(9) /\ UNCHANGED <<shown, known>>
             \/ part = "hosted" /\ Chatting({1})!Next /\ Rest(9) /\ UNCHANGED <<shown, known>>
             \/ part = "sessions" /\ (Serving!Next \/ Serving!FallSilent) /\ Rest(11) /\ UNCHANGED <<shown, known>>
(* The fairness of each component, as its module states and justifies it.     *)
MCSpec ==
    /\ MCInit /\ [][MCNext]_all
    /\ \A c \in Conns :
          /\ WF_vars(part = "broker" /\ Accept(c)) /\ WF_vars(part = "broker" /\ ReadRequest(c))
          /\ WF_vars(part = "broker" /\ up /\ HungUp(c) /\ Drop(c)) /\ WF_vars(part = "broker" /\ Grant(c))
          /\ WF_vars(part = "broker" /\ SendRequest(c)) /\ WF_vars(part = "broker" /\ Receive(c))
          /\ WF_vars(part = "broker" /\ (c \in shut \/ ~up) /\ GiveUp(c)) /\ WF_vars(part = "broker" /\ Release(c))
    /\ WF_(Turn!vars)(part = "turn" /\ Turn!Step)
    /\ WF_(Views!vars)(part = "views" /\ Views!Worker)
    /\ WF_(Pool!vars)(part = "host" /\ Pool!Main)
    /\ WF_(Pool!vars)(part = "host" /\ Pool!Engine)
    /\ WF_(Pool!vars)(part = "host" /\ Pool!Worker(1))
    /\ \A i \in {"a", "b"} : WF_(Donor("donor")!vars)(part = "donor" /\ Donor("donor")!Serve(i))
    /\ \A i \in {"a", "b"} : WF_(Donor("donor")!vars)(part = "donor" /\ Donor("donor")!Dies(i))
    /\ \A i \in {"a", "b"} : WF_(Donor("crash")!vars)(part = "crash" /\ Donor("crash")!Serve(i))
    /\ \A i \in {"a", "b"} : WF_(Donor("crash")!vars)(part = "crash" /\ Donor("crash")!Dies(i))
    /\ \A i \in {"a", "b"} : WF_(Donor("hybrid")!vars)(part = "hybrid" /\ Donor("hybrid")!Serve(i))
    /\ \A i \in {"a", "b"} : WF_(Donor("hybrid")!vars)(part = "hybrid" /\ Donor("hybrid")!Dies(i))
    /\ WF_(Plan("plan")!vars)(part = "plan" /\ Plan("plan")!Keeper)
    /\ WF_(Plan("plan")!vars)(part = "plan" /\ Plan("plan")!Window)
    /\ \A d \in {"a", "e"} : WF_(Plan("plan")!vars)(part = "plan" /\ Plan("plan")!Monitor(d))
    /\ \A d \in {"a", "e"} : WF_(Plan("plan")!vars)(part = "plan" /\ Plan("plan")!Decide(d))
    /\ \A d \in {"a", "e"} : WF_(Plan("plan")!vars)(part = "plan" /\ Plan("plan")!Heard(d))
    /\ \A d \in {"a", "e"} : WF_(Plan("plan")!vars)(part = "plan" /\ Plan("plan")!Progress(d))
    /\ WF_(Plan("window")!vars)(part = "window" /\ Plan("window")!Keeper)
    /\ WF_(Plan("window")!vars)(part = "window" /\ Plan("window")!Window)
    /\ \A d \in {"a", "e"} : WF_(Plan("window")!vars)(part = "window" /\ Plan("window")!Monitor(d))
    /\ \A d \in {"a", "e"} : WF_(Plan("window")!vars)(part = "window" /\ Plan("window")!Decide(d))
    /\ \A d \in {"a", "e"} : WF_(Plan("window")!vars)(part = "window" /\ Plan("window")!Heard(d))
    /\ \A d \in {"a", "e"} : WF_(Plan("window")!vars)(part = "window" /\ Plan("window")!Progress(d))
    /\ WF_(Chatting({})!vars)(part = "chat" /\ Chatting({})!Steps(1))
    /\ WF_(Chatting({})!vars)(part = "chat" /\ Chatting({})!EngineBoots(1))
    /\ WF_(Chatting({})!vars)(part = "chat" /\ Chatting({})!EngineEnds(1))
    /\ WF_(Chatting({})!vars)(part = "chat" /\ Chatting({})!Told("disk", 1))
    /\ WF_(Chatting({})!vars)(part = "chat" /\ Chatting({})!Told("compute", 1))
    /\ WF_(Chatting({1})!vars)(part = "hosted" /\ Chatting({1})!Steps(1))
    /\ WF_(Chatting({1})!vars)(part = "hosted" /\ Chatting({1})!EngineBoots(1))
    /\ WF_(Chatting({1})!vars)(part = "hosted" /\ Chatting({1})!EngineEnds(1))
    /\ WF_(Chatting({1})!vars)(part = "hosted" /\ Chatting({1})!Told("disk", 1))
    /\ WF_(Chatting({1})!vars)(part = "hosted" /\ Chatting({1})!Told("compute", 1))
    /\ \A f \in {1} : WF_(Link("channel")!vars)(part = "channel" /\ Link("channel")!Opener(f))
    /\ \A t \in {1, 2} : WF_(Link("channel")!vars)(part = "channel" /\ Link("channel")!Call(t))
    /\ \A c \in {1, 2} : WF_(Link("channel")!vars)(part = "channel" /\ Link("channel")!Handle(c))
    /\ \A f \in {1, 2} : WF_(Link("pins")!vars)(part = "pins" /\ Link("pins")!Opener(f))
    /\ \A t \in {1, 2} : WF_(Link("pins")!vars)(part = "pins" /\ Link("pins")!Call(t))
    /\ \A c \in {1, 2} : WF_(Link("pins")!vars)(part = "pins" /\ Link("pins")!Handle(c))
    /\ WF_(Life("admit")!vars)(part = "admit" /\ Life("admit")!Main)
    /\ WF_(Life("admit")!vars)(part = "admit" /\ Life("admit")!Worker)
    /\ WF_(Life("admit")!vars)(part = "admit" /\ Life("admit")!Governor)
    /\ WF_(Life("admit")!vars)(part = "admit" /\ Life("admit")!WorkerEnds)
    /\ WF_(Life("admit")!vars)(part = "admit" /\ Life("admit")!AcceptOwn)
    /\ WF_(Life("join")!vars)(part = "join" /\ Life("join")!Main)
    /\ WF_(Life("join")!vars)(part = "join" /\ Life("join")!Worker)
    /\ WF_(Life("join")!vars)(part = "join" /\ Life("join")!Governor)
    /\ WF_(Life("join")!vars)(part = "join" /\ Life("join")!WorkerEnds)
    /\ WF_(Life("join")!vars)(part = "join" /\ Life("join")!AcceptOwn)
    /\ WF_(Serving!vars)(part = "sessions" /\ Serving!Elapse)
    /\ \A t \in {w1, w2} : WF_(Serving!vars)(part = "sessions" /\ Serving!Proceed(t))
    /\ WF_(Serving!vars)(part = "sessions" /\ (Serving!Find(reaper) \/ Serving!LockSlot(reaper) \/ Serving!Reap))
-----------------------------------------------------------------------------
(* The Edge implements what a chat promises: see Answer, SegmentTurn.         *)
AnswerIsKept == Turn!AnswerIsKept
(* What a chat is told of the routes never moves back: see SegmentDiscovery.  *)
ViewsMoveForward == Views!ViewsMoveForward
(* What must end in each component, the first, second or third of its kind.   *)
Ends(n) ==
    /\ part = "broker" => Served(n)
    /\ result # "busy"
    /\ part = "views" => Views!Served
    /\ part = "host" => Pool!Back(1)
    /\ part = "donor" => ~Donor("donor")!Abandoned(<<"a", "b", "b">>[n])
    /\ part = "crash" => ~Donor("crash")!Abandoned(<<"a", "b", "b">>[n])
    /\ part = "hybrid" => ~Donor("hybrid")!Abandoned(<<"a", "b", "b">>[n])
    /\ part = "chat" => Chatting({})!Stopped(1)
    /\ part = "hosted" => Chatting({1})!Stopped(1)
    /\ part = "channel" => Link("channel")!Left(<<1, 2, 2>>[n])
    /\ part = "pins" => Link("pins")!Left(<<1, 2, 2>>[n])
    /\ part = "admit" => <<Life("admit")!Stopped, Life("admit")!Advertised, Life("admit")!PressureTold>>[n]
    /\ part = "join" => <<Life("join")!Stopped, Life("join")!Advertised, Life("join")!PressureTold>>[n]
(* What must be over for good.                                                *)
EndsForGood ==
    /\ part = "sessions" => Serving!Settled
    /\ part = "plan" => Plan("plan")!Settled
    /\ part = "window" => Plan("window")!Settled
(* Whatever is begun ends, in every component: see the liveness of its module.*)
EverythingEnds == (\A n \in 1 .. 3 : []<>Ends(n)) /\ <>[]EndsForGood
=============================================================================
