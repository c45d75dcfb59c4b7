------------------------------ MODULE Household ------------------------------
(* The parts of a household that keep their promises for every value of the   *)
(* constants, next to the compute broker of a donor. part names the component *)
(* that moves in a behaviour; no two share state, so they use one set of      *)
(* registers, under the names of their own modules.                           *)
EXTENDS ComputeBroker, Sequences, FiniteSetTheorems, FunctionTheorems, SequenceTheorems,
        WellFoundedInduction, NaturalsInduction, TLAPS
CONSTANTS HostSlots, HostConns, HostTurns, HostRev, HostFaults,
          Keepers, Preparations, Kind,     \* donors and plans by name; name -> what it is and its bounds
          DonorAlloc, DonorRam, DonorEdge, DonorScoped, DonorTotal,
          PlanDonors, PlanEdge,
          Links, Lives,                    \* connections and Segment nodes by name
          LinkThread, LinkHost, LinkCap, LinkBudget, LinkEntries, LinkLearn, LinkConns
VARIABLES part,
          r1, r2, r3, r4, r5, r6, r7, r8, r9, r10, r11, r12, r13,
          r14, r15, r16, r17, r18, r19, r20, r21, r22, r23, r24, r25, r26
registers == <<r1, r2, r3, r4, r5, r6, r7, r8, r9, r10, r11, r12, r13,
               r14, r15, r16, r17, r18, r19, r20, r21, r22, r23, r24, r25, r26>>

(* The registers of the host.                                                 *)
at == r1
conn == r2
reset_needed == r3
admitted == r4
requests == r5
workers == r6
mode == r7
revision == r8
stop == r9
sealed == r10
main == r11
cur == r12
turns == r13
cmd == r14
frames == r15
dead == r16
running == r17
kv == r18
stuck == r19
next == r20
asked == r21
gone == r22
faults == r23
heard == r24
(* Connections compete for the slots of a host.                               *)
Pool == INSTANCE HostSessions WITH
    Slots <- HostSlots, MaxConns <- HostConns, MaxTurns <- HostTurns, MaxRev <- HostRev,
    MaxFaults <- HostFaults

(* The registers of a donor's keeper.                                         *)
slot == r1
keeper == r2
pool == r3
linger == r4
born == r5
torn == r6
receipts == r7
node_sealed == r8
acked == r9
proved == r10
policy == r11
other == r12
crashes == r13
(* Allocations compete for the memory of a donor.                             *)
Donor(k) == INSTANCE HomeDonor WITH
    Alloc <- DonorAlloc, Ram <- DonorRam, Edge <- DonorEdge, Scoped <- DonorScoped, Total <- DonorTotal,
    Hybrid <- Kind[k].hybrid, Park <- Kind[k].park, MaxRev <- Kind[k].rev, MaxCrashes <- Kind[k].crash,
    up <- keeper, sealed <- node_sealed

(* The registers of a plan.                                                   *)
step == r1
offered == r2
committed == r3
coordinator == r4
host_started == r5
prepared == r6
reported == r7
failed == r8
monitor == r9
outgoing == r10
incoming == r11
phase == r12
held == r13
retained == r14
open == r15
history == r16
plan == r17
library == r18
observed == r19
job == r20
window == r21
plan_faults == r22
(* Several donors prepare one model.                                          *)
Plan(k) == INSTANCE HomePlan WITH
    Donors <- PlanDonors, Edge <- PlanEdge, Hybrid <- Kind[k].hybrid, Background <- Kind[k].background,
    MaxFaults <- Kind[k].fault, asked <- offered, seen <- reported, out <- outgoing, in <- incoming,
    result <- observed, was <- history, faults <- plan_faults

(* The registers of the encrypted connections.                                *)
sockets == r1
registry == r2
entries == r3
senders == r4
known_keys == r5
streams == r6
hung_up == r7
handlers == r8
places == r9
buffered == r10
dialled == r11
sends == r12
link_faults == r13
sealed_frames == r14
taken_frames == r15
mixed == r16
(* Threads that send on a descriptor another closes and reuses; pinned keys.  *)
Link(k) == INSTANCE SecureChannel WITH
    Fd <- Kind[k].fd, Thread <- LinkThread, Host <- LinkHost, Key <- Kind[k].keys, Size <- Kind[k].sizes,
    FrameCap <- LinkCap, Budget <- LinkBudget, Limit <- Kind[k].gate, MaxEntries <- LinkEntries,
    Learn <- LinkLearn, MaxConns <- LinkConns, MaxSends <- Kind[k].send, MaxFaults <- Kind[k].fault,
    fd <- sockets, reg <- registry, entry <- entries, thr <- senders, known <- known_keys, wire <- streams,
    eof <- hung_up, srv <- handlers, active <- places, inflight <- buffered, next <- dialled,
    faults <- link_faults, sent <- sealed_frames, got <- taken_frames, dirty <- mixed

(* The registers of a Segment node.                                           *)
boot == r1
stopping == r2
rstop == r3
listen == r4
range == r5
preflight == r6
loaded == r7
uplink == r8
draining == r9
refresh == r10
copy == r11
vouched == r12
owner == r13
compute == r14
governor == r15
pressed == r16
manual == r17
carried == r18
listed == r19
inbox == r20
leased == r21
sampled == r22
posted == r23
toggles == r24
forwards == r25
life_faults == r26
(* A node under pressure, or one that the tracker gives a range and work.     *)
Life(k) == INSTANCE NodeLife WITH
    AutoRange <- Kind[k].auto, Local <- Kind[k].local, MaxToggles <- Kind[k].toggle, MaxFaults <- Kind[k].fault,
    MaxForwards <- Kind[k].forward, MaxLeases <- Kind[k].leases, main <- boot, stop <- stopping,
    pre <- preflight, engine <- loaded, link <- uplink, flags <- draining, ready <- vouched, lease <- owner,
    gov <- governor, conns <- carried, told <- listed, granted <- leased, faults <- life_faults

HouseInit == \/ part = "host" /\ Pool!Init
             \/ \E k \in Keepers : part = k /\ Donor(k)!Init
             \/ \E k \in Preparations : part = k /\ Plan(k)!Init
             \/ \E k \in Links : part = k /\ Link(k)!Init
             \/ \E k \in Lives : part = k /\ Life(k)!Init
HouseNext == /\ part' = part
             /\ \/ part = "host" /\ Pool!Next
                \/ \E k \in Keepers : part = k /\ Donor(k)!Next
                \/ \E k \in Preparations : part = k /\ Plan(k)!Next
                \/ \E k \in Links : part = k /\ Link(k)!Next
                \/ \E k \in Lives : part = k /\ Life(k)!Next
HouseSpec == HouseInit /\ [][HouseNext]_<<part, registers>>

(* Clients of one host never read each other's turns: see HostSessions.       *)
HostSound == part = "host" => Pool!HostSound
(* A machine is never promised twice, an exit that was reported is true, and  *)
(* a plan that was recorded is ready everywhere: see HomeDonor, HomePlan.     *)
HomeSound ==
    /\ \A k \in Keepers : part = k => Donor(k)!NeverOvercommitted /\ Donor(k)!ExitIsTrue
    /\ \A k \in Preparations : part = k => Plan(k)!PlanSound
(* A handler accepts the frames of its connection, in order; a node is listed *)
(* only while it can serve, under its own lease: see SecureChannel, NodeLife. *)
ConnectionsSound ==
    /\ \A k \in Links : part = k => Link(k)!ChannelSound
    /\ \A k \in Lives : part = k => Life(k)!LifeSound
------------------------------------------------------------------------------
(* The compute broker: a grant that can still be read belongs to the client   *)
(* the broker holds active, the broker holds at most one active, and a broker *)
(* that has stopped holds none.                                               *)
OneActive == \A c, d \in Conns : broker[c] = "active" /\ broker[d] = "active" => c = d
GrantIsActive ==
    \A c \in Conns : client[c] = "asking" /\ c \in granted /\ c \notin shut
                     => broker[c] = "active"
DownIsIdle == ~up => \A c \in Conns : broker[c] # "active"
Alone == \A c, d \in Conns : client[c] = "computing" /\ client[d] = "computing" => c = d
InOrder ==
    /\ \A c \in Conns : ticket_of[c] <= ticket
    /\ \A c, d \in Conns : broker[c] = "active" /\ broker[d] = "queued"
                           => ticket_of[c] <= ticket_of[d]

Inv == /\ TypeOK /\ OneActive /\ GrantIsActive /\ DownIsIdle /\ NeverEvicted /\ Alone
       /\ InOrder

\* A broker just started holds nobody.
LEMMA InitInv == Init => Inv
  BY BrokerConstants DEF Init, Inv, TypeOK, OneActive, GrantIsActive, DownIsIdle,
     NeverEvicted, Alone, InOrder, Computing

\* Every step of either end preserves the invariant.
LEMMA StepInv == Inv /\ [Next]_vars => Inv'
<1> SUFFICES ASSUME Inv, [Next]_vars PROVE Inv'
  OBVIOUS
<1> USE BrokerConstants DEF Inv, TypeOK, OneActive, GrantIsActive, DownIsIdle,
        NeverEvicted, Alone, InOrder, Computing
<1>1. ASSUME NEW c \in Conns, Ask(c) PROVE Inv'
  BY <1>1 DEF Ask
<1>2. ASSUME NEW c \in Conns, SendRequest(c) PROVE Inv'
  BY <1>2 DEF SendRequest
<1>3. ASSUME NEW c \in Conns, Receive(c) PROVE Inv'
  BY <1>3 DEF Receive
<1>4. ASSUME NEW c \in Conns, GiveUp(c) PROVE Inv'
  BY <1>4 DEF GiveUp
<1>5. ASSUME NEW c \in Conns, Release(c) PROVE Inv'
  BY <1>5 DEF Release
<1>6. ASSUME NEW c \in Conns, Dropped(c), broker[c] # "active" \/ client[c] = "closed"
      PROVE Inv'
  BY <1>6 DEF Dropped
<1>7. ASSUME NEW c \in Conns, Accept(c) PROVE Inv'
  <2>1. CASE HasRoom
    BY <1>7, <2>1 DEF Accept
  <2>2. CASE ~HasRoom
    <3>1. Dropped(c) /\ broker[c] = "backlog"
      BY <1>7, <2>2 DEF Accept
    <3>. QED
      BY <3>1, <1>6
  <2>. QED
    BY <2>1, <2>2
<1>8. ASSUME NEW c \in Conns, ReadRequest(c) PROVE Inv'
  <2>1. CASE ~TicketsLeft
    <3>1. Dropped(c) /\ broker[c] = "header"
      BY <1>8, <2>1 DEF ReadRequest
    <3>. QED
      BY <3>1, <1>6
  <2>2. CASE TicketsLeft
    <3>1. ticket < TicketMax
      BY <2>2 DEF TicketsLeft
    <3>. QED
      BY <1>8, <2>2, <3>1 DEF ReadRequest
  <2>. QED
    BY <2>1, <2>2
<1>9. ASSUME NEW c \in Conns, Grant(c) PROVE Inv'
  <2>1. CASE client[c] = "closed"
    <3>1. Dropped(c)
      BY <1>9, <2>1 DEF Grant
    <3>. QED
      BY <3>1, <2>1, <1>6
  <2>2. CASE client[c] # "closed"
    BY <1>9, <2>2 DEF Grant, IsFirst, Queued, Active
  <2>. QED
    BY <2>1, <2>2
<1>10. ASSUME NEW c \in Conns, Drop(c) PROVE Inv'
  <2>1. Dropped(c) /\ (broker[c] # "active" \/ client[c] = "closed")
    BY <1>10 DEF Drop, HungUp, MayExpire
  <2>. QED
    BY <2>1, <1>6
<1>11. ASSUME NEW c \in Conns, Forgotten(c) PROVE Inv'
  BY <1>11 DEF Forgotten
<1>12. CASE Stop
  BY <1>12 DEF Stop, Retained
<1>13. CASE UNCHANGED vars
  BY <1>13 DEF vars
<1>. QED
  BY <1>1, <1>2, <1>3, <1>4, <1>5, <1>7, <1>8, <1>9, <1>10, <1>11, <1>12, <1>13
     DEF Next, Serve

\* The inductive invariant holds throughout.
THEOREM InvCorrect == Spec => []Inv
  BY InitInv, StepInv, PTL DEF Spec

\* Pairwise equal elements make at most one.
LEMMA AtMostOne ==
    ASSUME NEW S, \A x, y \in S : x = y PROVE Cardinality(S) <= 1
<1>1. CASE S = {}
  BY <1>1, FS_EmptySet
<1>2. CASE S # {}
  <2>1. PICK x : x \in S
    BY <1>2
  <2>2. S = {x}
    BY <2>1
  <2>. QED
    BY <2>2, FS_Singleton
<1>. QED
  BY <1>1, <1>2

\* At most one kernel computes on the donor (lmb_compute_serve grants only
\* when no client is active).
THEOREM OneKernelCorrect == Spec => []OneKernel
<1>1. Inv => OneKernel
  <2>1. SUFFICES ASSUME Inv PROVE OneKernel
    OBVIOUS
  <2>2. \A x, y \in Computing : x = y
    BY <2>1 DEF Inv, Alone, Computing
  <2>. QED
    BY <2>2, AtMostOne DEF OneKernel
<1>. QED
  BY <1>1, InvCorrect, PTL

\* A running broker never evicts the client that computes.
THEOREM NeverEvictedCorrect == Spec => []NeverEvicted
<1>1. Inv => NeverEvicted
  BY DEF Inv
<1>. QED
  BY <1>1, InvCorrect, PTL

\* Permits are taken up in the order in which the requests were read.
THEOREM FifoCorrect == Spec => Fifo
<1>1. Inv /\ [Next]_vars =>
        [\A c, d \in Conns :
           client[c] = "asking" /\ client'[c] = "computing" =>
              ~(broker[d] = "queued" /\ ticket_of[d] < ticket_of[c])]_vars
  <2> SUFFICES ASSUME Inv, [Next]_vars, NEW c \in Conns, NEW d \in Conns,
                      client[c] = "asking", client'[c] = "computing",
                      broker[d] = "queued", ticket_of[d] < ticket_of[c]
               PROVE FALSE
    OBVIOUS
  <2>1. Receive(c)
    BY DEF Inv, TypeOK, Next, Serve, Ask, SendRequest, Receive, GiveUp, Release,
           Accept, ReadRequest, Grant, Drop, Dropped, Forgotten, Stop, vars
  <2>2. broker[c] = "active"
    BY <2>1 DEF Receive, Inv, GrantIsActive
  <2>3. ticket_of[c] <= ticket_of[d]
    BY <2>2 DEF Inv, InOrder
  <2>4. ticket_of[c] \in Int /\ ticket_of[d] \in Int
    BY BrokerConstants DEF Inv, TypeOK
  <2>. QED
    BY <2>3, <2>4
<1>. QED
  BY <1>1, InvCorrect, PTL DEF Spec, Fifo

-----------------------------------------------------------------------------
\* Only Accept retains another connection, and only below the bound.
LEMMA RetainedStep ==
    ASSUME TypeOK, RetainedBounded, [Next]_vars PROVE RetainedBounded'
<1> USE DEF TypeOK
<1>1. IsFiniteSet(Retained)
  BY BrokerConstants, FS_Subset DEF Retained
<1>2. CASE Retained' \subseteq Retained
  <2>1. Cardinality(Retained') <= Cardinality(Retained)
    BY <1>1, <1>2, FS_Subset
  <2>2. Cardinality(Retained') \in Nat /\ Cardinality(Retained) \in Nat
    BY <1>1, <1>2, FS_Subset, FS_CardinalityType
  <2>. QED
    BY <2>1, <2>2, BrokerConstants DEF RetainedBounded
<1>3. ASSUME NEW c \in Conns, Accept(c) PROVE RetainedBounded'
  <2>1. CASE ~HasRoom
    <3>1. Retained' \subseteq Retained
      BY <1>3, <2>1 DEF Accept, Dropped, Retained
    <3>. QED
      BY <3>1, <1>2
  <2>2. CASE HasRoom
    <3>1. Retained' = Retained \cup {c}
      BY <1>3, <2>2 DEF Accept, Retained
    <3>2. c \notin Retained
      BY <1>3 DEF Accept, Retained
    <3>3. Cardinality(Retained') = Cardinality(Retained) + 1
      BY <3>1, <3>2, <1>1, FS_AddElement
    <3>4. Cardinality(Retained) \in Nat
      BY <1>1, FS_CardinalityType
    <3>. QED
      BY <3>3, <3>4, <2>2, BrokerConstants DEF HasRoom, RetainedBounded
  <2>. QED
    BY <2>1, <2>2
<1>4. ASSUME NEW c \in Conns,
             ReadRequest(c) \/ Grant(c) \/ Drop(c) \/ Ask(c) \/ Forgotten(c)
      PROVE Retained' \subseteq Retained
  BY <1>4 DEF ReadRequest, Grant, Drop, Dropped, Ask, Forgotten, Retained, IsFirst, Queued
<1>5. ASSUME NEW c \in Conns, SendRequest(c) \/ Receive(c) \/ GiveUp(c) \/ Release(c)
      PROVE Retained' \subseteq Retained
  BY <1>5 DEF SendRequest, Receive, GiveUp, Release, Retained
<1>6. CASE Stop \/ UNCHANGED vars
  <2>1. Retained' \subseteq Retained
    BY <1>6 DEF Stop, vars, Retained
  <2>. QED
    BY <2>1, <1>2
<1>. QED
  BY <1>2, <1>3, <1>4, <1>5, <1>6 DEF Next, Serve

\* The broker never retains more than LMB_COMPUTE_PENDING_MAX connections.
THEOREM RetainedCorrect == Spec => []RetainedBounded
<1>1. Init => RetainedBounded
  <2>1. Init => Retained = {}
    BY DEF Init, Retained
  <2>. QED
    BY <2>1, FS_EmptySet, BrokerConstants DEF RetainedBounded
<1>2. Inv => TypeOK
  BY DEF Inv
<1>3. TypeOK /\ RetainedBounded /\ [Next]_vars => RetainedBounded'
  BY RetainedStep
<1>. QED
  BY <1>1, <1>2, <1>3, InvCorrect, PTL DEF Spec

\* One kernel, and the one the broker counts.
THEOREM KernelSoundCorrect == Spec => []KernelSound
BY OneKernelCorrect, NeverEvictedCorrect, PTL DEF KernelSound
------------------------------------------------------------------------------
HostConstants == HostSlots \in Nat /\ HostConns \in Nat /\ HostTurns \in Nat /\ HostRev \in Nat /\ HostFaults \in Nat
Place == {"free", "receive", "admit", "queued", "own", "resetting", "bridge", "drain", "clear", "last", "close"}
Piping == {"resetting", "bridge", "drain", "clear", "last"}
Gated == {"own", "resetting", "bridge", "drain", "clear"}
Command == [op : {"reset", "submit", "cancel"}, slot : Pool!Slot, conn : Nat]
Frame == [op : {"accept", "done", "error", "done_reset", "pending"}, slot : Pool!Slot, conn : Nat]
HostType ==
    /\ at \in [Pool!Slot -> Place] /\ conn \in [Pool!Slot -> Nat]
    /\ reset_needed \in [Pool!Slot -> BOOLEAN] /\ admitted \in [Pool!Slot -> BOOLEAN]
    /\ mode \in {"open", "draining", "retired"} /\ stop \in BOOLEAN /\ sealed \in BOOLEAN
    /\ main \in {"accept", "seal", "sealing", "join"} /\ cur \in Pool!Slot \cup {0}
    /\ turns \in Seq(Pool!Slot) /\ cmd \in Seq(Command) /\ frames \in Seq(Frame)
    /\ running \in [slot : Pool!Slot, conn : Nat] \cup {Pool!NoTurn}
    /\ kv \in [Pool!Slot -> SUBSET Nat] /\ stuck \in [Pool!Slot -> BOOLEAN] /\ dead \in BOOLEAN
    /\ next \in Nat \ {0} /\ heard \in BOOLEAN
\* one owner
GateInv ==
    /\ \A i, j \in DOMAIN turns : turns[i] = turns[j] => i = j
    /\ \A s \in Pool!Slot : at[s] \in Gated \cup {"queued"} => \E i \in DOMAIN turns : turns[i] = s
    /\ \A i \in DOMAIN turns : at[turns[i]] \in Gated \cup {"queued"}
    /\ \A s \in Pool!Slot : at[s] \in Gated => turns[1] = s
ModeInv ==
    /\ stop => main \in {"accept", "join"} /\ \A s \in Pool!Slot : at[s] \notin Piping
    /\ main \in {"seal", "sealing"} \/ sealed => mode = "retired"
    /\ mode = "retired" => \A s \in Pool!Slot : at[s] = "free"
    /\ main = "sealing" => cur \in Pool!Slot
    /\ main = "join" => stop
    /\ \A s \in Pool!Slot : at[s] = "last" => HostSlots = 1
    /\ \A s \in Pool!Slot : at[s] = "free" <=> conn[s] = 0
TokenInv ==
    /\ \A i, j \in DOMAIN cmd : cmd[i].op # "cancel" /\ cmd[j].op # "cancel" => i = j
    /\ \A i \in DOMAIN cmd : cmd[i].op # "cancel" => running = Pool!NoTurn /\ frames = <<>>
    /\ running # Pool!NoTurn => \A i \in DOMAIN frames : frames[i].op = "accept"
    /\ \A i \in DOMAIN frames : frames[i].op # "accept" => i = Len(frames)
KvInv ==
    /\ \A s \in Pool!Slot : ~reset_needed[s] => kv[s] \subseteq {conn[s]} \ {0}
    /\ running # Pool!NoTurn => /\ kv[running.slot] \subseteq {running.conn}
                                /\ reset_needed[running.slot] \/ (running.conn = conn[running.slot] /\ running.conn # 0)
    /\ \A i \in DOMAIN cmd : cmd[i].op = "submit" =>
          /\ kv[cmd[i].slot] \subseteq {cmd[i].conn}
          /\ reset_needed[cmd[i].slot] \/ (cmd[i].conn = conn[cmd[i].slot] /\ cmd[i].conn # 0)
    /\ \A i \in DOMAIN frames : frames[i].op = "done_reset" => kv[frames[i].slot] = {}
OnlyResets(s) ==
    /\ \A i \in DOMAIN cmd : cmd[i].op \in {"cancel", "reset"} /\ (cmd[i].op = "reset" => cmd[i].slot = s /\ cmd[i].conn = conn[s])
    /\ running = Pool!NoTurn
    /\ \A i \in DOMAIN frames : frames[i].op \in {"done_reset", "pending"} /\ frames[i].slot = s /\ frames[i].conn = conn[s]
OnlyTurn(s) ==
    /\ \A i \in DOMAIN cmd : cmd[i].op \in {"cancel", "submit"} /\ (cmd[i].op = "submit" => cmd[i].slot = s /\ cmd[i].conn = conn[s])
    /\ running # Pool!NoTurn => running = [slot |-> s, conn |-> conn[s]]
    /\ \A i \in DOMAIN frames : frames[i].op \in {"accept", "done", "error"} /\ frames[i].slot = s /\ frames[i].conn = conn[s]
Idle == /\ \A i \in DOMAIN cmd : cmd[i].op = "cancel"
        /\ running = Pool!NoTurn /\ frames = <<>>
PipeInv ==
    /\ \A s \in Pool!Slot : at[s] \in {"resetting", "clear", "last"} => OnlyResets(s)
    /\ \A s \in Pool!Slot : at[s] \in {"bridge", "drain"} => OnlyTurn(s)
    /\ main = "sealing" => OnlyResets(cur)
    /\ ~stop /\ main # "sealing" /\ (\A s \in Pool!Slot : at[s] \notin Piping) => Idle
CountInv ==
    /\ workers = Cardinality({s \in Pool!Slot : at[s] # "free"})
    /\ requests = Cardinality({s \in Pool!Slot : admitted[s]})
AdmitInv ==
    /\ \A s \in Pool!Slot : at[s] \in {"free", "receive", "admit"} => ~admitted[s]
    /\ \A s \in Pool!Slot : at[s] \in Gated \cup {"queued"} => admitted[s]
SealInv == sealed => \A s \in Pool!Slot : ~reset_needed[s]
HostInv == HostType /\ GateInv /\ ModeInv /\ TokenInv /\ KvInv /\ PipeInv /\ CountInv /\ SealInv /\ AdmitInv /\ heard
\* What a queue is after something is written to it, and after its head is read.
LEMMA Written ==
    ASSUME NEW S, NEW q \in Seq(S), NEW e \in S
    PROVE  /\ Append(q, e) \in Seq(S) /\ Append(q, e) # <<>> /\ Len(Append(q, e)) = Len(q) + 1
           /\ DOMAIN Append(q, e) = 1 .. Len(q) + 1 /\ DOMAIN q = 1 .. Len(q) /\ Len(q) \in Nat
           /\ \A i \in 1 .. Len(q) : Append(q, e)[i] = q[i]
           /\ Append(q, e)[Len(q) + 1] = e
  OBVIOUS

\* A pipe that holds something has a first entry.
LEMMA Read ==
    ASSUME NEW S, NEW q \in Seq(S), q # <<>>
    PROVE  /\ Tail(q) \in Seq(S) /\ Len(Tail(q)) = Len(q) - 1 /\ Len(q) \in Nat \ {0}
           /\ DOMAIN Tail(q) = 1 .. Len(q) - 1 /\ DOMAIN q = 1 .. Len(q)
           /\ \A i \in 1 .. Len(q) - 1 : Tail(q)[i] = q[i + 1]
           /\ Head(q) = q[1] /\ q[1] \in S
  OBVIOUS

\* What has no length is empty.
LEMMA EmptyQueue ==
    ASSUME NEW S, NEW q \in Seq(S), Len(q) = 0 PROVE q = <<>>
  OBVIOUS

\* Whoever leaves the gate leaves the order of the others alone.
LEMMA LeftGate ==
    ASSUME HostType, GateInv, NEW s \in Pool!Slot, Pool!Leaves(s), NEW p, p \notin Gated \cup {"queued"},
           at' = [at EXCEPT ![s] = p]
    PROVE  turns' \in Seq(Pool!Slot) /\ GateInv'
<1>1. turns \in Seq(Pool!Slot) /\ at \in [Pool!Slot -> Place]
  BY DEF HostType
<1>2. PICK n \in DOMAIN turns :
         turns[n] = s /\ turns' = [k \in 1 .. Len(turns) - 1 |-> turns[IF k < n THEN k ELSE k + 1]]
  BY DEF Pool!Leaves
<1> DEFINE was(k) == IF k < n THEN k ELSE k + 1
<1>3. /\ Len(turns) \in Nat /\ DOMAIN turns = 1 .. Len(turns) /\ n \in 1 .. Len(turns)
      /\ DOMAIN turns' = 1 .. Len(turns) - 1
      /\ \A k \in 1 .. Len(turns) - 1 :
            was(k) \in 1 .. Len(turns) /\ was(k) # n /\ turns'[k] = turns[was(k)] /\ turns[was(k)] \in Pool!Slot
  BY <1>1, <1>2
<1>4. turns' \in Seq(Pool!Slot)
  BY <1>2, <1>3
<1>5. ASSUME NEW i \in DOMAIN turns', NEW j \in DOMAIN turns', turns'[i] = turns'[j]
      PROVE  i = j
  <2>1. /\ was(i) \in DOMAIN turns /\ was(j) \in DOMAIN turns
        /\ turns[was(i)] = turns[was(j)]
    BY ONLY <1>3, <1>5
  <2>2. was(i) = was(j)
    BY ONLY <2>1, GateInv DEF GateInv
  <2> QED BY ONLY <2>2, <1>3, <1>5
<1>6. \A t \in Pool!Slot : at'[t] = IF t = s THEN p ELSE at[t]
  BY <1>1
<1>7. ASSUME NEW t \in Pool!Slot, at'[t] \in Gated \cup {"queued"}
      PROVE  \E i \in DOMAIN turns' : turns'[i] = t
  <2>1. t # s /\ at[t] \in Gated \cup {"queued"}
    BY <1>6, <1>7
  <2>2. PICK i \in DOMAIN turns : turns[i] = t
    BY <2>1 DEF GateInv
  <2>3. i # n
    BY <2>1, <2>2, <1>2
  <2>4. CASE i < n
    <3>1. i \in DOMAIN turns' /\ was(i) = i
      BY <2>4, <1>3, <2>2
    <3> QED BY <3>1, <2>2, <1>3
  <2>5. CASE i > n
    <3>1. i - 1 \in DOMAIN turns' /\ was(i - 1) = i
      BY <2>5, <1>3, <2>2
    <3> QED BY <3>1, <2>2, <1>3
  <2> QED BY <2>3, <2>4, <2>5, <1>3
<1>8. ASSUME NEW i \in DOMAIN turns' PROVE at'[turns'[i]] \in Gated \cup {"queued"}
  BY <1>2, <1>3, <1>6, <1>8 DEF GateInv
<1>9. ASSUME NEW t \in Pool!Slot, at'[t] \in Gated PROVE turns'[1] = t
  <2>1. t # s /\ at[t] \in Gated /\ turns[1] = t
    BY <1>6, <1>9 DEF GateInv
  <2>2. n # 1 /\ 1 \in DOMAIN turns' /\ was(1) = 1
    BY <2>1, <1>2, <1>3
  <2> QED BY <2>1, <2>2, <1>3
<1> QED BY <1>4, <1>5, <1>7, <1>8, <1>9 DEF GateInv

\* Only one worker may use the pipes, and a host that seals has none.
LEMMA OneUser ==
    ASSUME HostType, GateInv, ModeInv, NEW s \in Pool!Slot, at[s] \in Gated \cup {"last"}
    PROVE  /\ \A t \in Pool!Slot : at[t] \in Gated \cup {"last"} => t = s
           /\ main # "sealing" /\ main # "seal" /\ mode # "retired" /\ ~sealed
           /\ at[s] # "own" => ~stop /\ main = "accept"
<1>1. ASSUME NEW t \in Pool!Slot, at[t] \in Gated \cup {"last"} PROVE t = s
  <2>1. CASE at[s] = "last" \/ at[t] = "last"
    BY <2>1 DEF ModeInv, Pool!Slot
  <2>2. CASE at[s] # "last" /\ at[t] # "last"
    BY <2>2, <1>1 DEF GateInv
  <2> QED BY <2>1, <2>2
<1>2. mode # "retired"
  BY DEF ModeInv, Gated
<1>3. at[s] # "own" => ~stop
  BY DEF ModeInv, Gated, Piping
<1> QED BY <1>1, <1>2, <1>3 DEF ModeInv, HostType

\* A command is written: a cancel at any time, any other one to idle pipes.
LEMMA CancelWritten ==
    ASSUME HostType, TokenInv, NEW c \in Command, c.op = "cancel", cmd' = Append(cmd, c),
           UNCHANGED <<frames, running>>
    PROVE  /\ cmd' \in Seq(Command) /\ TokenInv'
           /\ \A i \in DOMAIN cmd' : cmd'[i].op = "cancel" \/ (i \in DOMAIN cmd /\ cmd'[i] = cmd[i])
<1>1. cmd \in Seq(Command)
  BY DEF HostType
<1>2. /\ cmd' \in Seq(Command) /\ DOMAIN cmd' = 1 .. Len(cmd) + 1 /\ DOMAIN cmd = 1 .. Len(cmd)
      /\ Len(cmd) \in Nat /\ cmd'[Len(cmd) + 1] = c /\ \A i \in 1 .. Len(cmd) : cmd'[i] = cmd[i]
  BY <1>1, Written
<1>3. \A i \in DOMAIN cmd' : cmd'[i].op = "cancel" \/ (i \in DOMAIN cmd /\ cmd'[i] = cmd[i])
  BY <1>2
<1> QED BY <1>2, <1>3 DEF TokenInv

\* To an engine at rest a command is written behind cancels only.
LEMMA OpWritten ==
    ASSUME HostType, NEW c \in Command, \A i \in DOMAIN cmd : cmd[i].op = "cancel",
           running = Pool!NoTurn, running' = Pool!NoTurn, frames' = <<>>, cmd' = Append(cmd, c)
    PROVE  /\ cmd' \in Seq(Command) /\ TokenInv'
           /\ \A i \in DOMAIN cmd' : cmd'[i].op = "cancel" \/ cmd'[i] = c
<1>1. cmd \in Seq(Command)
  BY DEF HostType
<1>2. /\ cmd' \in Seq(Command) /\ DOMAIN cmd' = 1 .. Len(cmd) + 1 /\ DOMAIN cmd = 1 .. Len(cmd)
      /\ Len(cmd) \in Nat /\ cmd'[Len(cmd) + 1] = c /\ \A i \in 1 .. Len(cmd) : cmd'[i] = cmd[i]
  BY <1>1, Written
<1>3. \A i \in DOMAIN cmd' : cmd'[i].op = "cancel" \/ (i = Len(cmd) + 1 /\ cmd'[i] = c)
  BY <1>2
<1> QED BY <1>2, <1>3 DEF TokenInv

\* A frame is read: after the one that ends a turn the pipes are idle.
LEMMA FrameRead ==
    ASSUME HostType, TokenInv, frames # <<>>, frames' = Tail(frames)
    PROVE  /\ frames' \in Seq(Frame) /\ Head(frames) = frames[1] /\ 1 \in DOMAIN frames
           /\ \A i \in DOMAIN frames' : i + 1 \in DOMAIN frames /\ frames'[i] = frames[i + 1]
           /\ \A i \in DOMAIN cmd : cmd[i].op = "cancel"
           /\ (cmd' = cmd /\ running' = running) => TokenInv'
           /\ frames[1].op # "accept" => frames' = <<>> /\ running = Pool!NoTurn
<1>1. frames \in Seq(Frame)
  BY DEF HostType
<1>2. /\ frames' \in Seq(Frame) /\ Len(frames') = Len(frames) - 1 /\ Len(frames) \in Nat \ {0}
      /\ DOMAIN frames' = 1 .. Len(frames) - 1 /\ DOMAIN frames = 1 .. Len(frames)
      /\ \A i \in 1 .. Len(frames) - 1 : frames'[i] = frames[i + 1]
      /\ Head(frames) = frames[1]
  BY <1>1, Read
<1>3. \A i \in DOMAIN frames' : i + 1 \in DOMAIN frames /\ frames'[i] = frames[i + 1]
  BY <1>2
<1>4. \A i \in DOMAIN cmd : cmd[i].op = "cancel"
  BY DEF TokenInv
<1>5. ASSUME cmd' = cmd, running' = running PROVE TokenInv'
  BY <1>2, <1>3, <1>4, <1>5 DEF TokenInv
<1>6. ASSUME frames[1].op # "accept" PROVE frames' = <<>> /\ running = Pool!NoTurn
  <2>1. Len(frames) = 1 /\ running = Pool!NoTurn
    BY <1>2, <1>6 DEF TokenInv
  <2> QED BY <2>1, <1>2, EmptyQueue
<1> QED BY <1>2, <1>3, <1>4, <1>5, <1>6

\* There is a first of some slots.
LEMMA LeastSlot ==
    ASSUME HostConstants, NEW S \in SUBSET Pool!Slot, S # {}
    PROVE  (CHOOSE s \in S : \A t \in S : s <= t) \in S
<1> DEFINE R == {ss \in Nat \X Nat : ss[1] < ss[2]}
<1>1. IsWellFoundedOn(R, Nat)
  BY NatLessThanWellFounded DEF OpToRel
<1>2. S \in SUBSET Nat
  BY DEF Pool!Slot, HostConstants
<1>3. \E p \in S : \A q \in S : <<q, p>> \notin R
  <2> HIDE DEF R
  <2> QED BY <1>1, <1>2, WFMin
<1>4. PICK p \in S : \A q \in S : <<q, p>> \notin R
  BY <1>3
<1>5. ASSUME NEW q \in S PROVE p <= q
  <2>1. q \in Nat /\ p \in Nat /\ ~(q < p)
    BY <1>2, <1>4
  <2> QED BY <2>1
<1> QED BY <1>5

\* A host has finitely many slots.
LEMMA SlotsFinite == ASSUME HostConstants PROVE IsFiniteSet(Pool!Slot)
  BY FS_Interval DEF Pool!Slot, HostConstants

\* At the start nobody is connected and nothing is in the pipes.
LEMMA HostStart ==
    ASSUME HostConstants, Pool!Init PROVE HostInv
<1> USE DEF Pool!Init, Pool!Slot, HostConstants
<1>1. HostType
  <2>1. turns \in Seq(Pool!Slot) /\ cmd \in Seq(Command) /\ frames \in Seq(Frame)
    OBVIOUS
  <2>2. /\ at \in [Pool!Slot -> Place] /\ conn \in [Pool!Slot -> Nat] /\ kv \in [Pool!Slot -> SUBSET Nat]
        /\ reset_needed \in [Pool!Slot -> BOOLEAN] /\ admitted \in [Pool!Slot -> BOOLEAN]
        /\ stuck \in [Pool!Slot -> BOOLEAN]
    BY DEF Place
  <2>3. /\ mode = "open" /\ main = "accept" /\ next = 1 /\ cur = 0
        /\ stop = FALSE /\ sealed = FALSE /\ dead = FALSE /\ heard = TRUE
    BY ONLY Pool!Init DEF Pool!Init
  <2>4. running \in [slot : Pool!Slot, conn : Nat] \cup {Pool!NoTurn}
    BY ONLY Pool!Init DEF Pool!Init
  <2>5. next \in Nat \ {0} /\ cur \in Pool!Slot \cup {0}
    BY ONLY <2>3
  <2>6. mode \in {"open", "draining", "retired"} /\ main \in {"accept", "seal", "sealing", "join"}
    BY ONLY <2>3
  <2>7. stop \in BOOLEAN /\ sealed \in BOOLEAN /\ dead \in BOOLEAN /\ heard \in BOOLEAN
    BY ONLY <2>3
  <2> QED BY ONLY <2>1, <2>2, <2>4, <2>5, <2>6, <2>7 DEF HostType
<1>2. GateInv
  BY DEF GateInv, Gated
<1>3. ModeInv
  BY DEF ModeInv, Piping
<1>4. TokenInv /\ KvInv
  BY DEF TokenInv, KvInv
<1>5. PipeInv
  BY DEF PipeInv, Piping, Idle
<1>6. {s \in Pool!Slot : at[s] # "free"} = {} /\ {s \in Pool!Slot : admitted[s]} = {}
  OBVIOUS
<1>7. CountInv
  BY <1>6, FS_EmptySet DEF CountInv
<1> QED BY <1>1, <1>2, <1>3, <1>4, <1>5, <1>7 DEF HostInv, SealInv, AdmitInv, Gated

\* What the gate, the modes and the pipes say of a worker that moves.
LEMMA GateKept ==
    ASSUME HostType, GateInv, UNCHANGED turns, NEW s \in Pool!Slot, NEW p, at' = [at EXCEPT ![s] = p],
           p \in Gated \cup {"queued"} <=> at[s] \in Gated \cup {"queued"},
           p \in Gated => turns[1] = s
    PROVE  GateInv'
<1>1. \A t \in Pool!Slot : at'[t] = IF t = s THEN p ELSE at[t]
  BY DEF HostType
<1>2. \A i \in DOMAIN turns : turns[i] \in Pool!Slot
  BY DEF HostType
<1> QED BY <1>1, <1>2 DEF GateInv

\* A slot that stays in use changes no count.
LEMMA CountKept ==
    ASSUME HostType, CountInv, UNCHANGED <<workers, requests, admitted>>, NEW s \in Pool!Slot, NEW p,
           at' = [at EXCEPT ![s] = p], p # "free" /\ at[s] # "free"
    PROVE  CountInv'
<1>1. \A t \in Pool!Slot : at'[t] # "free" <=> at[t] # "free"
  BY DEF HostType
<1>2. {t \in Pool!Slot : at'[t] # "free"} = {t \in Pool!Slot : at[t] # "free"}
  BY <1>1
<1> QED BY <1>2 DEF CountInv

\* One more, and one less, of the slots that satisfy something.
LEMMA Counted ==
    ASSUME HostConstants, NEW f \in [Pool!Slot -> BOOLEAN], NEW s \in Pool!Slot, NEW b \in BOOLEAN
    PROVE  LET n == Cardinality({t \in Pool!Slot : f[t]})
               m == Cardinality({t \in Pool!Slot : [f EXCEPT ![s] = b][t]})
           IN  m = IF b /\ ~f[s] THEN n + 1 ELSE IF ~b /\ f[s] THEN n - 1 ELSE n
<1> DEFINE F == {t \in Pool!Slot : f[t]}
           G == {t \in Pool!Slot : [f EXCEPT ![s] = b][t]}
<1>1. IsFiniteSet(Pool!Slot)
  BY SlotsFinite
<1>2. F \in SUBSET Pool!Slot /\ G \in SUBSET Pool!Slot /\ IsFiniteSet(F) /\ IsFiniteSet(G)
  BY <1>1, FS_Subset
<1>3. CASE (b /\ f[s]) \/ (~b /\ ~f[s])
  BY <1>3, F = G
<1>4. CASE b /\ ~f[s]
  <2>1. G = F \cup {s} /\ s \notin F
    BY <1>4
  <2> QED BY <2>1, <1>2, <1>4, FS_AddElement
<1>5. CASE ~b /\ f[s]
  <2>1. G = F \ {s} /\ s \in F
    BY <1>5
  <2> QED BY <2>1, <1>2, <1>5, FS_RemoveElement
<1> QED BY <1>3, <1>4, <1>5

\* A slot that enters or leaves changes the count of the admitted by one.
LEMMA CountMoves ==
    ASSUME HostConstants, HostType, CountInv, NEW s \in Pool!Slot, NEW p,
           at' = [at EXCEPT ![s] = p],
           workers' = IF at[s] = "free" /\ p # "free" THEN workers + 1
                      ELSE IF at[s] # "free" /\ p = "free" THEN workers - 1 ELSE workers,
           NEW a \in BOOLEAN, admitted' = [admitted EXCEPT ![s] = a],
           requests' = IF a /\ ~admitted[s] THEN requests + 1
                       ELSE IF ~a /\ admitted[s] THEN requests - 1 ELSE requests
    PROVE  CountInv'
<1> DEFINE used == [t \in Pool!Slot |-> at[t] # "free"]
<1>1. used \in [Pool!Slot -> BOOLEAN] /\ {t \in Pool!Slot : used[t]} = {t \in Pool!Slot : at[t] # "free"}
  OBVIOUS
<1>2. {t \in Pool!Slot : [used EXCEPT ![s] = (p # "free")][t]} = {t \in Pool!Slot : at'[t] # "free"}
  BY DEF HostType
<1>3. workers' = Cardinality({t \in Pool!Slot : at'[t] # "free"})
  <2> HIDE DEF used
  <2>1. (p # "free") \in BOOLEAN
    OBVIOUS
  <2>2. LET n == Cardinality({t \in Pool!Slot : used[t]})
            m == Cardinality({t \in Pool!Slot : [used EXCEPT ![s] = (p # "free")][t]})
        IN  m = IF p # "free" /\ ~used[s] THEN n + 1
                ELSE IF ~(p # "free") /\ used[s] THEN n - 1 ELSE n
    BY <1>1, <2>1, Counted, ZenonT(30)
  <2>3. used[s] = (at[s] # "free")
    BY DEF used
  <2> QED BY <1>1, <1>2, <2>2, <2>3 DEF CountInv
<1>4. requests' = Cardinality({t \in Pool!Slot : admitted'[t]})
  <2>1. LET n == Cardinality({t \in Pool!Slot : admitted[t]})
            m == Cardinality({t \in Pool!Slot : [admitted EXCEPT ![s] = a][t]})
        IN  m = IF a /\ ~admitted[s] THEN n + 1 ELSE IF ~a /\ admitted[s] THEN n - 1 ELSE n
    BY Counted DEF HostType
  <2> QED BY <2>1 DEF CountInv
<1> QED BY <1>3, <1>4 DEF CountInv

\* A connection takes a free slot, while the host is open.
LEMMA AcceptStep ==
    ASSUME HostConstants, HostInv, Pool!Accept PROVE HostInv'
<1> USE DEF HostInv
<1> DEFINE free == {s \in Pool!Slot : at[s] = "free"}
<1>1. /\ UNCHANGED <<reset_needed, admitted, requests, Pool!control, main, cur, turns, cmd, frames, Pool!engine, gone, heard>>
      /\ next' = next + 1 /\ main = "accept" /\ ~stop
  BY DEF Pool!Accept
<1>2. next' \in Nat \ {0}
  BY <1>1 DEF HostType
<1>3. CASE UNCHANGED <<at, conn, workers>>
  <2>1. HostType' /\ GateInv' /\ ModeInv'
    BY <1>1, <1>2, <1>3 DEF HostType, GateInv, ModeInv, Pool!control, Pool!engine
  <2>2. TokenInv' /\ KvInv' /\ PipeInv' /\ CountInv' /\ SealInv' /\ AdmitInv'
    BY <1>1, <1>3 DEF AdmitInv, TokenInv, KvInv, PipeInv, OnlyResets, OnlyTurn, Idle, CountInv, SealInv, Pool!control, Pool!engine
  <2> QED BY <2>1, <2>2, <1>1
<1>4. CASE ~UNCHANGED <<at, conn, workers>>
  <2>1. PICK s \in Pool!Slot : /\ at[s] = "free" /\ at' = [at EXCEPT ![s] = "receive"]
                               /\ conn' = [conn EXCEPT ![s] = next] /\ workers' = workers + 1
                               /\ mode = "open"
    <3>1. ~(free = {} \/ mode # "open")
      BY <1>4 DEF Pool!Accept
    <3>2. (CHOOSE s \in free : \A t \in free : s <= t) \in free
      BY <3>1, LeastSlot
    <3> QED BY <3>1, <3>2 DEF Pool!Accept, Pool!Go
  <2>2. \A t \in Pool!Slot : at'[t] = (IF t = s THEN "receive" ELSE at[t]) /\ conn'[t] = (IF t = s THEN next ELSE conn[t])
    BY <2>1 DEF HostType
  <2>3. HostType'
    <3>1. at' \in [Pool!Slot -> Place] /\ conn' \in [Pool!Slot -> Nat]
      BY <2>1 DEF HostType, Place
    <3> QED BY <3>1, <1>1, <1>2 DEF HostType, Pool!control, Pool!engine
  <2>4. GateInv'
    BY <1>1, <2>1, GateKept DEF Gated
  <2>5. ModeInv'
    BY <1>1, <2>1, <2>2 DEF ModeInv, Piping, HostType, Pool!control
  <2>6. TokenInv' /\ SealInv'
    BY <1>1 DEF TokenInv, SealInv, Pool!control, Pool!engine
  <2>7. KvInv'
    <3>1. kv[s] = {} \/ reset_needed[s]
      BY <2>1 DEF KvInv, ModeInv
    <3>2. conn[s] = 0
      BY <2>1 DEF ModeInv
    <3>3. \A t \in Pool!Slot : ~reset_needed'[t] => kv'[t] \subseteq {conn'[t]} \ {0}
      BY <3>1, <2>2, <1>1 DEF KvInv, Pool!engine
    <3>4. running' # Pool!NoTurn => /\ kv'[running'.slot] \subseteq {running'.conn}
                                    /\ reset_needed'[running'.slot] \/ (running'.conn = conn'[running'.slot] /\ running'.conn # 0)
      BY <3>2, <2>2, <1>1 DEF KvInv, Pool!engine, HostType
    <3>5. \A i \in DOMAIN cmd' : cmd'[i].op = "submit" =>
          /\ kv'[cmd'[i].slot] \subseteq {cmd'[i].conn}
          /\ reset_needed'[cmd'[i].slot] \/ (cmd'[i].conn = conn'[cmd'[i].slot] /\ cmd'[i].conn # 0)
      <4>1. \A i \in DOMAIN cmd : cmd[i].slot \in Pool!Slot
        <5>1. \A i \in DOMAIN cmd : cmd[i] \in Command
          BY DEF HostType
        <5> QED BY <5>1 DEF Command
      <4> QED BY <4>1, <3>2, <2>2, <1>1 DEF KvInv, Pool!engine
    <3> QED BY <3>3, <3>4, <3>5, <1>1 DEF KvInv, Pool!engine
  <2>8. PipeInv'
    BY <1>1, <2>1, <2>2 DEF PipeInv, Piping, OnlyResets, OnlyTurn, Idle, Pool!engine, Pool!control
  <2>9. CountInv'
    <3>1. admitted' = [admitted EXCEPT ![s] = admitted[s]] /\ admitted[s] \in BOOLEAN
      BY <1>1 DEF HostType
    <3> QED BY <3>1, <2>1, <1>1, CountMoves
  <2>10. AdmitInv'
    BY <1>1, <2>1, <2>2 DEF AdmitInv, Gated
  <2> QED BY <1>1, <2>3, <2>4, <2>5, <2>6, <2>7, <2>8, <2>9, <2>10
<1> QED BY <1>3, <1>4

\* A request to drain, to resume or to retire changes the mode only; nobody is
\* connected when the host retires.
LEMMA ControlStep ==
    ASSUME HostConstants, HostInv, NEW a \in {"drain", "resume", "retire"}, NEW r, Pool!Control(a, r) PROVE HostInv'
<1> USE DEF HostInv
<1>1. /\ UNCHANGED <<Pool!pool, stop, sealed, cur, turns, cmd, frames, Pool!engine, Pool!clients>>
      /\ main = "accept" /\ ~stop /\ main' = IF mode' = "retired" THEN "seal" ELSE main
  BY DEF Pool!Control
<1> DEFINE to == CASE a = "drain" -> "draining" [] a = "resume" -> "open" [] OTHER -> "retired"
           again == revision > 1 /\ r = revision - 1 /\ mode = to
           ok == /\ ~again /\ mode # "retired" /\ r = revision
                 /\ a = "retire" => mode = "draining" /\ workers = 0 /\ requests = 0
<1>a. mode' = IF ok THEN to ELSE mode
  BY DEF Pool!Control
<1>b. to \in {"open", "draining", "retired"} /\ (to = "retired" => a \notin {"drain", "resume"})
  OBVIOUS
<1>c. /\ mode' \in {mode, "open", "draining", "retired"}
      /\ mode' = "retired" => mode = "retired" \/ workers = 0
      /\ mode = "retired" => mode' = "retired"
  BY <1>a, <1>b
<1>2. workers = 0 => \A s \in Pool!Slot : at[s] = "free"
  <2>1. IsFiniteSet({s \in Pool!Slot : at[s] # "free"})
    BY SlotsFinite, FS_Subset
  <2> QED BY <2>1, FS_EmptySet DEF CountInv
<1>3. HostType'
  BY <1>1, <1>c DEF HostType, Pool!pool, Pool!engine, Pool!clients
<1>4. GateInv' /\ TokenInv' /\ KvInv' /\ CountInv' /\ SealInv' /\ AdmitInv' /\ heard'
  BY <1>1 DEF AdmitInv, GateInv, TokenInv, KvInv, CountInv, SealInv, Pool!pool, Pool!engine, Pool!clients
<1>5. ModeInv'
  BY <1>1, <1>2, <1>c DEF ModeInv, HostType, Pool!pool
<1>6. PipeInv'
  BY <1>1 DEF PipeInv, OnlyResets, OnlyTurn, Idle, Pool!pool, Pool!engine
<1> QED BY <1>3, <1>4, <1>5, <1>6

\* The acceptor seals slot after slot: it is alone with the pipes.
LEMMA SealStep ==
    ASSUME HostConstants, HostInv, Pool!Seal PROVE HostInv'
<1> USE DEF HostInv
<1>1. /\ main = "seal" /\ mode = "retired" /\ ~stop
      /\ UNCHANGED <<Pool!pool, mode, revision, stop, turns, frames, Pool!engine, Pool!clients>>
      /\ \A s \in Pool!Slot : at[s] = "free"
  BY DEF Pool!Seal, ModeInv
<1>2. Idle
  BY <1>1 DEF PipeInv, Piping
<1>3. CASE Pool!Unsealed = {}
  <2>1. sealed' = TRUE /\ main' = "accept" /\ UNCHANGED <<cur, cmd>> /\ \A s \in Pool!Slot : ~reset_needed[s]
    BY <1>3 DEF Pool!Seal, Pool!Unsealed
  <2>2. HostType' /\ GateInv' /\ ModeInv' /\ TokenInv' /\ KvInv' /\ AdmitInv'
    BY <1>1, <2>1 DEF HostType, GateInv, ModeInv, TokenInv, KvInv, AdmitInv, Pool!pool, Pool!engine, Pool!clients, Piping
  <2>3. PipeInv' /\ CountInv' /\ SealInv' /\ heard'
    BY <1>1, <1>2, <2>1 DEF PipeInv, Idle, CountInv, SealInv, Pool!pool, Pool!engine, Pool!clients, Piping
  <2> QED BY <2>2, <2>3
<1>4. CASE Pool!Unsealed # {}
  <2> DEFINE c == [op |-> "reset", slot |-> cur', conn |-> conn[cur']]
  <2>1. cur' \in Pool!Slot /\ reset_needed[cur']
    <3>1. Pool!Unsealed \in SUBSET Pool!Slot
      BY DEF Pool!Unsealed
    <3>2. (CHOOSE s \in Pool!Unsealed : \A t \in Pool!Unsealed : s <= t) \in Pool!Unsealed
      BY <3>1, <1>4, LeastSlot
    <3> QED BY <3>2, <1>4 DEF Pool!Seal, Pool!Unsealed
  <2>2. /\ cmd' = Append(cmd, c) /\ main' = "sealing" /\ UNCHANGED sealed /\ c \in Command
    <3>1. cur' # 0 /\ conn[cur'] \in Nat
      BY <2>1 DEF Pool!Slot, HostType, HostConstants
    <3> QED BY <3>1, <2>1, <1>4 DEF Pool!Seal, Pool!Write, Command
  <2>3. /\ cmd' \in Seq(Command) /\ TokenInv'
        /\ \A i \in DOMAIN cmd' : cmd'[i].op = "cancel" \/ cmd'[i] = c
    BY <1>1, <1>2, <2>2, OpWritten DEF Idle, Pool!engine
  <2>4. c.op = "reset" /\ c.slot = cur' /\ c.conn = conn[cur'] /\ conn' = conn
    BY <1>1 DEF Pool!pool
  <2> HIDE DEF c
  <2>5. HostType' /\ GateInv' /\ ModeInv' /\ AdmitInv'
    BY <1>1, <2>1, <2>2, <2>3 DEF HostType, GateInv, ModeInv, AdmitInv, Pool!pool, Pool!engine, Pool!clients, Piping
  <2>6. KvInv' /\ CountInv' /\ SealInv' /\ heard'
    BY <1>1, <1>2, <2>2, <2>3, <2>4 DEF KvInv, CountInv, SealInv, Idle, Pool!pool, Pool!engine, Pool!clients
  <2>7. PipeInv'
    BY <1>1, <1>2, <2>2, <2>3, <2>4 DEF PipeInv, OnlyResets, Idle, Pool!pool, Pool!engine, Piping
  <2> QED BY <2>3, <2>5, <2>6, <2>7
<1> QED BY <1>3, <1>4

\* A conversation that was sealed is gone from the engine.
LEMMA SealingStep ==
    ASSUME HostConstants, HostInv, Pool!Sealing PROVE HostInv'
<1> USE DEF HostInv
<1>1. /\ main = "sealing" /\ mode = "retired" /\ ~stop /\ cur \in Pool!Slot
      /\ UNCHANGED <<at, conn, admitted, requests, workers, mode, revision, sealed, cur, turns, cmd, Pool!engine, Pool!clients>>
      /\ \A s \in Pool!Slot : at[s] = "free" /\ conn[s] = 0
      /\ main' = "seal" \/ main' = "accept"
  BY DEF Pool!Sealing, ModeInv
<1>2. OnlyResets(cur)
  BY <1>1 DEF PipeInv
<1>3. CASE Pool!Broken /\ main' = "accept" /\ stop' = TRUE /\ UNCHANGED reset_needed
  <2>1. UNCHANGED frames
    BY <1>3 DEF Pool!Broken
  <2>2. HostType'
    BY <1>1, <1>3, <2>1 DEF HostType, Pool!engine, Pool!clients
  <2>3. GateInv' /\ ModeInv' /\ TokenInv' /\ KvInv' /\ AdmitInv'
    BY <1>1, <1>3, <2>1 DEF GateInv, ModeInv, TokenInv, KvInv, AdmitInv, Pool!engine, Piping
  <2>4. PipeInv' /\ CountInv' /\ SealInv' /\ heard'
    BY <1>1, <1>3, <2>1 DEF PipeInv, CountInv, SealInv, Pool!engine, Pool!clients
  <2> QED BY <2>2, <2>3, <2>4
<1>4. CASE /\ frames # <<>> /\ frames' = Tail(frames) /\ UNCHANGED stop
           /\ \/ Head(frames).op = "done_reset" /\ reset_needed' = [reset_needed EXCEPT ![cur] = FALSE]
              \/ UNCHANGED reset_needed
  <2>1. /\ frames' \in Seq(Frame) /\ Head(frames) = frames[1] /\ 1 \in DOMAIN frames
        /\ \A i \in DOMAIN cmd : cmd[i].op = "cancel"
        /\ TokenInv'
        /\ frames[1].op # "accept" => frames' = <<>> /\ running = Pool!NoTurn
    BY <1>1, <1>4, FrameRead DEF Pool!engine
  <2>2. frames' = <<>> /\ frames[1].slot = cur
    BY <2>1, <1>2 DEF OnlyResets
  <2>3. HostType'
    BY <1>1, <1>4, <2>1 DEF HostType, Pool!engine, Pool!clients
  <2>4. GateInv' /\ ModeInv' /\ CountInv' /\ AdmitInv' /\ heard'
    BY <1>1, <1>4 DEF GateInv, ModeInv, CountInv, AdmitInv, Pool!clients
  <2>5. PipeInv'
    BY <1>1, <1>2, <2>1, <2>2 DEF PipeInv, Idle, OnlyResets, Pool!engine
  <2>6. KvInv'
    <3>1. frames[1].op = "done_reset" => kv[cur] = {}
      BY <2>1, <2>2 DEF KvInv
    <3>2. \A t \in Pool!Slot : ~reset_needed'[t] => ~reset_needed[t] \/ kv[t] = {}
      BY <3>1, <1>4, <2>1 DEF HostType
    <3>3. kv' = kv /\ conn' = conn /\ running' = Pool!NoTurn /\ cmd' = cmd
      BY <1>1, <1>2 DEF OnlyResets, Pool!engine
    <3> QED BY <3>2, <3>3, <2>1, <2>2 DEF KvInv
  <2>7. SealInv'
    BY <1>1, <1>4 DEF SealInv, HostType
  <2> QED BY <2>1, <2>3, <2>4, <2>5, <2>6, <2>7
<1> QED BY <1>3, <1>4 DEF Pool!Sealing, Pool!Acked

\* The acceptor waits for the workers.
LEMMA JoinStep ==
    ASSUME HostConstants, HostInv, Pool!Join PROVE HostInv'
<1> USE DEF HostInv
<1>1. /\ stop /\ main = "accept" /\ main' = "join"
      /\ UNCHANGED <<Pool!pool, Pool!control, cur, turns, cmd, frames, Pool!engine, next, heard>>
  BY DEF Pool!Join
<1>2. HostType' /\ GateInv' /\ ModeInv' /\ AdmitInv'
  BY <1>1 DEF HostType, GateInv, ModeInv, AdmitInv, Pool!pool, Pool!control, Pool!engine
<1>3. TokenInv' /\ KvInv' /\ PipeInv' /\ CountInv' /\ SealInv'
  BY <1>1 DEF TokenInv, KvInv, PipeInv, OnlyResets, OnlyTurn, CountInv, SealInv, ModeInv, Pool!pool, Pool!control, Pool!engine
<1> QED BY <1>1, <1>2, <1>3

\* A client that leaves changes nothing but that.
LEMMA LeaveStep ==
    ASSUME HostConstants, HostInv, NEW s \in Pool!Slot, Pool!Leave(s) PROVE HostInv'
<1> USE DEF HostInv
<1>1. UNCHANGED <<Pool!pool, Pool!control, main, cur, turns, cmd, frames, Pool!engine, next, heard>>
  BY DEF Pool!Leave
<1>2. HostType' /\ GateInv' /\ ModeInv' /\ AdmitInv'
  BY <1>1 DEF HostType, GateInv, ModeInv, AdmitInv, Pool!pool, Pool!control, Pool!engine
<1>3. TokenInv' /\ KvInv' /\ CountInv' /\ SealInv'
  BY <1>1 DEF TokenInv, KvInv, CountInv, SealInv, Pool!pool, Pool!control, Pool!engine
<1>4. PipeInv'
  BY <1>1 DEF PipeInv, OnlyResets, OnlyTurn, Idle, Pool!pool, Pool!control, Pool!engine
<1> QED BY <1>1, <1>2, <1>3, <1>4

\* A worker that does not use the pipes moves on.
LEMMA Moved ==
    ASSUME HostConstants, HostInv, NEW s \in Pool!Slot, NEW p \in Place, at' = [at EXCEPT ![s] = p],
           at[s] \notin Piping \cup {"free"}, p \notin Piping \cup {"free"},
           UNCHANGED <<conn, reset_needed, Pool!control, main, cur, cmd, frames, Pool!engine, next, heard>>
    PROVE  /\ at' \in [Pool!Slot -> Place] /\ ModeInv' /\ TokenInv' /\ KvInv' /\ PipeInv' /\ SealInv' /\ heard'
           /\ (turns' \in Seq(Pool!Slot) /\ admitted' \in [Pool!Slot -> BOOLEAN]) => HostType'
<1> USE DEF HostInv
<1>1. \A t \in Pool!Slot : at'[t] = IF t = s THEN p ELSE at[t]
  BY DEF HostType
<1>2. at' \in [Pool!Slot -> Place]
  BY DEF HostType
<1>3. ModeInv'
  BY <1>1 DEF ModeInv, Piping, Pool!control
<1>4. TokenInv' /\ KvInv' /\ SealInv'
  BY DEF TokenInv, KvInv, SealInv, Pool!control, Pool!engine
<1>5. PipeInv'
  BY <1>1 DEF PipeInv, OnlyResets, OnlyTurn, Idle, Piping, Pool!control, Pool!engine
<1>6. ASSUME turns' \in Seq(Pool!Slot), admitted' \in [Pool!Slot -> BOOLEAN] PROVE HostType'
  BY <1>2, <1>6 DEF HostType, Pool!control, Pool!engine
<1> QED BY <1>2, <1>3, <1>4, <1>5, <1>6

\* A whole request is received, or the connection is to be closed.
LEMMA ReceiveStep ==
    ASSUME HostConstants, HostInv, NEW s \in Pool!Slot, Pool!Receive(s) PROVE HostInv'
<1> USE DEF HostInv
<1>1. /\ at[s] = "receive"
      /\ UNCHANGED <<conn, reset_needed, admitted, requests, workers, Pool!control, main, cur, turns, cmd, frames,
                     Pool!engine, next, heard>>
  BY DEF Pool!Receive
<1>2. PICK p \in {"admit", "close"} : at' = [at EXCEPT ![s] = p]
  BY DEF Pool!Receive, Pool!Go
<1>3. p \in Place /\ p \notin Piping \cup {"free"} /\ at[s] \notin Piping \cup {"free"}
  BY <1>1 DEF Place, Piping
<1>4. HostType' /\ ModeInv' /\ TokenInv' /\ KvInv' /\ PipeInv' /\ SealInv' /\ heard'
  BY <1>1, <1>2, <1>3, Moved DEF HostType
<1>5. GateInv'
  BY <1>1, <1>2, GateKept DEF Gated
<1>6. CountInv'
  BY <1>1, <1>2, CountKept
<1>7. AdmitInv'
  BY <1>1, <1>2 DEF AdmitInv, HostType, Gated
<1> QED BY <1>4, <1>5, <1>6, <1>7

\* Admission counts the request and queues it.
LEMMA AdmitStep ==
    ASSUME HostConstants, HostInv, NEW s \in Pool!Slot, Pool!Admit(s) PROVE HostInv'
<1> USE DEF HostInv
<1>1. /\ at[s] = "admit" /\ ~admitted[s]
      /\ UNCHANGED <<conn, reset_needed, workers, Pool!control, main, cur, cmd, frames, Pool!engine, Pool!clients>>
  BY DEF Pool!Admit, AdmitInv
<1>2. CASE at' = [at EXCEPT ![s] = "close"]
  <2>1. PICK a \in BOOLEAN : /\ UNCHANGED turns /\ admitted' = [admitted EXCEPT ![s] = a]
                             /\ requests' = IF a THEN requests + 1 ELSE requests
    <3>1. CASE UNCHANGED <<admitted, requests, turns>>
      BY <3>1, <1>1, admitted' = [admitted EXCEPT ![s] = FALSE] DEF HostType
    <3>2. CASE admitted' = [admitted EXCEPT ![s] = TRUE] /\ requests' = requests + 1 /\ UNCHANGED turns
      BY <3>2
    <3>3. at' # [at EXCEPT ![s] = "queued"]
      BY <1>2 DEF HostType
    <3> QED BY <3>1, <3>2, <3>3 DEF Pool!Admit, Pool!Go
  <2>2. HostType' /\ ModeInv' /\ TokenInv' /\ KvInv' /\ PipeInv' /\ SealInv' /\ heard'
    BY <1>1, <1>2, <2>1, Moved DEF HostType, Place, Piping, Pool!clients
  <2>3. GateInv'
    BY <1>1, <1>2, <2>1, GateKept DEF Gated
  <2>4. CountInv'
    <3>1. workers' = workers /\ at[s] # "free"
      BY <1>1
    <3>2. requests' = IF a /\ ~admitted[s] THEN requests + 1
                      ELSE IF ~a /\ admitted[s] THEN requests - 1 ELSE requests
      BY <1>1, <2>1
    <3>3. workers' = IF at[s] = "free" /\ "close" # "free" THEN workers + 1
                     ELSE IF at[s] # "free" /\ "close" = "free" THEN workers - 1 ELSE workers
      BY <3>1
    <3> QED BY <1>2, <2>1, <3>2, <3>3, CountMoves
  <2>5. AdmitInv'
    BY <1>1, <1>2, <2>1 DEF AdmitInv, HostType, Gated
  <2> QED BY <2>2, <2>3, <2>4, <2>5
<1>3. CASE /\ at' = [at EXCEPT ![s] = "queued"] /\ turns' = Append(turns, s)
           /\ admitted' = [admitted EXCEPT ![s] = TRUE] /\ requests' = requests + 1
  <2>1. turns \in Seq(Pool!Slot)
    BY DEF HostType
  <2>2. /\ turns' \in Seq(Pool!Slot) /\ DOMAIN turns' = 1 .. Len(turns) + 1 /\ DOMAIN turns = 1 .. Len(turns)
        /\ Len(turns) \in Nat /\ \A i \in 1 .. Len(turns) : turns'[i] = turns[i] /\ turns'[Len(turns) + 1] = s
    BY <1>3, <2>1, Written
  <2>3. HostType' /\ ModeInv' /\ TokenInv' /\ KvInv' /\ PipeInv' /\ SealInv' /\ heard'
    BY <1>1, <1>3, <2>2, Moved DEF HostType, Place, Piping, Pool!clients
  <2>4. GateInv'
    <3>1. \A t \in Pool!Slot : at'[t] = IF t = s THEN "queued" ELSE at[t]
      BY <1>3 DEF HostType
    <3>2. \A i \in DOMAIN turns : turns[i] # s /\ turns[i] \in Pool!Slot
      BY <1>1, <2>1 DEF GateInv, Gated
    <3>3. turns'[Len(turns) + 1] = s
      BY <1>3, <2>1, Written
    <3>4. ASSUME NEW t \in Pool!Slot, at'[t] \in Gated PROVE turns'[1] = t
      <4>1. at[t] \in Gated /\ turns[1] = t
        BY <3>1, <3>4 DEF GateInv, Gated
      <4>2. 1 \in DOMAIN turns
        BY <4>1, <2>2 DEF GateInv
      <4> QED BY <4>1, <4>2, <2>2
    <3>5. \A t \in Pool!Slot : at'[t] \in Gated \cup {"queued"} => \E i \in DOMAIN turns' : turns'[i] = t
      BY <2>2, <3>1, <3>3 DEF GateInv
    <3>6. \A i \in DOMAIN turns' : at'[turns'[i]] \in Gated \cup {"queued"}
      BY <2>2, <3>1, <3>2, <3>3 DEF GateInv
    <3>7. \A i, j \in DOMAIN turns' : turns'[i] = turns'[j] => i = j
      BY <2>2, <3>2, <3>3 DEF GateInv
    <3> QED BY <3>4, <3>5, <3>6, <3>7 DEF GateInv
  <2>5. CountInv'
    BY <1>1, <1>3, CountMoves
  <2>6. AdmitInv'
    BY <1>1, <1>3 DEF AdmitInv, HostType, Gated
  <2> QED BY <2>3, <2>4, <2>5, <2>6
<1> QED BY <1>2, <1>3 DEF Pool!Admit, Pool!Go

\* The head of the queue owns the pipes; whoever leaves it closes.
LEMMA QueuedStep ==
    ASSUME HostConstants, HostInv, NEW s \in Pool!Slot, Pool!Queued(s) PROVE HostInv'
<1> USE DEF HostInv
<1>1. /\ at[s] = "queued" /\ turns \in Seq(Pool!Slot)
      /\ UNCHANGED <<conn, reset_needed, admitted, requests, workers, Pool!control, main, cur, cmd, frames, Pool!engine, Pool!clients>>
  BY DEF Pool!Queued, HostType
<1>2. CASE Head(turns) = s /\ at' = [at EXCEPT ![s] = "own"] /\ UNCHANGED turns
  <2>1. HostType' /\ ModeInv' /\ TokenInv' /\ KvInv' /\ PipeInv' /\ SealInv' /\ heard'
    BY <1>1, <1>2, Moved DEF HostType, Place, Piping, Pool!clients
  <2>2. turns[1] = s
    <3>1. turns # <<>>
      BY <1>1 DEF GateInv
    <3> QED BY <3>1, <1>1, <1>2, Read
  <2>3. GateInv'
    BY <1>1, <1>2, <2>2, GateKept DEF Gated
  <2>4. CountInv'
    BY <1>1, <1>2, CountKept
  <2>5. AdmitInv'
    BY <1>1, <1>2 DEF AdmitInv, HostType, Gated
  <2> QED BY <2>1, <2>3, <2>4, <2>5
<1>3. CASE Pool!Leaves(s) /\ at' = [at EXCEPT ![s] = "close"]
  <2>1. turns' \in Seq(Pool!Slot) /\ GateInv'
    BY <1>3, LeftGate DEF Gated
  <2>2. HostType' /\ ModeInv' /\ TokenInv' /\ KvInv' /\ PipeInv' /\ SealInv' /\ heard'
    BY <1>1, <1>3, <2>1, Moved DEF HostType, Place, Piping, Pool!clients
  <2>3. CountInv'
    BY <1>1, <1>3, CountKept
  <2>4. AdmitInv'
    BY <1>1, <1>3 DEF AdmitInv, HostType, Gated
  <2> QED BY <2>1, <2>2, <2>3, <2>4
<1> QED BY <1>2, <1>3 DEF Pool!Queued, Pool!Go

\* The owner of the turn sends its request, after a reset when the slot needs one.
LEMMA OwnStep ==
    ASSUME HostConstants, HostInv, NEW s \in Pool!Slot, Pool!Own(s) PROVE HostInv'
<1> USE DEF HostInv
<1>1. /\ at[s] = "own"
      /\ UNCHANGED <<conn, reset_needed, admitted, requests, workers, Pool!control, main, cur, frames, Pool!engine, Pool!clients>>
  BY DEF Pool!Own
<1>2. CASE stop
  <2>1. Pool!Leaves(s) /\ at' = [at EXCEPT ![s] = "close"] /\ UNCHANGED cmd
    BY <1>2 DEF Pool!Own, Pool!Go
  <2>2. turns' \in Seq(Pool!Slot) /\ GateInv'
    BY <2>1, LeftGate DEF Gated
  <2>3. HostType' /\ ModeInv' /\ TokenInv' /\ KvInv' /\ PipeInv' /\ SealInv' /\ heard'
    BY <1>1, <2>1, <2>2, Moved DEF HostType, Place, Piping, Pool!clients
  <2>4. CountInv'
    BY <1>1, <2>1, CountKept
  <2>5. AdmitInv'
    BY <1>1, <2>1 DEF AdmitInv, HostType, Gated
  <2> QED BY <2>2, <2>3, <2>4, <2>5
<1>3. CASE ~stop
  <2>1. PICK c \in Command, p \in {"resetting", "bridge"} :
           /\ cmd' = Append(cmd, c) /\ at' = [at EXCEPT ![s] = p] /\ UNCHANGED turns
           /\ c.slot = s /\ c.conn = conn[s]
           /\ \/ p = "resetting" /\ c.op = "reset"
              \/ p = "bridge" /\ c.op = "submit" /\ ~reset_needed[s]
    <3>1. s # 0 /\ conn[s] \in Nat
      BY DEF Pool!Slot, HostConstants, HostType
    <3>2. CASE reset_needed[s]
      <4> DEFINE c == [op |-> "reset", slot |-> s, conn |-> conn[s]]
      <4>1. cmd' = Append(cmd, c) /\ at' = [at EXCEPT ![s] = "resetting"] /\ UNCHANGED turns
        BY <1>3, <3>1, <3>2 DEF Pool!Own, Pool!Write, Pool!Go
      <4>2. c \in Command
        BY <3>1 DEF Command
      <4> QED BY <4>1, <4>2
    <3>3. CASE ~reset_needed[s]
      <4> DEFINE c == [op |-> "submit", slot |-> s, conn |-> conn[s]]
      <4>1. cmd' = Append(cmd, c) /\ at' = [at EXCEPT ![s] = "bridge"] /\ UNCHANGED turns
        BY <1>3, <3>1, <3>3 DEF Pool!Own, Pool!Write, Pool!Go
      <4>2. c \in Command
        BY <3>1 DEF Command
      <4> QED BY <3>3, <4>1, <4>2
    <3> QED BY <3>2, <3>3
  <2>2. /\ \A t \in Pool!Slot : at[t] \in Gated \cup {"last"} => t = s
        /\ main \notin {"seal", "sealing"} /\ mode # "retired" /\ ~sealed
    BY <1>1, OneUser DEF Gated
  <2>3. Idle
    BY <1>1, <1>3, <2>2 DEF PipeInv, Piping, Gated
  <2>4. /\ cmd' \in Seq(Command) /\ TokenInv'
        /\ \A i \in DOMAIN cmd' : cmd'[i].op = "cancel" \/ cmd'[i] = c
    BY <1>1, <2>1, <2>3, OpWritten DEF Idle, Pool!engine
  <2>5. \A t \in Pool!Slot : at'[t] = IF t = s THEN p ELSE at[t]
    BY <2>1 DEF HostType
  <2>6. HostType'
    <3>1. at' \in [Pool!Slot -> Place]
      BY <2>1 DEF HostType, Place
    <3> QED BY <1>1, <2>1, <2>4, <3>1 DEF HostType, Pool!control, Pool!engine, Pool!clients
  <2>7. GateInv'
    <3>1. turns[1] = s
      BY <1>1 DEF GateInv, Gated
    <3> QED BY <1>1, <2>1, <3>1, GateKept DEF Gated
  <2>8. ModeInv'
    <3>1. main \in {"accept", "join"} /\ main # "join"
      BY <1>3, <2>2 DEF ModeInv, HostType
    <3> QED BY <1>1, <1>3, <2>2, <2>1, <2>5, <3>1 DEF ModeInv, Pool!control
  <2>9. KvInv'
    <3>1. c.op = "submit" => kv[s] \subseteq {conn[s]} /\ conn[s] # 0
      BY <1>1, <2>1 DEF KvInv, ModeInv
    <3> QED BY <1>1, <2>1, <2>3, <2>4, <3>1 DEF KvInv, Idle, Pool!engine
  <2>10. PipeInv'
    <3>1. p = "resetting" => OnlyResets(s)'
      BY <1>1, <2>1, <2>3, <2>4 DEF OnlyResets, Idle, Pool!engine
    <3>2. p = "bridge" => OnlyTurn(s)'
      BY <1>1, <2>1, <2>3, <2>4 DEF OnlyTurn, Idle, Pool!engine
    <3> QED BY <1>1, <2>1, <2>2, <2>5, <3>1, <3>2 DEF PipeInv, Piping, Gated
  <2>11. CountInv'
    BY <1>1, <2>1, CountKept
  <2>12. AdmitInv'
    BY <1>1, <2>1, <2>5 DEF AdmitInv, Gated
  <2> QED BY <1>1, <2>2, <2>4, <2>6, <2>7, <2>8, <2>9, <2>10, <2>11, <2>12 DEF SealInv, Pool!control, Pool!clients
<1> QED BY <1>2, <1>3

\* A worker gives the turn up: it leaves idle pipes, or a host that stops.
LEMMA GivenUp ==
    ASSUME HostConstants, HostInv, NEW s \in Pool!Slot, at[s] \in {"resetting", "bridge", "drain", "clear"},
           NEW p \in {"receive", "close"}, Pool!Leaves(s), at' = [at EXCEPT ![s] = p],
           UNCHANGED <<conn, reset_needed, mode, sealed, main, cur, cmd, Pool!engine, next>>,
           frames' \in Seq(Frame), TokenInv', heard',
           UNCHANGED frames \/ \A i \in DOMAIN frames' : frames'[i].op # "done_reset",
           \/ stop' /\ stop' \in BOOLEAN
           \/ stop' = stop /\ Idle'
    PROVE  /\ GateInv' /\ ModeInv' /\ KvInv' /\ PipeInv' /\ SealInv'
           /\ (admitted' \in [Pool!Slot -> BOOLEAN]) => HostType'
<1> USE DEF HostInv
<1>1. turns' \in Seq(Pool!Slot) /\ GateInv'
  BY LeftGate DEF Gated
<1>2. \A t \in Pool!Slot : at'[t] = IF t = s THEN p ELSE at[t]
  BY DEF HostType
<1>3. /\ \A t \in Pool!Slot : at[t] \in Gated \cup {"last"} => t = s
      /\ main = "accept" /\ mode # "retired" /\ ~sealed /\ ~stop
  BY OneUser DEF Gated
<1>4. \A t \in Pool!Slot : at'[t] \notin Piping
  BY <1>2, <1>3 DEF Piping, Gated
<1>5. ModeInv'
  BY <1>2, <1>3, <1>4 DEF ModeInv
<1>6. KvInv'
  BY DEF KvInv, Pool!engine
<1>7. PipeInv'
  BY <1>3, <1>4 DEF PipeInv, Piping
<1>8. SealInv'
  BY <1>3 DEF SealInv
<1>9. ASSUME admitted' \in [Pool!Slot -> BOOLEAN] PROVE HostType'
  <2>1. at' \in [Pool!Slot -> Place] /\ stop' \in BOOLEAN
    BY DEF HostType, Place
  <2> QED BY <1>1, <1>3, <1>9, <2>1 DEF HostType, Pool!engine
<1> QED BY <1>1, <1>5, <1>6, <1>7, <1>8, <1>9

\* The reset that an earlier connection made necessary is acknowledged.
LEMMA ResettingStep ==
    ASSUME HostConstants, HostInv, NEW s \in Pool!Slot, Pool!Resetting(s) PROVE HostInv'
<1> USE DEF HostInv
<1>1. /\ at[s] = "resetting"
      /\ UNCHANGED <<conn, admitted, requests, workers, mode, revision, sealed, main, cur, Pool!engine, Pool!clients>>
  BY DEF Pool!Resetting
<1>2. /\ \A t \in Pool!Slot : at[t] \in Gated \cup {"last"} => t = s
      /\ main = "accept" /\ mode # "retired" /\ ~sealed /\ ~stop
  BY <1>1, OneUser DEF Gated
<1>3. OnlyResets(s)
  BY <1>1 DEF PipeInv
<1>4. CASE Pool!Broken /\ stop' = TRUE /\ Pool!Leaves(s) /\ Pool!Go(s, "close") /\ UNCHANGED <<reset_needed, cmd>>
  <2>1. UNCHANGED frames /\ at' = [at EXCEPT ![s] = "close"]
    BY <1>4 DEF Pool!Broken, Pool!Go
  <2>2. TokenInv' /\ frames' \in Seq(Frame) /\ stop' \in BOOLEAN /\ heard'
    BY <1>1, <1>4, <2>1 DEF TokenInv, HostType, Pool!engine, Pool!clients
  <2>3. GateInv' /\ ModeInv' /\ KvInv' /\ PipeInv' /\ SealInv' /\ HostType'
    BY <1>1, <1>4, <2>1, <2>2, GivenUp DEF HostType, Pool!clients
  <2>4. CountInv' /\ AdmitInv'
    BY <1>1, <2>1, CountKept DEF AdmitInv, HostType, Gated
  <2> QED BY <2>2, <2>3, <2>4
<1>5. ASSUME frames # <<>>, frames' = Tail(frames)
      PROVE  /\ frames' \in Seq(Frame) /\ frames' = <<>> /\ running = Pool!NoTurn
             /\ \A i \in DOMAIN cmd : cmd[i].op = "cancel"
             /\ Head(frames) = frames[1] /\ frames[1].slot = s
             /\ frames[1].op = "done_reset" => kv[s] = {}
             /\ cmd' = cmd => TokenInv'
  <2>1. /\ frames' \in Seq(Frame) /\ Head(frames) = frames[1] /\ 1 \in DOMAIN frames
        /\ \A i \in DOMAIN cmd : cmd[i].op = "cancel"
        /\ (cmd' = cmd /\ running' = running) => TokenInv'
        /\ frames[1].op # "accept" => frames' = <<>> /\ running = Pool!NoTurn
    BY <1>5, FrameRead
  <2>2. frames[1].op # "accept" /\ frames[1].slot = s
    BY <2>1, <1>3 DEF OnlyResets
  <2>3. frames[1].op = "done_reset" => kv[s] = {}
    BY <2>1, <2>2 DEF KvInv
  <2> QED BY <1>1, <2>1, <2>2, <2>3 DEF Pool!engine
<1>6. CASE Pool!Acked("pending") /\ Pool!Leaves(s) /\ Pool!Go(s, "close") /\ UNCHANGED <<reset_needed, cmd, stop>>
  <2>1. frames # <<>> /\ frames' = Tail(frames) /\ at' = [at EXCEPT ![s] = "close"]
    BY <1>6 DEF Pool!Acked, Pool!Go
  <2>2. TokenInv' /\ frames' \in Seq(Frame) /\ Idle' /\ heard' /\ frames' = <<>>
    BY <1>1, <1>5, <1>6, <2>1 DEF Idle, Pool!engine, Pool!clients
  <2>3. GateInv' /\ ModeInv' /\ KvInv' /\ PipeInv' /\ SealInv' /\ HostType'
    <3>1. \A i \in DOMAIN frames' : frames'[i].op # "done_reset"
      BY <2>2
    <3>2. next' = next /\ admitted' \in [Pool!Slot -> BOOLEAN] /\ stop' = stop
      BY <1>1, <1>6 DEF HostType, Pool!clients
    <3> QED BY <1>1, <1>6, <2>1, <2>2, <3>1, <3>2, GivenUp
  <2>4. CountInv' /\ AdmitInv'
    BY <1>1, <2>1, CountKept DEF AdmitInv, HostType, Gated
  <2> QED BY <2>2, <2>3, <2>4
<1>7. CASE /\ Pool!Acked("done_reset") /\ reset_needed' = [reset_needed EXCEPT ![s] = FALSE]
           /\ Pool!Write("submit", s) /\ Pool!Go(s, "bridge") /\ UNCHANGED <<turns, stop>>
  <2> DEFINE c == [op |-> "submit", slot |-> s, conn |-> conn[s]]
  <2>1. /\ frames # <<>> /\ frames' = Tail(frames) /\ Head(frames).op = "done_reset"
        /\ at' = [at EXCEPT ![s] = "bridge"]
    BY <1>7 DEF Pool!Acked, Pool!Go
  <2>2. /\ frames' = <<>> /\ running = Pool!NoTurn /\ kv[s] = {} /\ frames' \in Seq(Frame)
        /\ \A i \in DOMAIN cmd : cmd[i].op = "cancel"
    BY <1>5, <2>1
  <2>3. c \in Command /\ cmd' = Append(cmd, c)
    <3>1. s # 0 /\ conn[s] \in Nat
      BY DEF Pool!Slot, HostConstants, HostType
    <3> QED BY <1>7, <3>1 DEF Pool!Write, Command
  <2>4. /\ cmd' \in Seq(Command) /\ TokenInv'
        /\ \A i \in DOMAIN cmd' : cmd'[i].op = "cancel" \/ cmd'[i] = c
    BY <1>1, <2>2, <2>3, OpWritten DEF Pool!engine
  <2>5. c.op = "submit" /\ c.slot = s /\ c.conn = conn[s]
    OBVIOUS
  <2> HIDE DEF c
  <2>6. \A t \in Pool!Slot : /\ at'[t] = IF t = s THEN "bridge" ELSE at[t]
                             /\ reset_needed'[t] = IF t = s THEN FALSE ELSE reset_needed[t]
    BY <1>7, <2>1 DEF HostType
  <2>7. HostType'
    <3>1. at' \in [Pool!Slot -> Place] /\ reset_needed' \in [Pool!Slot -> BOOLEAN]
      BY <1>7, <2>1 DEF HostType, Place
    <3> QED BY <1>1, <1>7, <2>2, <2>4, <3>1 DEF HostType, Pool!engine, Pool!clients
  <2>8. GateInv'
    <3>1. turns[1] = s
      BY <1>1 DEF GateInv, Gated
    <3> QED BY <1>1, <1>7, <2>1, <3>1, GateKept DEF Gated
  <2>9. ModeInv'
    BY <1>1, <1>2, <1>7, <2>6 DEF ModeInv
  <2>10. KvInv'
    <3>1. conn[s] # 0
      BY <1>1 DEF ModeInv
    <3>2. \A t \in Pool!Slot : ~reset_needed'[t] => kv[t] \subseteq {conn[t]} \ {0}
      BY <2>2, <2>6 DEF KvInv
    <3> QED BY <1>1, <2>2, <2>4, <2>5, <3>1, <3>2 DEF KvInv, Pool!engine
  <2>11. PipeInv'
    <3>1. OnlyTurn(s)'
      BY <1>1, <2>2, <2>4, <2>5 DEF OnlyTurn, Pool!engine
    <3> QED BY <1>1, <1>2, <2>6, <3>1 DEF PipeInv, Piping, Gated
  <2>12. CountInv' /\ AdmitInv'
    BY <1>1, <2>1, CountKept DEF AdmitInv, HostType, Gated
  <2> QED BY <1>1, <1>2, <2>4, <2>7, <2>8, <2>9, <2>10, <2>11, <2>12 DEF SealInv, Pool!clients
<1> QED BY <1>4, <1>6, <1>7 DEF Pool!Resetting

\* What a conversation says goes to the connection that owns the turn, and to
\* no other; its last frame ends the turn.
LEMMA BridgeStep ==
    ASSUME HostConstants, HostInv, NEW s \in Pool!Slot, Pool!Bridge(s) PROVE HostInv'
<1> USE DEF HostInv
<1>1. /\ at[s] = "bridge" /\ frames # <<>> /\ frames' = Tail(frames)
      /\ heard' = (heard /\ Head(frames).conn = conn[s])
      /\ UNCHANGED <<conn, reset_needed, workers, Pool!control, main, cur, cmd, Pool!engine, next>>
  BY DEF Pool!Bridge
<1>2. /\ \A t \in Pool!Slot : at[t] \in Gated \cup {"last"} => t = s
      /\ main = "accept" /\ mode # "retired" /\ ~sealed /\ ~stop
  BY <1>1, OneUser DEF Gated
<1>3. OnlyTurn(s)
  BY <1>1 DEF PipeInv
<1>4. /\ frames' \in Seq(Frame) /\ Head(frames) = frames[1] /\ 1 \in DOMAIN frames /\ TokenInv'
      /\ \A i \in DOMAIN frames' : i + 1 \in DOMAIN frames /\ frames'[i] = frames[i + 1]
      /\ \A i \in DOMAIN cmd : cmd[i].op = "cancel"
      /\ frames[1].op # "accept" => frames' = <<>> /\ running = Pool!NoTurn
  BY <1>1, FrameRead DEF Pool!engine
<1>5. heard'
  BY <1>1, <1>3, <1>4 DEF OnlyTurn
<1>6. CASE Pool!Ends(Head(frames))
  <2>1. /\ Pool!Leaves(s) /\ at' = [at EXCEPT ![s] = "receive"]
        /\ admitted' = [admitted EXCEPT ![s] = FALSE] /\ requests' = requests - 1
    BY <1>6 DEF Pool!Bridge, Pool!Go
  <2>2. Idle' /\ frames' = <<>>
    BY <1>1, <1>4, <1>6 DEF Idle, Pool!Ends, Pool!engine
  <2>3. GateInv' /\ ModeInv' /\ KvInv' /\ PipeInv' /\ SealInv' /\ HostType'
    <3>1. admitted' \in [Pool!Slot -> BOOLEAN]
      BY <2>1 DEF HostType
    <3>2. \A i \in DOMAIN frames' : frames'[i].op # "done_reset"
      BY <2>2
    <3>3. mode' = mode /\ sealed' = sealed /\ stop' = stop
      BY <1>1 DEF Pool!control
    <3> QED BY <1>1, <1>4, <1>5, <2>1, <2>2, <3>1, <3>2, <3>3, GivenUp
  <2>4. CountInv'
    <3>1. admitted[s]
      BY <1>1 DEF AdmitInv, Gated
    <3> QED BY <1>1, <2>1, <3>1, CountMoves
  <2>5. AdmitInv'
    BY <1>1, <2>1 DEF AdmitInv, HostType, Gated
  <2> QED BY <1>4, <1>5, <2>3, <2>4, <2>5
<1>7. CASE ~Pool!Ends(Head(frames))
  <2>1. UNCHANGED <<turns, at, admitted, requests>>
    BY <1>7 DEF Pool!Bridge
  <2>2. HostType' /\ GateInv' /\ ModeInv'
    BY <1>1, <1>4, <1>5, <2>1 DEF HostType, GateInv, ModeInv, Pool!control, Pool!engine
  <2>3. KvInv'
    BY <1>1, <1>4, <2>1 DEF KvInv, Pool!engine
  <2>4. PipeInv'
    <3>1. OnlyTurn(s)'
      BY <1>1, <1>3, <1>4 DEF OnlyTurn, Pool!engine
    <3> QED BY <1>1, <1>2, <2>1, <3>1 DEF PipeInv, Piping, Gated, Pool!control
  <2>5. CountInv' /\ AdmitInv' /\ SealInv'
    BY <1>1, <2>1 DEF CountInv, AdmitInv, SealInv, Pool!control
  <2> QED BY <1>4, <1>5, <2>2, <2>3, <2>4, <2>5
<1> QED BY <1>6, <1>7

\* A turn that is cancelled keeps the pipes until its last frame.
LEMMA Cancelled ==
    ASSUME HostConstants, HostInv, NEW s \in Pool!Slot, at[s] = "bridge", Pool!Write("cancel", s),
           NEW p \in {"bridge", "drain"}, at' = [at EXCEPT ![s] = p],
           UNCHANGED <<conn, reset_needed, admitted, requests, workers, Pool!control, main, cur, turns, frames,
                       Pool!engine, next, heard>>
    PROVE  HostInv'
<1> USE DEF HostInv
<1> DEFINE c == [op |-> "cancel", slot |-> s, conn |-> conn[s]]
<1>1. c \in Command /\ c.op = "cancel" /\ cmd' = Append(cmd, c)
  <2>1. s # 0 /\ conn[s] \in Nat
    BY DEF Pool!Slot, HostConstants, HostType
  <2> QED BY <2>1 DEF Pool!Write, Command
<1>2. /\ cmd' \in Seq(Command) /\ TokenInv'
      /\ \A i \in DOMAIN cmd' : cmd'[i].op = "cancel" \/ (i \in DOMAIN cmd /\ cmd'[i] = cmd[i])
  BY <1>1, CancelWritten DEF Pool!engine
<1> HIDE DEF c
<1>3. \A t \in Pool!Slot : at'[t] = IF t = s THEN p ELSE at[t]
  BY DEF HostType
<1>4. HostType'
  <2>1. at' \in [Pool!Slot -> Place]
    BY DEF HostType, Place
  <2> QED BY <1>2, <2>1 DEF HostType, Pool!control, Pool!engine
<1>5. GateInv'
  <2>1. turns[1] = s
    BY DEF GateInv, Gated
  <2> QED BY <2>1, GateKept DEF Gated
<1>6. ModeInv' /\ AdmitInv' /\ SealInv'
  BY <1>3 DEF ModeInv, Piping, AdmitInv, Gated, SealInv, Pool!control
<1>7. KvInv'
  BY <1>2 DEF KvInv, Pool!engine
<1>8. PipeInv'
  <2>1. /\ \A t \in Pool!Slot : at[t] \in Gated \cup {"last"} => t = s
        /\ main = "accept"
    BY OneUser DEF Gated
  <2>2. OnlyTurn(s)'
    <3>1. OnlyTurn(s)
      BY DEF PipeInv
    <3> QED BY <1>2, <3>1 DEF OnlyTurn, Pool!engine
  <2> QED BY <1>3, <2>1, <2>2 DEF PipeInv, Piping, Gated
<1>9. CountInv'
  BY CountKept
<1> QED BY <1>2, <1>4, <1>5, <1>6, <1>7, <1>8, <1>9

\* The client of a slot cancels its turn.
LEMMA ClientCancelStep ==
    ASSUME HostConstants, HostInv, NEW s \in Pool!Slot, Pool!ClientCancel(s) PROVE HostInv'
<1>1. /\ at[s] = "bridge" /\ Pool!Write("cancel", s)
      /\ UNCHANGED <<Pool!pool, Pool!control, main, cur, turns, frames, Pool!engine, Pool!clients>>
  BY DEF Pool!ClientCancel
<1>2. at' = [at EXCEPT ![s] = "bridge"]
  BY <1>1 DEF HostInv, HostType, Pool!pool
<1> QED BY <1>1, <1>2, Cancelled DEF Pool!pool, Pool!clients

\* Without its client, or too late, a turn is cancelled, and drained.
LEMMA AbandonStep ==
    ASSUME HostConstants, HostInv, NEW s \in Pool!Slot, Pool!Abandon(s) PROVE HostInv'
<1>1. /\ at[s] = "bridge" /\ ~stop
      /\ UNCHANGED <<conn, reset_needed, admitted, requests, workers, Pool!control, main, cur, frames, Pool!engine, Pool!clients>>
  BY OneUser DEF Pool!Abandon, HostInv, Gated
<1>2. Pool!Write("cancel", s) /\ at' = [at EXCEPT ![s] = "drain"] /\ UNCHANGED turns
  BY <1>1 DEF Pool!Abandon, Pool!Go
<1> QED BY <1>1, <1>2, Cancelled DEF Pool!clients

\* The engine is gone: the host stops.
LEMMA BridgeBreaksStep ==
    ASSUME HostConstants, HostInv, NEW s \in Pool!Slot, Pool!BridgeBreaks(s) PROVE HostInv'
<1> USE DEF HostInv
<1>1. /\ at[s] = "bridge" /\ stop' = TRUE /\ Pool!Leaves(s) /\ at' = [at EXCEPT ![s] = "close"]
      /\ UNCHANGED <<conn, reset_needed, admitted, requests, workers, mode, revision, sealed, main, cur, cmd, frames,
                     Pool!engine, Pool!clients>>
  BY DEF Pool!BridgeBreaks, Pool!Go
<1>2. TokenInv' /\ frames' \in Seq(Frame) /\ stop' \in BOOLEAN /\ heard'
  BY <1>1 DEF TokenInv, HostType, Pool!engine, Pool!clients
<1>3. GateInv' /\ ModeInv' /\ KvInv' /\ PipeInv' /\ SealInv' /\ HostType'
  BY <1>1, <1>2, GivenUp DEF HostType, Pool!clients
<1>4. CountInv' /\ AdmitInv'
  BY <1>1, CountKept DEF AdmitInv, HostType, Gated
<1> QED BY <1>2, <1>3, <1>4

\* The last frames of a cancelled turn are read before the slot is reset.
LEMMA DrainStep ==
    ASSUME HostConstants, HostInv, NEW s \in Pool!Slot, Pool!Drain(s) PROVE HostInv'
<1> USE DEF HostInv
<1>1. /\ at[s] = "drain"
      /\ UNCHANGED <<conn, reset_needed, admitted, requests, workers, mode, revision, sealed, main, cur, Pool!engine, Pool!clients>>
  BY DEF Pool!Drain
<1>2. /\ \A t \in Pool!Slot : at[t] \in Gated \cup {"last"} => t = s
      /\ main = "accept" /\ mode # "retired" /\ ~sealed /\ ~stop
  BY <1>1, OneUser DEF Gated
<1>3. OnlyTurn(s)
  BY <1>1 DEF PipeInv
<1>4. CASE Pool!Broken /\ stop' = TRUE /\ Pool!Leaves(s) /\ Pool!Go(s, "close") /\ UNCHANGED cmd
  <2>1. UNCHANGED frames /\ at' = [at EXCEPT ![s] = "close"]
    BY <1>4 DEF Pool!Broken, Pool!Go
  <2>2. TokenInv' /\ frames' \in Seq(Frame) /\ stop' \in BOOLEAN /\ heard'
    BY <1>1, <1>4, <2>1 DEF TokenInv, HostType, Pool!engine, Pool!clients
  <2>3. GateInv' /\ ModeInv' /\ KvInv' /\ PipeInv' /\ SealInv' /\ HostType'
    BY <1>1, <1>4, <2>1, <2>2, GivenUp DEF HostType, Pool!clients
  <2>4. CountInv' /\ AdmitInv'
    BY <1>1, <2>1, CountKept DEF AdmitInv, HostType, Gated
  <2> QED BY <2>2, <2>3, <2>4
<1>5. CASE /\ frames # <<>> /\ frames' = Tail(frames)
           /\ IF Pool!Ends(Head(frames)) THEN Pool!Write("reset", s) /\ Pool!Go(s, "clear") ELSE UNCHANGED <<cmd, at>>
           /\ UNCHANGED <<turns, stop>>
  <2>1. /\ frames' \in Seq(Frame) /\ Head(frames) = frames[1] /\ 1 \in DOMAIN frames
        /\ (cmd' = cmd /\ running' = running) => TokenInv'
        /\ \A i \in DOMAIN frames' : i + 1 \in DOMAIN frames /\ frames'[i] = frames[i + 1]
        /\ \A i \in DOMAIN cmd : cmd[i].op = "cancel"
        /\ frames[1].op # "accept" => frames' = <<>> /\ running = Pool!NoTurn
    BY <1>5, FrameRead
  <2>2. CASE Pool!Ends(Head(frames))
    <3> DEFINE c == [op |-> "reset", slot |-> s, conn |-> conn[s]]
    <3>1. c \in Command /\ cmd' = Append(cmd, c) /\ at' = [at EXCEPT ![s] = "clear"]
      <4>1. s # 0 /\ conn[s] \in Nat
        BY DEF Pool!Slot, HostConstants, HostType
      <4> QED BY <1>5, <2>2, <4>1 DEF Pool!Write, Pool!Go, Command
    <3>2. frames' = <<>> /\ running = Pool!NoTurn
      BY <2>1, <2>2 DEF Pool!Ends
    <3>3. /\ cmd' \in Seq(Command) /\ TokenInv'
          /\ \A i \in DOMAIN cmd' : cmd'[i].op = "cancel" \/ cmd'[i] = c
      BY <1>1, <2>1, <3>1, <3>2, OpWritten DEF Pool!engine
    <3>4. c.op = "reset" /\ c.slot = s /\ c.conn = conn[s]
      OBVIOUS
    <3> HIDE DEF c
    <3>5. \A t \in Pool!Slot : at'[t] = IF t = s THEN "clear" ELSE at[t]
      BY <3>1 DEF HostType
    <3>6. HostType'
      <4>1. at' \in [Pool!Slot -> Place]
        BY <3>1 DEF HostType, Place
      <4> QED BY <1>1, <1>5, <2>1, <3>3, <4>1 DEF HostType, Pool!engine, Pool!clients
    <3>7. GateInv'
      <4>1. turns[1] = s
        BY <1>1 DEF GateInv, Gated
      <4> QED BY <1>1, <1>5, <3>1, <4>1, GateKept DEF Gated
    <3>8. ModeInv' /\ AdmitInv' /\ SealInv'
      BY <1>1, <1>2, <1>5, <3>5 DEF ModeInv, AdmitInv, Gated, SealInv
    <3>9. KvInv'
      BY <1>1, <3>2, <3>3, <3>4 DEF KvInv, Pool!engine
    <3>10. PipeInv'
      <4>1. OnlyResets(s)'
        BY <1>1, <3>2, <3>3, <3>4 DEF OnlyResets, Pool!engine
      <4> QED BY <1>1, <1>2, <3>5, <4>1 DEF PipeInv, Piping, Gated
    <3>11. CountInv'
      BY <1>1, <3>1, CountKept
    <3> QED BY <1>1, <3>3, <3>6, <3>7, <3>8, <3>9, <3>10, <3>11 DEF Pool!clients
  <2>3. CASE ~Pool!Ends(Head(frames))
    <3>1. UNCHANGED <<cmd, at>> /\ TokenInv'
      BY <1>1, <1>5, <2>1, <2>3 DEF Pool!engine
    <3>2. HostType' /\ GateInv' /\ ModeInv'
      BY <1>1, <1>5, <2>1, <3>1 DEF HostType, GateInv, ModeInv, Pool!engine, Pool!clients
    <3>3. KvInv'
      BY <1>1, <2>1, <3>1 DEF KvInv, Pool!engine
    <3>4. PipeInv'
      <4>1. OnlyTurn(s)'
        BY <1>1, <1>3, <2>1, <3>1 DEF OnlyTurn, Pool!engine
      <4> QED BY <1>1, <1>2, <3>1, <4>1 DEF PipeInv, Piping, Gated
    <3>5. CountInv' /\ AdmitInv' /\ SealInv' /\ heard'
      BY <1>1, <3>1 DEF CountInv, AdmitInv, SealInv, Pool!clients
    <3> QED BY <3>1, <3>2, <3>3, <3>4, <3>5
  <2> QED BY <2>2, <2>3
<1> QED BY <1>4, <1>5 DEF Pool!Drain

\* The reset of a drained slot is acknowledged, or the host stops.
LEMMA ClearStep ==
    ASSUME HostConstants, HostInv, NEW s \in Pool!Slot, Pool!Clear(s) PROVE HostInv'
<1> USE DEF HostInv
<1>1. /\ at[s] = "clear" /\ Pool!Leaves(s) /\ at' = [at EXCEPT ![s] = "close"]
      /\ UNCHANGED <<conn, reset_needed, admitted, requests, workers, mode, revision, sealed, main, cur, cmd, Pool!engine, Pool!clients>>
  BY DEF Pool!Clear, Pool!Go
<1>2. CountInv' /\ AdmitInv'
  BY <1>1, CountKept DEF AdmitInv, HostType, Gated
<1>3. CASE Pool!Broken /\ stop' = TRUE
  <2>1. UNCHANGED frames
    BY <1>3 DEF Pool!Broken
  <2>2. TokenInv' /\ frames' \in Seq(Frame) /\ stop' \in BOOLEAN /\ heard'
    BY <1>1, <1>3, <2>1 DEF TokenInv, HostType, Pool!engine, Pool!clients
  <2>3. GateInv' /\ ModeInv' /\ KvInv' /\ PipeInv' /\ SealInv' /\ HostType'
    BY <1>1, <1>3, <2>1, <2>2, GivenUp DEF HostType, Pool!clients
  <2> QED BY <1>2, <2>2, <2>3
<1>4. CASE frames # <<>> /\ frames' = Tail(frames) /\ UNCHANGED stop
  <2>1. /\ frames' \in Seq(Frame) /\ 1 \in DOMAIN frames
        /\ (cmd' = cmd /\ running' = running) => TokenInv'
        /\ \A i \in DOMAIN cmd : cmd[i].op = "cancel"
        /\ frames[1].op # "accept" => frames' = <<>> /\ running = Pool!NoTurn
    BY <1>4, FrameRead
  <2>2. frames[1].op # "accept"
    BY <1>1, <2>1 DEF PipeInv, OnlyResets
  <2>3. TokenInv' /\ Idle' /\ heard' /\ \A i \in DOMAIN frames' : frames'[i].op # "done_reset"
    BY <1>1, <2>1, <2>2 DEF Idle, Pool!engine, Pool!clients
  <2>4. next' = next /\ admitted' \in [Pool!Slot -> BOOLEAN]
    BY <1>1 DEF HostType, Pool!clients
  <2>5. GateInv' /\ ModeInv' /\ KvInv' /\ PipeInv' /\ SealInv' /\ HostType'
    BY <1>1, <1>4, <2>1, <2>3, <2>4, GivenUp
  <2> QED BY <1>2, <2>3, <2>5
<1> QED BY <1>3, <1>4 DEF Pool!Clear, Pool!Acked

\* The slot of a connection that ends is free again.
LEMMA Freed ==
    ASSUME HostConstants, HostInv, NEW s \in Pool!Slot, at[s] \in {"close", "last"},
           at' = [at EXCEPT ![s] = "free"], conn' = [conn EXCEPT ![s] = 0], workers' = workers - 1,
           requests' = (IF admitted[s] THEN requests - 1 ELSE requests),
           admitted' = [admitted EXCEPT ![s] = FALSE],
           NEW b \in BOOLEAN, reset_needed' = [reset_needed EXCEPT ![s] = b], ~b => kv[s] = {} /\ Idle',
           UNCHANGED <<mode, sealed, main, cur, turns, cmd, Pool!engine, next, heard>>,
           frames' \in Seq(Frame), TokenInv',
           UNCHANGED frames \/ \A i \in DOMAIN frames' : frames'[i].op # "done_reset",
           \/ stop' /\ stop' \in BOOLEAN /\ (at[s] = "last" \/ stop)
           \/ at[s] = "close" /\ UNCHANGED <<stop, frames>>
           \/ at[s] = "last" /\ UNCHANGED stop /\ Idle'
    PROVE  HostInv'
<1> USE DEF HostInv
<1>1. \A t \in Pool!Slot : /\ at'[t] = IF t = s THEN "free" ELSE at[t]
                           /\ conn'[t] = IF t = s THEN 0 ELSE conn[t]
                           /\ admitted'[t] = IF t = s THEN FALSE ELSE admitted[t]
                           /\ reset_needed'[t] = IF t = s THEN b ELSE reset_needed[t]
  BY DEF HostType
<1>2. mode # "retired" /\ ~sealed /\ main \in {"accept", "join"}
  BY DEF ModeInv, HostType
<1>3. at[s] = "last" => \A t \in Pool!Slot : t = s
  BY DEF ModeInv, Pool!Slot
<1>a. /\ stop' => at[s] = "last" \/ stop
      /\ stop => stop'
  <2>1. at[s] = "last" => ~stop
    BY DEF ModeInv, Piping
  <2> QED BY <2>1
<1>4. HostType'
  <2>1. at' \in [Pool!Slot -> Place] /\ conn' \in [Pool!Slot -> Nat] /\ admitted' \in [Pool!Slot -> BOOLEAN]
    BY DEF HostType, Place
  <2>2. stop' \in BOOLEAN /\ reset_needed' \in [Pool!Slot -> BOOLEAN]
    BY DEF HostType
  <2> QED BY <2>1, <2>2 DEF HostType, Pool!engine
<1>5. GateInv'
  BY GateKept DEF Gated
<1>6. ModeInv'
  <2>1. stop' => \A t \in Pool!Slot : at'[t] \notin Piping
    BY ONLY <1>1, <1>3, <1>a, ModeInv, s \in Pool!Slot DEF ModeInv, Piping
  <2>2. main = "join" => stop'
    BY ONLY <1>a, ModeInv DEF ModeInv
  <2>3. mode' = mode /\ main' = main /\ sealed' = sealed
    OBVIOUS
  <2> QED BY ONLY <1>1, <1>2, <2>1, <2>2, <2>3, ModeInv, s \in Pool!Slot DEF ModeInv
<1>7. KvInv'
  <2>1. \A t \in Pool!Slot : ~reset_needed'[t] => kv[t] \subseteq {conn'[t]} \ {0}
    BY <1>1 DEF KvInv
  <2>2. frames' = frames \/ \A i \in DOMAIN frames' : frames'[i].op # "done_reset"
    OBVIOUS
  <2>3. running' = running /\ kv' = kv /\ cmd' = cmd
    BY DEF Pool!engine
  <2>4. \A i \in DOMAIN frames' : frames'[i].op = "done_reset" => kv'[frames'[i].slot] = {}
    BY <2>2, <2>3 DEF KvInv
  <2>5. CASE Idle'
    <3>1. running' = Pool!NoTurn /\ \A i \in DOMAIN cmd' : cmd'[i].op # "submit"
      BY ONLY <2>5 DEF Idle
    <3> QED BY ONLY <2>1, <2>3, <2>4, <3>1 DEF KvInv
  <2>6. CASE b
    <3>1. \A t \in Pool!Slot : reset_needed'[t] \/ (reset_needed'[t] = reset_needed[t] /\ conn'[t] = conn[t])
      BY <1>1, <2>6
    <3>2. running # Pool!NoTurn => running.slot \in Pool!Slot
      BY DEF HostType
    <3>3. \A i \in DOMAIN cmd : cmd[i].slot \in Pool!Slot
      <4>1. \A i \in DOMAIN cmd : cmd[i] \in Command
        BY DEF HostType
      <4> QED BY <4>1 DEF Command
    <3> QED BY ONLY KvInv, <2>1, <2>3, <2>4, <3>1, <3>2, <3>3 DEF KvInv
  <2> QED BY <2>5, <2>6
<1>8. PipeInv'
  <2>1. main' # "sealing" /\ main' = main /\ cmd' = cmd /\ running' = running
    BY <1>2 DEF Pool!engine
  <2>2. CASE at[s] = "close" /\ UNCHANGED <<stop, frames>>
    <3>1. \A t \in Pool!Slot : at'[t] \in Piping => t # s /\ at'[t] = at[t] /\ conn'[t] = conn[t]
      BY ONLY <1>1 DEF Piping
    <3>2. (\A t \in Pool!Slot : at'[t] \notin Piping) => \A t \in Pool!Slot : at[t] \notin Piping
      BY ONLY <1>1, <2>2 DEF Piping
    <3> QED BY ONLY PipeInv, <2>1, <2>2, <3>1, <3>2, <1>2 DEF PipeInv, OnlyResets, OnlyTurn, Idle, Piping
  <2>3. CASE ~(at[s] = "close" /\ UNCHANGED <<stop, frames>>)
    <3>1. \A t \in Pool!Slot : at'[t] \notin Piping
      <4>1. at[s] = "last" \/ stop
        BY <2>3
      <4> QED BY ONLY <4>1, <1>1, <1>3, ModeInv, s \in Pool!Slot DEF ModeInv, Piping
    <3>2. stop' \/ Idle'
      BY <2>3
    <3> QED BY <2>1, <3>1, <3>2 DEF PipeInv, Piping
  <2> QED BY <2>2, <2>3
<1>9. CountInv'
  <2>1. workers' = IF at[s] = "free" /\ "free" # "free" THEN workers + 1
                   ELSE IF at[s] # "free" /\ "free" = "free" THEN workers - 1 ELSE workers
    OBVIOUS
  <2>2. requests' = IF FALSE /\ ~admitted[s] THEN requests + 1
                    ELSE IF ~FALSE /\ admitted[s] THEN requests - 1 ELSE requests
    OBVIOUS
  <2> QED BY <2>1, <2>2, CountMoves
<1>10. AdmitInv' /\ SealInv'
  <2>1. sealed' = sealed
    OBVIOUS
  <2> QED BY ONLY AdmitInv, <1>1, <1>2, <2>1 DEF AdmitInv, SealInv, Gated
<1> QED BY <1>4, <1>5, <1>6, <1>7, <1>8, <1>9, <1>10

\* A host with a single slot frees it when its reset is acknowledged, or pending.
LEMMA LastResetStep ==
    ASSUME HostConstants, HostInv, NEW s \in Pool!Slot, Pool!LastReset(s) PROVE HostInv'
<1> USE DEF HostInv
<1>1. /\ at[s] = "last" /\ at' = [at EXCEPT ![s] = "free"]
      /\ conn' = [conn EXCEPT ![s] = 0] /\ workers' = workers - 1
      /\ requests' = (IF admitted[s] THEN requests - 1 ELSE requests)
      /\ admitted' = [admitted EXCEPT ![s] = FALSE]
      /\ UNCHANGED <<mode, revision, sealed, main, cur, turns, cmd, Pool!engine, next, heard>>
  BY DEF Pool!LastReset, Pool!Go, Pool!clients
<1>2. OnlyResets(s)
  BY <1>1 DEF PipeInv
<1>3. CASE Pool!Broken /\ reset_needed' = [reset_needed EXCEPT ![s] = TRUE] /\ stop' = TRUE
  <2>1. UNCHANGED frames
    BY <1>3 DEF Pool!Broken
  <2>2. TokenInv' /\ frames' \in Seq(Frame)
    BY <1>1, <2>1 DEF TokenInv, HostType, Pool!engine
  <2>3. stop' /\ stop' \in BOOLEAN
    BY <1>3
  <2> QED BY <1>1, <1>3, <2>1, <2>2, <2>3, Freed
<1>4. ASSUME frames # <<>>, frames' = Tail(frames), NEW b \in BOOLEAN,
             Head(frames).op = (IF b THEN "pending" ELSE "done_reset"),
             reset_needed' = [reset_needed EXCEPT ![s] = b], UNCHANGED stop
      PROVE  HostInv'
  <2>1. /\ frames' \in Seq(Frame) /\ Head(frames) = frames[1] /\ 1 \in DOMAIN frames
        /\ (cmd' = cmd /\ running' = running) => TokenInv'
        /\ \A i \in DOMAIN cmd : cmd[i].op = "cancel"
        /\ frames[1].op # "accept" => frames' = <<>> /\ running = Pool!NoTurn
    BY <1>4, FrameRead
  <2>2. frames[1].op # "accept" /\ frames[1].slot = s
    BY <1>2, <2>1 DEF OnlyResets
  <2>3. Idle' /\ TokenInv' /\ \A i \in DOMAIN frames' : frames'[i].op # "done_reset"
    BY <1>1, <2>1, <2>2 DEF Idle, Pool!engine
  <2>4. ~b => kv[s] = {}
    BY <1>4, <2>1, <2>2 DEF KvInv
  <2> QED BY <1>1, <1>4, <2>1, <2>3, <2>4, Freed
<1>5. CASE Pool!Acked("done_reset") /\ reset_needed' = [reset_needed EXCEPT ![s] = FALSE] /\ UNCHANGED stop
  BY <1>4, <1>5 DEF Pool!Acked
<1>6. CASE Pool!Acked("pending") /\ reset_needed' = [reset_needed EXCEPT ![s] = TRUE] /\ UNCHANGED stop
  BY <1>4, <1>6 DEF Pool!Acked
<1> QED BY <1>3, <1>5, <1>6 DEF Pool!LastReset

\* Any other host leaves the reset of the slot to its next turn.
LEMMA CloseStep ==
    ASSUME HostConstants, HostInv, NEW s \in Pool!Slot, Pool!Close(s) PROVE HostInv'
<1> USE DEF HostInv
<1>1. /\ at[s] = "close"
      /\ UNCHANGED <<Pool!control, main, cur, turns, frames, Pool!engine, next, asked, heard>>
  BY DEF Pool!Close
<1>2. CASE HostSlots = 1 /\ ~stop
  <2> DEFINE c == [op |-> "reset", slot |-> s, conn |-> conn[s]]
  <2>1. /\ c \in Command /\ cmd' = Append(cmd, c) /\ at' = [at EXCEPT ![s] = "last"]
        /\ UNCHANGED <<conn, workers, requests, admitted, reset_needed>>
    <3>1. s # 0 /\ conn[s] \in Nat
      BY DEF Pool!Slot, HostConstants, HostType
    <3> QED BY <1>2, <3>1 DEF Pool!Close, Pool!Write, Pool!Go, Command
  <2>2. /\ \A t \in Pool!Slot : t = s
        /\ mode # "retired" /\ main \notin {"seal", "sealing", "join"} /\ ~sealed
    BY <1>1, <1>2 DEF ModeInv, Pool!Slot
  <2>3. Idle
    BY <1>1, <1>2, <2>2 DEF PipeInv, Piping
  <2>4. /\ cmd' \in Seq(Command) /\ TokenInv'
        /\ \A i \in DOMAIN cmd' : cmd'[i].op = "cancel" \/ cmd'[i] = c
    BY <1>1, <2>1, <2>3, OpWritten DEF Idle, Pool!engine
  <2>5. c.op = "reset" /\ c.slot = s /\ c.conn = conn[s]
    OBVIOUS
  <2> HIDE DEF c
  <2>6. \A t \in Pool!Slot : at'[t] = "last" /\ t = s
    BY <2>1, <2>2 DEF HostType
  <2>7. HostType'
    <3>1. at' \in [Pool!Slot -> Place]
      BY <2>1 DEF HostType, Place
    <3> QED BY <1>1, <2>1, <2>4, <3>1 DEF HostType, Pool!control, Pool!engine
  <2>8. GateInv'
    BY <1>1, <2>1, GateKept DEF Gated
  <2>9. ModeInv' /\ AdmitInv' /\ SealInv'
    BY <1>1, <1>2, <2>1, <2>2, <2>6 DEF ModeInv, AdmitInv, Gated, SealInv, Pool!control, HostType
  <2>10. KvInv'
    BY <1>1, <2>1, <2>3, <2>4, <2>5 DEF KvInv, Idle, Pool!engine
  <2>11. PipeInv'
    <3>1. OnlyResets(s)'
      BY <1>1, <2>1, <2>3, <2>4, <2>5 DEF OnlyResets, Idle, Pool!engine
    <3> QED BY <1>1, <2>2, <2>6, <3>1 DEF PipeInv, Piping
  <2>12. CountInv'
    BY <1>1, <2>1, CountKept
  <2> QED BY <1>1, <2>4, <2>7, <2>8, <2>9, <2>10, <2>11, <2>12
<1>3. CASE ~(HostSlots = 1 /\ ~stop)
  <2>1. /\ at' = [at EXCEPT ![s] = "free"] /\ conn' = [conn EXCEPT ![s] = 0] /\ workers' = workers - 1
        /\ requests' = (IF admitted[s] THEN requests - 1 ELSE requests)
        /\ admitted' = [admitted EXCEPT ![s] = FALSE]
        /\ reset_needed' = [reset_needed EXCEPT ![s] = TRUE] /\ UNCHANGED cmd
    BY <1>3 DEF Pool!Close, Pool!Go
  <2>2. TokenInv' /\ frames' \in Seq(Frame)
    BY <1>1, <2>1 DEF TokenInv, HostType, Pool!engine
  <2>3. UNCHANGED <<mode, stop, sealed>>
    BY <1>1 DEF Pool!control
  <2> QED BY <1>1, <2>1, <2>2, <2>3, Freed
<1> QED BY <1>2, <1>3

\* The engine takes the head of the commands and answers with a frame.
LEMMA CommandTaken ==
    ASSUME HostType, TokenInv, cmd # <<>>, cmd' = Tail(cmd)
    PROVE  /\ cmd' \in Seq(Command) /\ Head(cmd) = cmd[1] /\ 1 \in DOMAIN cmd /\ cmd[1] \in Command
           /\ \A i \in DOMAIN cmd' : i + 1 \in DOMAIN cmd /\ cmd'[i] = cmd[i + 1]
           /\ cmd[1].op # "cancel" =>
                /\ \A i \in DOMAIN cmd' : cmd'[i].op = "cancel"
                /\ running = Pool!NoTurn /\ frames = <<>>
           /\ (frames' = frames /\ running' = running) => TokenInv'
<1>1. cmd \in Seq(Command)
  BY DEF HostType
<1>2. /\ cmd' \in Seq(Command) /\ Head(cmd) = cmd[1] /\ cmd[1] \in Command
      /\ DOMAIN cmd' = 1 .. Len(cmd) - 1 /\ DOMAIN cmd = 1 .. Len(cmd) /\ Len(cmd) \in Nat \ {0}
      /\ \A i \in 1 .. Len(cmd) - 1 : cmd'[i] = cmd[i + 1]
  BY <1>1, Read
<1>3. \A i \in DOMAIN cmd' : i + 1 \in DOMAIN cmd /\ i + 1 # 1 /\ cmd'[i] = cmd[i + 1]
  BY <1>2
<1>4. 1 \in DOMAIN cmd
  BY <1>2
<1>5. cmd[1].op # "cancel" =>
        /\ \A i \in DOMAIN cmd' : cmd'[i].op = "cancel"
        /\ running = Pool!NoTurn /\ frames = <<>>
  BY <1>3, <1>4 DEF TokenInv
<1>6. (frames' = frames /\ running' = running) => TokenInv'
  BY <1>2, <1>3 DEF TokenInv
<1> QED BY <1>2, <1>3, <1>4, <1>5, <1>6

\* Only the last frame of the engine is no acceptance.
LEMMA Said ==
    ASSUME HostType, NEW f \in Frame, frames' = Append(frames, f),
           \A i \in DOMAIN frames : frames[i].op = "accept"
    PROVE  /\ frames' \in Seq(Frame)
           /\ \A i \in DOMAIN frames' : frames'[i] = f \/ (i \in DOMAIN frames /\ frames'[i] = frames[i])
           /\ \A i \in DOMAIN frames' : frames'[i].op # "accept" => i = Len(frames')
<1>1. frames \in Seq(Frame)
  BY DEF HostType
<1>2. /\ frames' \in Seq(Frame) /\ DOMAIN frames' = 1 .. Len(frames) + 1 /\ DOMAIN frames = 1 .. Len(frames)
      /\ Len(frames) \in Nat /\ frames'[Len(frames) + 1] = f /\ Len(frames') = Len(frames) + 1
      /\ \A i \in 1 .. Len(frames) : frames'[i] = frames[i]
  BY <1>1, Written
<1> QED BY <1>2

\* What the engine does is seen by nobody but the owner of the pipes.
LEMMA EngineFrame ==
    ASSUME HostInv, UNCHANGED <<Pool!pool, Pool!control, main, cur, turns, Pool!clients>>
    PROVE  /\ GateInv' /\ ModeInv' /\ CountInv' /\ SealInv' /\ AdmitInv' /\ heard'
           /\ (/\ cmd' \in Seq(Command) /\ frames' \in Seq(Frame) /\ kv' \in [Pool!Slot -> SUBSET Nat]
               /\ stuck' \in [Pool!Slot -> BOOLEAN] /\ dead' \in BOOLEAN
               /\ running' \in [slot : Pool!Slot, conn : Nat] \cup {Pool!NoTurn}) => HostType'
           /\ ((\A s \in Pool!Slot : OnlyResets(s) => OnlyResets(s)') /\ (\A s \in Pool!Slot : OnlyTurn(s) => OnlyTurn(s)')
               /\ (Idle => Idle')) => PipeInv'
<1> USE DEF HostInv, Pool!pool, Pool!control, Pool!clients
<1>1. GateInv' /\ ModeInv' /\ CountInv' /\ SealInv' /\ AdmitInv' /\ heard'
  BY DEF GateInv, ModeInv, CountInv, SealInv, AdmitInv
<1>2. ASSUME cmd' \in Seq(Command), frames' \in Seq(Frame), kv' \in [Pool!Slot -> SUBSET Nat],
             stuck' \in [Pool!Slot -> BOOLEAN], dead' \in BOOLEAN,
             running' \in [slot : Pool!Slot, conn : Nat] \cup {Pool!NoTurn}
      PROVE  HostType'
  BY <1>2 DEF HostType
<1>3. ASSUME \A s \in Pool!Slot : OnlyResets(s) => OnlyResets(s)',
             \A s \in Pool!Slot : OnlyTurn(s) => OnlyTurn(s)', Idle => Idle'
      PROVE  PipeInv'
  <2>1. at' = at /\ main' = main /\ stop' = stop /\ cur' = cur /\ (main = "sealing" => cur \in Pool!Slot)
    BY DEF ModeInv
  <2>2. ASSUME main = "sealing" PROVE OnlyResets(cur)'
    <3>1. PICK c \in Pool!Slot : c = cur
      BY <2>1, <2>2
    <3>2. OnlyResets(c)
      BY <3>1, <2>2 DEF PipeInv, OnlyResets
    <3>3. OnlyResets(c)'
      BY <1>3, <3>2
    <3> QED BY <2>1, <3>1, <3>3 DEF OnlyResets
  <2>3. \A s \in Pool!Slot : at'[s] \in {"resetting", "clear", "last"} => OnlyResets(s)'
    BY <1>3, <2>1 DEF PipeInv
  <2>4. \A s \in Pool!Slot : at'[s] \in {"bridge", "drain"} => OnlyTurn(s)'
    BY <1>3, <2>1 DEF PipeInv
  <2>5. ~stop' /\ main' # "sealing" /\ (\A s \in Pool!Slot : at'[s] \notin Piping) => Idle'
    BY <1>3, <2>1 DEF PipeInv
  <2> QED BY <2>1, <2>2, <2>3, <2>4, <2>5 DEF PipeInv
<1> QED BY <1>1, <1>2, <1>3

\* A reset empties the slot, or keeps it with what is to be closed.
LEMMA EngineResetStep ==
    ASSUME HostConstants, HostInv, Pool!EngineReset PROVE HostInv'
<1> USE DEF HostInv
<1>1. /\ cmd # <<>> /\ cmd' = Tail(cmd) /\ Head(cmd).op = "reset" /\ running = Pool!NoTurn
      /\ Pool!ResetSlot(Head(cmd).slot)
      /\ Pool!Say(IF stuck'[Head(cmd).slot] THEN "pending" ELSE "done_reset", Head(cmd).slot, Head(cmd).conn)
      /\ UNCHANGED <<Pool!pool, Pool!control, main, cur, turns, running, dead, Pool!clients>>
  BY DEF Pool!EngineReset
<1>2. /\ cmd' \in Seq(Command) /\ Head(cmd) = cmd[1] /\ 1 \in DOMAIN cmd /\ cmd[1] \in Command
      /\ \A i \in DOMAIN cmd' : cmd'[i].op = "cancel" /\ frames = <<>>
  BY <1>1, CommandTaken
<1> DEFINE s == cmd[1].slot
           f == [op |-> IF stuck'[s] THEN "pending" ELSE "done_reset", slot |-> s, conn |-> cmd[1].conn]
<1>3. s \in Pool!Slot /\ cmd[1].conn \in Nat /\ cmd[1].op = "reset"
  BY <1>1, <1>2 DEF Command
<1>4. f \in Frame /\ frames' = Append(frames, f)
  BY <1>1, <1>2, <1>3 DEF Pool!Say, Frame
<1>5. /\ frames' \in Seq(Frame)
      /\ \A i \in DOMAIN frames' : frames'[i] = f
      /\ \A i \in DOMAIN frames' : frames'[i].op # "accept" => i = Len(frames')
  <2>1. frames = <<>>
    BY <1>1, <1>2, CommandTaken
  <2> QED BY <2>1, <1>4, Said
<1>6. f.op = (IF stuck'[s] THEN "pending" ELSE "done_reset") /\ f.slot = s /\ f.conn = cmd[1].conn
  OBVIOUS
<1>7. /\ kv' \in [Pool!Slot -> SUBSET Nat] /\ stuck' \in [Pool!Slot -> BOOLEAN]
      /\ \A t \in Pool!Slot : kv'[t] \subseteq kv[t]
      /\ ~stuck'[s] => kv'[s] = {}
  BY <1>1, <1>2, <1>3 DEF Pool!ResetSlot, HostType
<1> HIDE DEF f, s
<1>8. TokenInv'
  BY <1>1, <1>2, <1>5 DEF TokenInv
<1>9. KvInv'
  <2>1. \A t \in Pool!Slot : ~reset_needed'[t] => kv'[t] \subseteq {conn'[t]} \ {0}
    BY <1>1, <1>7 DEF KvInv, Pool!pool
  <2>2. \A i \in DOMAIN frames' : frames'[i].op = "done_reset" => kv'[frames'[i].slot] = {}
    BY <1>5, <1>6, <1>7
  <2> QED BY <1>1, <1>2, <2>1, <2>2 DEF KvInv
<1>10. PipeInv'
  <2>1. ASSUME NEW t \in Pool!Slot, OnlyResets(t) PROVE OnlyResets(t)'
    <3>1. s = t /\ cmd[1].conn = conn[t]
      BY <1>2, <1>3, <2>1 DEF OnlyResets, s
    <3> QED BY <1>1, <1>2, <1>5, <1>6, <3>1 DEF OnlyResets, Pool!pool
  <2>2. ASSUME NEW t \in Pool!Slot, OnlyTurn(t) PROVE FALSE
    BY <1>2, <1>3, <2>2 DEF OnlyTurn
  <2>3. ~Idle
    BY <1>2, <1>3 DEF Idle
  <2> QED BY <1>1, <2>1, <2>2, <2>3, EngineFrame
<1> QED BY <1>1, <1>2, <1>5, <1>7, <1>8, <1>9, <1>10, EngineFrame DEF HostType

\* A request starts a turn; a slot with sessions to close is reset instead.
LEMMA EngineSubmitStep ==
    ASSUME HostConstants, HostInv, Pool!EngineSubmit PROVE HostInv'
<1> USE DEF HostInv
<1>1. /\ cmd # <<>> /\ cmd' = Tail(cmd) /\ Head(cmd).op = "submit" /\ running = Pool!NoTurn
      /\ UNCHANGED <<Pool!pool, Pool!control, main, cur, turns, dead, Pool!clients>>
  BY DEF Pool!EngineSubmit
<1>2. /\ cmd' \in Seq(Command) /\ Head(cmd) = cmd[1] /\ 1 \in DOMAIN cmd /\ cmd[1] \in Command
      /\ \A i \in DOMAIN cmd' : cmd'[i].op = "cancel"
      /\ frames = <<>>
  BY <1>1, CommandTaken
<1> DEFINE s == cmd[1].slot
           c == cmd[1].conn
           new == [slot |-> s, conn |-> c]
<1>3. s \in Pool!Slot /\ c \in Nat /\ cmd[1].op = "submit"
  BY <1>1, <1>2 DEF Command
<1>4. kv[s] \subseteq {c} /\ (reset_needed[s] \/ (c = conn[s] /\ c # 0))
  BY <1>2, <1>3 DEF KvInv
<1>5. PICK o \in {"error", "accept"} :
         /\ frames' = Append(frames, [op |-> o, slot |-> s, conn |-> c])
         /\ \/ o = "error" /\ Pool!ResetSlot(s) /\ running' = Pool!NoTurn
            \/ o = "accept" /\ running' = new /\ UNCHANGED <<kv, stuck>>
  <2>1. CASE stuck[s]
    BY <1>1, <1>2, <2>1 DEF Pool!EngineSubmit, Pool!Say
  <2>2. CASE ~stuck[s]
    BY <1>1, <1>2, <2>2 DEF Pool!EngineSubmit, Pool!Say
  <2> QED BY <2>1, <2>2
<1> DEFINE f == [op |-> o, slot |-> s, conn |-> c]
<1>6. /\ frames' \in Seq(Frame)
      /\ \A i \in DOMAIN frames' : frames'[i] = f
      /\ \A i \in DOMAIN frames' : frames'[i].op # "accept" => i = Len(frames')
  <2>1. f \in Frame
    BY <1>3 DEF Frame
  <2> QED BY <2>1, <1>2, <1>5, Said
<1>7. f.op = o /\ f.slot = s /\ f.conn = c
  OBVIOUS
<1>8. /\ kv' \in [Pool!Slot -> SUBSET Nat] /\ stuck' \in [Pool!Slot -> BOOLEAN]
      /\ \A t \in Pool!Slot : kv'[t] \subseteq kv[t]
  BY <1>3, <1>5 DEF Pool!ResetSlot, HostType
<1>9. /\ running' \in [slot : Pool!Slot, conn : Nat] \cup {Pool!NoTurn}
      /\ running' # Pool!NoTurn => running' = new /\ o = "accept"
      /\ running' # Pool!NoTurn => running'.slot = s /\ running'.conn = c
  BY <1>3, <1>5
<1> HIDE DEF f, s, c, new
<1>10. TokenInv'
  BY <1>1, <1>2, <1>6, <1>7, <1>9 DEF TokenInv
<1>11. KvInv'
  <2>1. \A t \in Pool!Slot : ~reset_needed'[t] => kv'[t] \subseteq {conn'[t]} \ {0}
    BY <1>1, <1>8 DEF KvInv, Pool!pool
  <2>2. running' # Pool!NoTurn => /\ kv'[running'.slot] \subseteq {running'.conn}
                                  /\ reset_needed'[running'.slot] \/ (running'.conn = conn'[running'.slot] /\ running'.conn # 0)
    BY <1>1, <1>3, <1>4, <1>8, <1>9 DEF Pool!pool
  <2>3. \A i \in DOMAIN frames' : frames'[i].op # "done_reset"
    BY <1>6, <1>7
  <2> QED BY <1>2, <2>1, <2>2, <2>3 DEF KvInv
<1>12. PipeInv'
  <2>1. ASSUME NEW t \in Pool!Slot, OnlyTurn(t) PROVE OnlyTurn(t)'
    <3>1. s = t /\ c = conn[t]
      BY <1>2, <1>3, <2>1 DEF OnlyTurn, s, c
    <3> QED BY <1>1, <1>2, <1>6, <1>7, <1>9, <3>1 DEF OnlyTurn, Pool!pool, new
  <2>2. ASSUME NEW t \in Pool!Slot, OnlyResets(t) PROVE FALSE
    BY <1>2, <1>3, <2>2 DEF OnlyResets
  <2>3. ~Idle
    BY <1>2, <1>3 DEF Idle
  <2> QED BY <1>1, <2>1, <2>2, <2>3, EngineFrame
<1> QED BY <1>1, <1>2, <1>6, <1>8, <1>9, <1>10, <1>11, <1>12, EngineFrame DEF HostType

\* A cancel ends the turn in work, or comes too late and is ignored.
LEMMA EngineCancelStep ==
    ASSUME HostConstants, HostInv, Pool!EngineCancel PROVE HostInv'
<1> USE DEF HostInv
<1>1. /\ cmd # <<>> /\ cmd' = Tail(cmd)
      /\ UNCHANGED <<Pool!pool, Pool!control, main, cur, turns, Pool!clients>>
  BY DEF Pool!EngineCancel
<1>2. /\ cmd' \in Seq(Command) /\ Head(cmd) = cmd[1] /\ 1 \in DOMAIN cmd /\ cmd[1] \in Command
      /\ \A i \in DOMAIN cmd' : i + 1 \in DOMAIN cmd /\ cmd'[i] = cmd[i + 1]
      /\ cmd[1].op # "cancel" => running = Pool!NoTurn
      /\ (frames' = frames /\ running' = running) => TokenInv'
  BY <1>1, CommandTaken
<1>3. CASE running = Pool!NoTurn
  <2>1. UNCHANGED <<kv, stuck, frames, running, dead>>
    BY <1>3 DEF Pool!EngineCancel
  <2>2. KvInv'
    <3>1. \A i \in DOMAIN cmd' : cmd'[i].op = "submit" =>
             /\ kv[cmd'[i].slot] \subseteq {cmd'[i].conn}
             /\ reset_needed[cmd'[i].slot] \/ (cmd'[i].conn = conn[cmd'[i].slot] /\ cmd'[i].conn # 0)
      <4> TAKE i \in DOMAIN cmd'
      <4>1. i + 1 \in DOMAIN cmd /\ cmd'[i] = cmd[i + 1]
        BY <1>2
      <4> QED BY ONLY <4>1, KvInv DEF KvInv
    <3>2. UNCHANGED <<conn, reset_needed, kv, running, frames>>
      BY <1>1, <2>1 DEF Pool!pool
    <3> QED BY ONLY <3>1, <3>2, KvInv DEF KvInv
  <2>3. PipeInv'
    <3>1. ASSUME NEW t \in Pool!Slot, OnlyTurn(t) PROVE OnlyTurn(t)'
      BY <1>1, <1>2, <2>1, <3>1 DEF OnlyTurn, Pool!pool
    <3>2. ASSUME NEW t \in Pool!Slot, OnlyResets(t) PROVE OnlyResets(t)'
      BY <1>1, <1>2, <2>1, <3>2 DEF OnlyResets, Pool!pool
    <3>3. Idle => Idle'
      BY <1>2, <2>1 DEF Idle
    <3> QED BY <1>1, <3>1, <3>2, <3>3, EngineFrame
  <2> QED BY <1>1, <1>2, <2>1, <2>2, <2>3, EngineFrame DEF HostType
<1>4. CASE running # Pool!NoTurn
  <2> DEFINE s == running.slot
             c == running.conn
             f == [op |-> "error", slot |-> s, conn |-> c]
  <2>1. s \in Pool!Slot /\ c \in Nat
    BY <1>4 DEF HostType
  <2>2. Pool!ResetSlot(s) /\ running' = Pool!NoTurn /\ UNCHANGED dead /\ frames' = Append(frames, f)
    BY <1>2, <1>4 DEF Pool!EngineCancel, Pool!Say
  <2>3. /\ frames' \in Seq(Frame)
        /\ \A i \in DOMAIN frames' : frames'[i] = f \/ (i \in DOMAIN frames /\ frames'[i] = frames[i])
        /\ \A i \in DOMAIN frames' : frames'[i].op # "accept" => i = Len(frames')
    <3>1. f \in Frame
      BY <2>1 DEF Frame
    <3>2. \A i \in DOMAIN frames : frames[i].op = "accept"
      BY <1>4 DEF TokenInv
    <3> QED BY <2>2, <3>1, <3>2, Said
  <2>4. f.op = "error" /\ f.slot = s /\ f.conn = c
    OBVIOUS
  <2>5. /\ kv' \in [Pool!Slot -> SUBSET Nat] /\ stuck' \in [Pool!Slot -> BOOLEAN]
        /\ \A t \in Pool!Slot : kv'[t] \subseteq kv[t]
    BY <2>1, <2>2 DEF Pool!ResetSlot, HostType
  <2> HIDE DEF f, s, c
  <2>6. \A i \in DOMAIN cmd : cmd[i].op = "cancel"
    BY <1>4 DEF TokenInv
  <2>7. TokenInv'
    BY <1>2, <2>2, <2>3, <2>6 DEF TokenInv
  <2>8. KvInv'
    <3>1. \A t \in Pool!Slot : ~reset_needed'[t] => kv'[t] \subseteq {conn'[t]} \ {0}
      BY <1>1, <2>5 DEF KvInv, Pool!pool
    <3>2. \A i \in DOMAIN frames' : frames'[i].op # "done_reset"
      BY <1>4, <2>3, <2>4 DEF TokenInv
    <3> QED BY <1>2, <2>2, <2>6, <3>1, <3>2 DEF KvInv
  <2>9. PipeInv'
    <3>1. ASSUME NEW t \in Pool!Slot, OnlyTurn(t) PROVE OnlyTurn(t)'
      <4>1. s = t /\ c = conn[t]
        BY <1>4, <3>1 DEF OnlyTurn, s, c
      <4> QED BY <1>1, <1>2, <2>2, <2>3, <2>4, <2>6, <4>1, <3>1 DEF OnlyTurn, Pool!pool
    <3>2. ASSUME NEW t \in Pool!Slot, OnlyResets(t) PROVE FALSE
      BY <1>4, <3>2 DEF OnlyResets
    <3>3. ~Idle
      BY <1>4 DEF Idle
    <3> QED BY <1>1, <3>1, <3>2, <3>3, EngineFrame
  <2> QED BY <1>1, <1>2, <2>2, <2>3, <2>5, <2>7, <2>8, <2>9, EngineFrame DEF HostType
<1> QED BY <1>3, <1>4

\* A turn that is done leaves its rows in the slot.
LEMMA EngineRunsStep ==
    ASSUME HostConstants, HostInv, Pool!EngineRuns PROVE HostInv'
<1> USE DEF HostInv
<1> DEFINE s == running.slot
           c == running.conn
           f == [op |-> "done", slot |-> s, conn |-> c]
<1>1. /\ running # Pool!NoTurn /\ running' = Pool!NoTurn /\ frames' = Append(frames, f)
      /\ kv' = [kv EXCEPT ![s] = kv[s] \cup {c}]
      /\ UNCHANGED <<Pool!pool, Pool!control, main, cur, turns, cmd, stuck, dead, Pool!clients>>
  BY DEF Pool!EngineRuns, Pool!Say
<1>2. s \in Pool!Slot /\ c \in Nat
  BY <1>1 DEF HostType
<1>3. /\ frames' \in Seq(Frame)
      /\ \A i \in DOMAIN frames' : frames'[i] = f \/ (i \in DOMAIN frames /\ frames'[i] = frames[i])
      /\ \A i \in DOMAIN frames' : frames'[i].op # "accept" => i = Len(frames')
  <2>1. f \in Frame
    BY <1>2 DEF Frame
  <2>2. \A i \in DOMAIN frames : frames[i].op = "accept"
    BY <1>1 DEF TokenInv
  <2> QED BY <1>1, <2>1, <2>2, Said
<1>4. f.op = "done" /\ f.slot = s /\ f.conn = c
  OBVIOUS
<1>5. /\ kv' \in [Pool!Slot -> SUBSET Nat]
      /\ \A t \in Pool!Slot : t # s => kv'[t] = kv[t]
      /\ kv'[s] = kv[s] \cup {c}
  BY <1>1, <1>2 DEF HostType
<1>6. kv[s] \subseteq {c} /\ (reset_needed[s] \/ (c = conn[s] /\ c # 0))
  BY <1>1 DEF KvInv
<1> HIDE DEF f, s, c
<1>7. \A i \in DOMAIN cmd : cmd[i].op = "cancel"
  BY <1>1 DEF TokenInv
<1>8. TokenInv'
  BY <1>1, <1>3, <1>7 DEF TokenInv
<1>9. KvInv'
  <2>1. \A t \in Pool!Slot : ~reset_needed'[t] => kv'[t] \subseteq {conn'[t]} \ {0}
    BY <1>1, <1>5, <1>6 DEF KvInv, Pool!pool
  <2>2. \A i \in DOMAIN frames' : frames'[i].op # "done_reset"
    BY <1>1, <1>3, <1>4 DEF TokenInv
  <2> QED BY <1>1, <1>7, <2>1, <2>2 DEF KvInv
<1>10. PipeInv'
  <2>1. ASSUME NEW t \in Pool!Slot, OnlyTurn(t) PROVE OnlyTurn(t)'
    <3>1. s = t /\ c = conn[t]
      BY <1>1, <2>1 DEF OnlyTurn, s, c
    <3> QED BY <1>1, <1>3, <1>4, <1>7, <3>1, <2>1 DEF OnlyTurn, Pool!pool
  <2>2. ASSUME NEW t \in Pool!Slot, OnlyResets(t) PROVE FALSE
    BY <1>1, <2>2 DEF OnlyResets
  <2>3. ~Idle
    BY <1>1 DEF Idle
  <2> QED BY <1>1, <2>1, <2>2, <2>3, EngineFrame
<1> QED BY <1>1, <1>3, <1>5, <1>8, <1>9, <1>10, EngineFrame DEF HostType

\* The engine ends, and with it what it had of the conversations.
LEMMA EngineDiesStep ==
    ASSUME HostConstants, HostInv, Pool!EngineDies PROVE HostInv'
<1> USE DEF HostInv
<1>1. /\ dead' = TRUE
      /\ UNCHANGED <<Pool!pool, Pool!control, main, cur, turns, cmd, frames, running, kv, stuck, Pool!clients>>
  BY DEF Pool!EngineDies
<1>2. TokenInv' /\ KvInv'
  BY <1>1 DEF TokenInv, KvInv, Pool!pool
<1>3. PipeInv'
  BY <1>1, EngineFrame DEF OnlyResets, OnlyTurn, Idle, Pool!pool
<1> QED BY <1>1, <1>2, <1>3, EngineFrame DEF HostType

\* Every step of the acceptor, of a worker, of a client and of the engine.
LEMMA HostStep ==
    ASSUME HostConstants, HostInv, [Pool!Next]_Pool!vars PROVE HostInv'
<1>1. CASE UNCHANGED Pool!vars
  <2>1. UNCHANGED <<Pool!pool, Pool!control, main, cur, turns, cmd, frames, Pool!engine, Pool!clients>>
    BY <1>1 DEF Pool!vars
  <2>2. TokenInv' /\ KvInv'
    BY <2>1 DEF HostInv, TokenInv, KvInv, Pool!pool, Pool!engine
  <2>3. PipeInv'
    BY <2>1, EngineFrame DEF OnlyResets, OnlyTurn, Idle, Pool!pool, Pool!engine
  <2> QED BY <2>1, <2>2, <2>3, EngineFrame DEF HostInv, HostType, Pool!engine
<1>2. CASE Pool!Main \/ Pool!Accept \/ Pool!Engine \/ Pool!EngineDies
  BY <1>2, SealStep, SealingStep, JoinStep, AcceptStep, EngineResetStep, EngineSubmitStep, EngineCancelStep,
     EngineRunsStep, EngineDiesStep DEF Pool!Main, Pool!Engine
<1>3. ASSUME NEW a \in {"drain", "resume", "retire"}, NEW r \in {revision - 1, revision}, Pool!Control(a, r)
      PROVE  HostInv'
  BY <1>3, ControlStep
<1>4. ASSUME NEW s \in Pool!Slot, Pool!Worker(s) \/ Pool!ClientCancel(s) \/ Pool!Abandon(s) \/ Pool!Leave(s)
      PROVE  HostInv'
  BY <1>4, ReceiveStep, AdmitStep, QueuedStep, OwnStep, ResettingStep, BridgeStep, AbandonStep, BridgeBreaksStep,
     DrainStep, ClearStep, LastResetStep, CloseStep, ClientCancelStep, LeaveStep DEF Pool!Worker
<1> QED BY <1>1, <1>2, <1>3, <1>4 DEF Pool!Next

\* The module of the host counts as this one does.
LEMMA SameCount == \A S : Pool!Cardinality(S) = Cardinality(S)
  BY DEF Pool!Cardinality, Cardinality

\* What clients rely on follows from the invariant.
LEMMA HostPromise ==
    ASSUME HostInv PROVE Pool!HostSound
<1> USE DEF HostInv
<1>1. running # Pool!NoTurn => kv[running.slot] \subseteq {running.conn}
  BY DEF KvInv
<1>2. running # Pool!NoTurn /\ cmd # <<>> => Head(cmd).op = "cancel"
  <2>1. cmd \in Seq(Command)
    BY DEF HostType
  <2>2. cmd # <<>> => Head(cmd) = cmd[1] /\ 1 \in DOMAIN cmd
    BY <2>1, Read
  <2> QED BY <2>2 DEF TokenInv
<1>3. ASSUME ~stop, main # "sealing", \A s \in Pool!Slot : at[s] \notin {"resetting", "bridge", "drain", "clear", "last"}
      PROVE  frames = <<>> /\ \A n \in DOMAIN cmd : cmd[n].op = "cancel"
  BY <1>3 DEF PipeInv, Idle, Piping
<1>4. sealed => \A s \in Pool!Slot : kv[s] = {} /\ at[s] = "free"
  BY DEF SealInv, KvInv, ModeInv
<1> QED BY <1>1, <1>2, <1>3, <1>4, SameCount DEF Pool!HostSound, CountInv
------------------------------------------------------------------------------
(* The keeper of a donor (HomeDonor), k the name it goes by. Of memory there  *)
(* is a whole number of units; names of allocations are not "none".           *)
DonorConstants(k) ==
    /\ IsFiniteSet(DonorAlloc) /\ Donor(k)!NoAlloc \notin DonorAlloc /\ DonorRam \in [DonorAlloc -> Nat]
    /\ DonorEdge \in [DonorAlloc -> BOOLEAN]
    /\ Kind[k].hybrid \in [DonorAlloc -> BOOLEAN] /\ DonorScoped \subseteq DonorAlloc /\ DonorTotal \in Nat
    /\ Kind[k].park \in Nat
    /\ Kind[k].rev \in Nat /\ Kind[k].crash \in Nat
Child == {"none", "load", "up", "dead"}
Record(k) == [id : DonorAlloc \cup {Donor(k)!NoAlloc}, held : BOOLEAN, retained : BOOLEAN, started : BOOLEAN,
   fence : BOOLEAN,
              phase : {"idle", "pending", "accepted", "rejected", "loading", "segment", "starting", "ready",
                 "failed", "closed"},
              client : {"no", "here", "eof", "silent"}, segment : Child, host : Child, pending : BOOLEAN,
              why : {"closed", "failed"}, receipt : BOOLEAN, auth : Nat, routed : BOOLEAN]
DonorType(k) ==
    /\ slot \in [Donor(k)!Slot -> Record(k)] /\ keeper \in BOOLEAN /\ pool \in Nat /\ linger \subseteq DonorAlloc
    /\ born \subseteq DonorAlloc /\ receipts \in [DonorAlloc -> {"none", "prepared", "done"}]
    /\ acked \subseteq DonorAlloc /\ proved \subseteq DonorAlloc /\ policy \in Nat /\ other \in BOOLEAN
    /\ crashes \in Nat
(* An allocation of which nothing was started yet.                            *)
Fresh(r) == r.phase = "pending" \/ (r.held /\ ~r.started)
(* A slot says of its allocation what is true of it: what runs was started,   *)
(* what was started is held and born, what is retained is prepared.           *)
SlotOk(k, r) ==
    /\ Donor(k)!Busy(r) => r.id \in DonorAlloc
    /\ r.phase = "pending" => ~r.held
    /\ r.segment # "none" \/ r.host # "none" => r.started
    /\ r.started => r.held /\ r.id \in born
    /\ r.phase \in {"loading", "segment", "starting", "ready"} => r.started
    /\ r.phase \in {"starting", "ready"} => DonorEdge[r.id]
    /\ r.retained => r.held /\ r.client = "no" /\ r.phase = (IF DonorEdge[r.id] THEN "ready" ELSE "segment")
    /\ r.held /\ r.auth # 0 => r.id \in DonorScoped
    /\ Fresh(r) => r.id \notin born
    /\ r.receipt => r.id \in born
(* The allocations that have memory of this keeper.                           *)
HeldIds(k) == {slot[s].id : s \in Donor(k)!Held}
SlotsInv(k) == \A s \in Donor(k)!Slot : SlotOk(k, slot[s])
(* No two slots share a name that matters, a Hybrid allocation shares nothing,*)
(* a policy has one allocation, and a record that still owes its receipt is   *)
(* not the name of a new allocation.                                          *)
ApartInv(k) ==
    /\ \A s, t \in Donor(k)!Slot : s # t /\ Donor(k)!Busy(slot[s]) /\ Donor(k)!Busy(slot[t]) =>
          slot[s].id # slot[t].id /\ ~Kind[k].hybrid[slot[s].id]
    /\ \A s, t \in Donor(k)!Held : slot[s].auth # 0 /\ slot[t].auth # 0 => s = t
    /\ \A s, t \in Donor(k)!Slot : s # t /\ slot[s].receipt /\ Donor(k)!Busy(slot[t]) => slot[s].id # slot[t].id
(* A process that outlived its allocation's children is of one that was born; *)
(* while a slot names that allocation its memory is not given away, and       *)
(* without a crash there is such a slot.                                      *)
LingerInv(k) ==
    /\ linger \subseteq born
    /\ \A s \in Donor(k)!Slot : slot[s].id \in linger => slot[s].id \in HeldIds(k)
    /\ crashes = 0 => linger \subseteq HeldIds(k)
(* What requesters were told is of births, and of ones that are over.         *)
LedgerInv(k) ==
    /\ \A i \in DonorAlloc : receipts[i] # "none" => i \in born
    /\ \A i \in DonorAlloc : receipts[i] = "done" => i \in acked
    /\ acked \cup proved \subseteq born \ (linger \cup HeldIds(k))
(* What is held fits in the pool, and with what lingers outside of it in the  *)
(* machine: the pool of a running keeper leaves room for those that linger.   *)
MemoryInv(k) ==
    /\ Donor(k)!Weight(HeldIds(k)) <= pool
    /\ Donor(k)!Weight(HeldIds(k)) + Donor(k)!Weight(linger \ HeldIds(k)) <= DonorTotal
    /\ keeper => pool + Donor(k)!Weight(linger \ HeldIds(k)) <= DonorTotal
    /\ ~keeper => \A s \in Donor(k)!Slot : slot[s] = Donor(k)!Empty
    /\ other => Donor(k)!Held = {}
DonorInv(k) == DonorType(k) /\ SlotsInv(k) /\ ApartInv(k) /\ LingerInv(k) /\ LedgerInv(k) /\ MemoryInv(k)

\* The units of memory that allocations take: each its own, and finitely many.
Units(S) == UNION {{i} \X (1 .. DonorRam[i]) : i \in S}
\* They are finitely many.
LEMMA UnitsFinite ==
    ASSUME NEW k, DonorConstants(k), NEW S \in SUBSET DonorAlloc PROVE IsFiniteSet(Units(S))
<1>1. IsFiniteSet(S)
  BY FS_Subset DEF DonorConstants
<1> DEFINE f == [i \in S |-> {i} \X (1 .. DonorRam[i])]
           T == {{i} \X (1 .. DonorRam[i]) : i \in S}
<1>2. f \in Surjection(S, T)
  BY DEF Surjection
<1>3. IsFiniteSet(T)
  BY ONLY <1>1, <1>2, FS_Surjection
<1>4. \A u \in T : IsFiniteSet(u)
  <2> SUFFICES ASSUME NEW i \in S PROVE IsFiniteSet({i} \X (1 .. DonorRam[i]))
    OBVIOUS
  <2>1. DonorRam[i] \in Int /\ 1 \in Int
    BY DEF DonorConstants
  <2>2. IsFiniteSet(1 .. DonorRam[i]) /\ IsFiniteSet({i})
    BY <2>1, FS_Interval, FS_Singleton
  <2> QED BY <2>2, FS_Product
<1> QED BY <1>3, <1>4, FS_UNION DEF Units

\* The module of the donor counts as this one does.
LEMMA WeightIs ==
    ASSUME NEW k
    PROVE  /\ \A S : Donor(k)!Weight(S) = Cardinality(Units(S))
           /\ \A S : Donor(k)!Claimed(S) = Cardinality(UNION {{s} \X (1 .. DonorRam[slot[s].id]) : s \in S})
           /\ \A S : Donor(k)!Cardinality(S) = Cardinality(S)
  BY DEF Donor!Weight, Donor!Claimed, Donor!Cardinality, Cardinality, Units

\* Memory is a number, grows with what it is for, and adds up.
LEMMA WeightGrows ==
    ASSUME NEW k, DonorConstants(k), NEW T \in SUBSET DonorAlloc, NEW S \in SUBSET T
    PROVE  Donor(k)!Weight(S) \in Nat /\ Donor(k)!Weight(T) \in Nat /\ Donor(k)!Weight(S) <= Donor(k)!Weight(T)
<1>1. IsFiniteSet(Units(T)) /\ IsFiniteSet(Units(S))
  BY UnitsFinite
<1>2. Units(S) \in SUBSET Units(T)
  BY DEF Units
<1> QED BY <1>1, <1>2, FS_CardinalityType, FS_Subset, WeightIs

\* Of disjoint allocations it adds up.
LEMMA WeightAdds ==
    ASSUME NEW k, DonorConstants(k), NEW S \in SUBSET DonorAlloc, NEW T \in SUBSET DonorAlloc, S \cap T = {}
    PROVE  Donor(k)!Weight(S \cup T) = Donor(k)!Weight(S) + Donor(k)!Weight(T)
<1>1. IsFiniteSet(Units(T)) /\ IsFiniteSet(Units(S))
  BY UnitsFinite
<1>2. Units(S \cup T) = Units(S) \cup Units(T)
  BY DEF Units
<1>3. Units(S) \cap Units(T) = {}
  BY DEF Units
<1>4. Cardinality(Units(S)) \in Nat /\ Cardinality(Units(T)) \in Nat
  BY <1>1, FS_CardinalityType
<1>5. Cardinality(Units(S \cup T)) = Cardinality(Units(S)) + Cardinality(Units(T)) - Cardinality({})
  BY ONLY <1>1, <1>2, <1>3, FS_Union
<1> QED BY ONLY <1>4, <1>5, FS_EmptySet, WeightIs

\* Of one allocation it is what its offer says.
LEMMA WeightOne ==
    ASSUME NEW k, DonorConstants(k), NEW i \in DonorAlloc PROVE Donor(k)!Weight({i}) = DonorRam[i]
<1>1. DonorRam[i] \in Nat
  BY DEF DonorConstants
<1>2. Units({i}) = {i} \X (1 .. DonorRam[i])
  BY DEF Units
<1>3. IsFiniteSet(1 .. DonorRam[i]) /\ Cardinality(1 .. DonorRam[i]) = DonorRam[i]
  <2> DEFINE n == DonorRam[i]
  <2>1. n \in Nat /\ 1 \in Int /\ n \in Int
    BY <1>1
  <2> HIDE DEF n
  <2>2. IsFiniteSet(1 .. n) /\ Cardinality(1 .. n) = IF 1 > n THEN 0 ELSE n - 1 + 1
    BY ONLY <2>1, FS_Interval
  <2>3. IsFiniteSet(1 .. n) /\ Cardinality(1 .. n) = n
    BY ONLY <2>1, <2>2
  <2> QED BY <2>3 DEF n
<1>4. Cardinality({i} \X (1 .. DonorRam[i])) = 1 * DonorRam[i]
  <2> DEFINE I == {i}  J == 1 .. DonorRam[i]
  <2>1. IsFiniteSet(I) /\ Cardinality(I) = 1
    BY FS_Singleton
  <2> HIDE DEF I, J
  <2>2. Cardinality(I \X J) = Cardinality(I) * Cardinality(J)
    BY <1>3, <2>1, FS_Product DEF J
  <2>3. Cardinality(J) = DonorRam[i]
    BY <1>3 DEF J
  <2>4. Cardinality(I \X J) = 1 * DonorRam[i]
    BY ONLY <2>1, <2>2, <2>3
  <2> QED BY <2>4 DEF I, J
<1>5. \A n \in Nat : 1 * n = n
  OBVIOUS
<1>6. Cardinality(Units({i})) = DonorRam[i]
  BY ONLY <1>1, <1>2, <1>4, <1>5
<1> QED BY ONLY <1>6, WeightIs

\* Of none it is nothing.
LEMMA WeightNone == ASSUME NEW k PROVE Donor(k)!Weight({}) = 0
<1>1. Units({}) = {}
  BY DEF Units
<1> QED BY <1>1, FS_EmptySet, WeightIs

\* What slots claim is the memory of their allocations, while no two of them
\* hold the same one.
LEMMA ClaimedIsWeight ==
    ASSUME NEW k, DonorConstants(k), DonorType(k), NEW S \in SUBSET Donor(k)!Slot,
           \A s \in S : slot[s].id \in DonorAlloc,
           \A s, t \in S : slot[s].id = slot[t].id => s = t
    PROVE  Donor(k)!Claimed(S) = Donor(k)!Weight({slot[s].id : s \in S})
<1> DEFINE I == {slot[s].id : s \in S}
           C == UNION {{s} \X (1 .. DonorRam[slot[s].id]) : s \in S}
           f == [c \in C |-> <<slot[c[1]].id, c[2]>>]
<1>1. \A c \in C : /\ c = <<c[1], c[2]>> /\ c[1] \in S /\ c[2] \in 1 .. DonorRam[slot[c[1]].id]
                   /\ f[c] = <<slot[c[1]].id, c[2]>>
  OBVIOUS
<1>2. \A c \in C : f[c] \in Units(I)
  BY <1>1 DEF Units
<1>3. \A c, d \in C : f[c] = f[d] => c = d
  <2> SUFFICES ASSUME NEW c \in C, NEW d \in C, f[c] = f[d] PROVE c = d
    OBVIOUS
  <2>1. slot[c[1]].id = slot[d[1]].id /\ c[2] = d[2]
    BY <1>1
  <2> QED BY <1>1, <2>1
<1>4. \A u \in Units(I) : \E c \in C : f[c] = u
  <2> SUFFICES ASSUME NEW u \in Units(I) PROVE \E c \in C : f[c] = u
    OBVIOUS
  <2>1. PICK s \in S : u \in {slot[s].id} \X (1 .. DonorRam[slot[s].id])
    BY DEF Units
  <2>2. <<s, u[2]>> \in C /\ u = <<slot[s].id, u[2]>>
    BY <2>1
  <2> QED BY <2>2, <1>1
<1>5. f \in Bijection(C, Units(I))
  <2>1. f \in [C -> Units(I)]
    BY <1>2
  <2> HIDE DEF f, C, I
  <2> QED BY <2>1, <1>3, <1>4, Fun_IsBij
<1>6. IsFiniteSet(Units(I))
  BY UnitsFinite
<1>7. IsFiniteSet(C)
  BY <1>5, <1>6, FS_Injection DEF Bijection
<1> HIDE DEF f
<1>8. ExistsBijection(C, Units(I))
  BY <1>5 DEF ExistsBijection
<1>9. Cardinality(Units(I)) = Cardinality(C)
  BY ONLY <1>7, <1>8, FS_Bijection
<1> QED BY <1>9, WeightIs

\* What a slot is after home_donor_release: nothing of it runs, and it is free
\* only when the exit of everything it started is proved.
LEMMA FreedIs ==
    ASSUME NEW k, DonorInv(k), NEW s \in Donor(k)!Slot, NEW w \in {"closed", "failed"}, Donor(k)!Stopped(s), NEW q,
           q = Donor(k)!Freed(s, w)
    PROVE  /\ q \in Record(k) /\ q.id = slot[s].id /\ q.client = slot[s].client /\ (q.receipt <=> slot[s].receipt)
           /\ q.phase \in {"closed", "failed"} /\ q.segment = "none" /\ q.host = "none"
           /\ ~q.retained /\ q.auth = 0
           /\ q.held => slot[s].held
           /\ q.started => slot[s].started /\ q.held
           /\ q.held => q.started
           /\ slot[s].held /\ ~q.held => slot[s].id \notin linger'
           /\ linger' \subseteq linger \cup HeldIds(k) /\ linger' \subseteq born
<1> DEFINE r == [slot[s] EXCEPT !.why = IF slot[s].pending THEN slot[s].why ELSE w, !.auth = 0, !.routed = FALSE,
                                !.retained = FALSE, !.segment = "none", !.host = "none", !.fence = FALSE]
<1>1. slot[s] \in Record(k)
  BY DEF DonorInv, DonorType
<1>2. SlotOk(k, slot[s])
  BY DEF DonorInv, SlotsInv
<1>3. /\ r \in Record(k) /\ (r.started <=> slot[s].started) /\ ~r.fence /\ (r.held <=> slot[s].held) /\
            r.id = slot[s].id
      /\ r.client = slot[s].client /\ (r.receipt <=> slot[s].receipt) /\ ~r.retained /\ r.auth = 0
      /\ r.segment = "none" /\ r.host = "none" /\ r.why \in {"closed", "failed"}
      /\ r.why = IF slot[s].pending THEN slot[s].why ELSE w
  <2> DEFINE v == IF slot[s].pending THEN slot[s].why ELSE w
             x == slot[s]
  <2>1. v \in {"closed", "failed"}
    BY <1>1 DEF Record
  <2>2. r = [x EXCEPT !.why = v, !.auth = 0, !.routed = FALSE, !.retained = FALSE, !.segment = "none",
                      !.host = "none", !.fence = FALSE]
    OBVIOUS
  <2>3. x \in Record(k)
    BY <1>1
  <2> HIDE DEF v, r, x
  <2>4. /\ r \in Record(k) /\ (r.started <=> x.started) /\ ~r.fence /\ (r.held <=> x.held) /\ r.id = x.id
        /\ r.client = x.client /\ (r.receipt <=> x.receipt) /\ ~r.retained /\ r.auth = 0
        /\ r.segment = "none" /\ r.host = "none" /\ r.why = v
    <3>1. r \in Record(k)
      BY ONLY <2>1, <2>2, <2>3 DEF Record, Child
    <3> QED BY ONLY <2>2, <2>3, <3>1 DEF Record
  <2> QED BY <2>1, <2>4 DEF v, x
<1>a. q = IF r.started /\ (r.fence \/ ~Donor(k)!Proven(r.id)) THEN [r EXCEPT !.pending = TRUE, !.phase = "failed"]
          ELSE [r EXCEPT !.started = FALSE, !.fence = FALSE, !.pending = FALSE, !.held = FALSE,
                         !.phase = IF slot[s].pending THEN slot[s].why ELSE w, !.why = "closed"]
  BY DEF Donor!Freed, Donor!FenceLeft
<1>4. q = IF r.started /\ ~Donor(k)!Proven(r.id) THEN [r EXCEPT !.pending = TRUE, !.phase = "failed"]
          ELSE [r EXCEPT !.started = FALSE, !.fence = FALSE, !.pending = FALSE, !.held = FALSE, !.phase = r.why,
                         !.why = "closed"]
  <2> HIDE DEF r
  <2> QED BY ONLY <1>3, <1>a
<1>5. linger' \subseteq linger \cup HeldIds(k) /\ linger' \subseteq born
  <2>0. linger \subseteq born /\ (slot[s].started => slot[s].id \in born)
    BY <1>2 DEF SlotOk, DonorInv, LingerInv
  <2>1. Donor(k)!Running(slot[s].segment) \/ Donor(k)!Running(slot[s].host) => s \in Donor(k)!Held
    BY <1>2 DEF SlotOk, Donor!Held, Donor!Running
  <2>2. s \in Donor(k)!Held => slot[s].id \in HeldIds(k)
    BY DEF HeldIds
  <2>3. Donor(k)!Running(slot[s].segment) \/ Donor(k)!Running(slot[s].host) => slot[s].started
    BY <1>2 DEF SlotOk, Donor!Running
  <2> QED BY <2>0, <2>1, <2>2, <2>3 DEF Donor!Stopped
<1>6. ~slot[s].started /\ slot[s].held => slot[s].id \notin linger'
  <2> SUFFICES ASSUME ~slot[s].started, slot[s].held PROVE slot[s].id \notin linger'
    OBVIOUS
  <2>1. slot[s].id \notin linger
    BY <1>2 DEF SlotOk, Fresh, DonorInv, LingerInv
  <2>2. ~(Donor(k)!Running(slot[s].segment) \/ Donor(k)!Running(slot[s].host))
    BY <1>2 DEF SlotOk, Donor!Running
  <2> QED BY <2>1, <2>2 DEF Donor!Stopped
<1> HIDE DEF r
<1>7. CASE r.started /\ ~Donor(k)!Proven(r.id)
  <2>1. q = [r EXCEPT !.pending = TRUE, !.phase = "failed"] /\ slot[s].started /\ slot[s].held
    BY <1>3, <1>4, <1>7, <1>2 DEF SlotOk
  <2>2. /\ q \in Record(k) /\ q.id = r.id /\ q.client = r.client /\ (q.receipt <=> r.receipt) /\ q.phase = "failed"
        /\ q.segment = "none" /\ q.host = "none" /\ ~q.retained /\ q.auth = 0 /\ (q.held <=> r.held) /\
              (q.started <=> r.started)
    BY <1>3, <2>1 DEF Record, Child
  <2> QED BY <1>3, <1>5, <2>1, <2>2
<1>8. CASE ~(r.started /\ ~Donor(k)!Proven(r.id))
  <2>1. q = [r EXCEPT !.started = FALSE, !.fence = FALSE, !.pending = FALSE, !.held = FALSE, !.phase = r.why,
                      !.why = "closed"]
    BY <1>4, <1>8
  <2>2. /\ q \in Record(k) /\ q.id = r.id /\ q.client = r.client /\ (q.receipt <=> r.receipt) /\ q.phase = r.why
        /\ q.segment = "none" /\ q.host = "none" /\ ~q.retained /\ q.auth = 0 /\ ~q.held /\ ~q.started
    <3>1. q \in Record(k)
      BY ONLY <1>3, <2>1 DEF Record, Child
    <3> QED BY ONLY <1>3, <2>1, <3>1 DEF Record
  <2>3. slot[s].held => slot[s].id \notin linger'
    BY <1>6, <1>3, <1>8 DEF Donor!Proven
  <2> QED BY <1>3, <1>5, <2>2, <2>3
<1> QED BY <1>7, <1>8

\* An allocation that stays under its name, or gives up what it holds.
Yields(k, r, q) ==
    /\ q.id = r.id /\ (Donor(k)!Busy(q) => Donor(k)!Busy(r)) /\ (q.held => r.held)
    /\ q.held /\ q.auth # 0 => r.auth # 0
    /\ q.receipt => r.receipt \/ Donor(k)!Busy(r)

\* Slots that yield keep apart, and give back no more than has ended.
LEMMA Yielded ==
    ASSUME NEW k, DonorConstants(k), DonorInv(k), \A s \in Donor(k)!Slot : Yields(k, slot[s], slot'[s]),
           \A s \in Donor(k)!Slot : slot[s].held /\ ~slot'[s].held => slot[s].id \notin linger',
           linger' \subseteq linger \cup HeldIds(k), linger' \subseteq born',
              UNCHANGED <<keeper, pool, other, crashes>>, keeper,
           born \subseteq born', slot' \in [Donor(k)!Slot -> Record(k)]
    PROVE  /\ ApartInv(k)' /\ LingerInv(k)' /\ MemoryInv(k)'
           /\ (linger \cup HeldIds(k))' \subseteq linger \cup HeldIds(k)
           /\ Donor(k)!Held' \subseteq Donor(k)!Held
<1> USE DEF DonorInv
<1>1. Donor(k)!Held' \subseteq Donor(k)!Held /\ HeldIds(k)' \subseteq HeldIds(k)
  BY DEF Donor!Held, HeldIds, Yields
<1>2. ASSUME NEW i \in linger', i \in HeldIds(k) PROVE i \in HeldIds(k)'
  <2>1. PICK s \in Donor(k)!Held : slot[s].id = i
    BY <1>2 DEF HeldIds
  <2>2. slot'[s].held /\ slot'[s].id = i /\ s \in Donor(k)!Slot
    BY <2>1, <1>2 DEF Donor!Held, Yields
  <2> QED BY <2>2 DEF Donor!Held, HeldIds
<1>3. ApartInv(k)'
  <2>1. \A s, t \in Donor(k)!Slot : s # t /\ Donor(k)!Busy(slot'[s]) /\ Donor(k)!Busy(slot'[t]) =>
           slot'[s].id # slot'[t].id /\ ~Kind[k].hybrid[slot'[s].id]
    BY DEF ApartInv, Yields
  <2>2. \A s, t \in Donor(k)!Held' : slot'[s].auth # 0 /\ slot'[t].auth # 0 => s = t
    BY <1>1 DEF ApartInv, Yields, Donor!Held
  <2>3. \A s, t \in Donor(k)!Slot : s # t /\ slot'[s].receipt /\ Donor(k)!Busy(slot'[t]) =>
           slot'[s].id # slot'[t].id
    BY DEF ApartInv, Yields
  <2> QED BY <2>1, <2>2, <2>3 DEF ApartInv
<1>4. LingerInv(k)'
  <2>1. ASSUME NEW s \in Donor(k)!Slot, slot'[s].id \in linger' PROVE slot'[s].id \in HeldIds(k)'
    <3>1. slot'[s].id = slot[s].id
      BY DEF Yields
    <3>2. slot[s].id \in HeldIds(k)
      BY <2>1, <3>1 DEF LingerInv
    <3> QED BY <2>1, <3>1, <3>2, <1>2
  <2>2. crashes' = 0 => linger' \subseteq HeldIds(k)'
    BY <1>2 DEF LingerInv
  <2> QED BY <2>1, <2>2 DEF LingerInv
<1>5. linger' \ HeldIds(k)' \subseteq linger \ HeldIds(k)
  BY <1>2
<1>6. HeldIds(k) \subseteq DonorAlloc /\ linger \subseteq DonorAlloc
  BY DEF HeldIds, Donor!Held, SlotsInv, SlotOk, Donor!Busy, DonorType
<1>7. MemoryInv(k)'
  <2>1. /\ Donor(k)!Weight(HeldIds(k)') \in Nat /\ Donor(k)!Weight(HeldIds(k)) \in Nat
        /\ Donor(k)!Weight(HeldIds(k)') <= Donor(k)!Weight(HeldIds(k))
    BY <1>1, <1>6, WeightGrows
  <2>2. /\ Donor(k)!Weight(linger' \ HeldIds(k)') \in Nat /\ Donor(k)!Weight(linger \ HeldIds(k)) \in Nat
        /\ Donor(k)!Weight(linger' \ HeldIds(k)') <= Donor(k)!Weight(linger \ HeldIds(k))
    BY <1>5, <1>6, WeightGrows
  <2>3. pool \in Nat /\ DonorTotal \in Nat
    BY DEF DonorConstants, DonorType
  <2>4. /\ Donor(k)!Weight(HeldIds(k)') <= pool'
        /\ Donor(k)!Weight(HeldIds(k)') + Donor(k)!Weight(linger' \ HeldIds(k)') <= DonorTotal
        /\ keeper' => pool' + Donor(k)!Weight(linger' \ HeldIds(k)') <= DonorTotal
    BY ONLY <2>1, <2>2, <2>3, MemoryInv(k), keeper, keeper' = keeper, pool' = pool DEF MemoryInv
  <2>5. other' => Donor(k)!Held' = {}
    BY <1>1 DEF MemoryInv
  <2> QED BY <2>4, <2>5 DEF MemoryInv
<1> QED BY <1>1, <1>3, <1>4, <1>7

\* One slot moves, under the name it had: what stays true of all of them.
LEMMA OneMoves ==
    ASSUME NEW k, DonorConstants(k), DonorInv(k), keeper, NEW s \in Donor(k)!Slot, NEW q \in Record(k),
           slot' = [slot EXCEPT ![s] = q],
           Yields(k, slot[s], q), SlotOk(k, q)', slot[s].held /\ ~q.held => slot[s].id \notin linger',
           linger' \subseteq linger \cup HeldIds(k), linger' \subseteq born',
              UNCHANGED <<keeper, pool, other, crashes>>,
           born' = born \/ (Donor(k)!Busy(slot[s]) /\ born' = born \cup {slot[s].id})
    PROVE  /\ slot' \in [Donor(k)!Slot -> Record(k)] /\ linger' \subseteq DonorAlloc /\ born' \subseteq DonorAlloc
           /\ SlotsInv(k)' /\ ApartInv(k)' /\ LingerInv(k)' /\ MemoryInv(k)'
           /\ (linger \cup HeldIds(k))' \subseteq linger \cup HeldIds(k)
<1> USE DEF DonorInv
<1>1. \A t \in Donor(k)!Slot : slot'[t] = IF t = s THEN q ELSE slot[t]
  BY DEF DonorType
<1>2. slot' \in [Donor(k)!Slot -> Record(k)]
  BY DEF DonorType
<1>3. \A t \in Donor(k)!Slot : Yields(k, slot[t], slot'[t])
  BY <1>1 DEF Yields
<1>4. \A t \in Donor(k)!Slot : slot[t].held /\ ~slot'[t].held => slot[t].id \notin linger'
  BY <1>1
<1>5. born \subseteq born'
  OBVIOUS
<1>6. born' \subseteq DonorAlloc
  BY DEF DonorType, SlotsInv, SlotOk
<1>7. SlotsInv(k)'
  <2> SUFFICES ASSUME NEW t \in Donor(k)!Slot, t # s PROVE SlotOk(k, slot[t])'
    BY <1>1 DEF SlotsInv
  <2>1. slot'[t] = slot[t] /\ SlotOk(k, slot[t])
    BY <1>1 DEF SlotsInv
  <2>2. Fresh(slot[t]) => slot[t].id \notin born'
    <3>1. Fresh(slot[t]) => Donor(k)!Busy(slot[t]) /\ slot[t].id \notin born
      BY <2>1 DEF SlotOk, Fresh, Donor!Busy
    <3> QED BY <3>1 DEF ApartInv
  <2> QED BY <2>1, <2>2, <1>5 DEF SlotOk
<1>8. ApartInv(k)' /\ LingerInv(k)' /\ MemoryInv(k)' /\ (linger \cup HeldIds(k))' \subseteq linger \cup HeldIds(k)
  BY <1>2, <1>3, <1>4, <1>5, Yielded
<1> QED BY <1>2, <1>6, <1>7, <1>8

\* The rest of the keeper stands still meanwhile.
LEMMA OneStep ==
    ASSUME NEW k, DonorConstants(k), DonorInv(k), keeper, NEW s \in Donor(k)!Slot, NEW q \in Record(k),
           slot' = [slot EXCEPT ![s] = q],
           Yields(k, slot[s], q), SlotOk(k, q)', slot[s].held /\ ~q.held => slot[s].id \notin linger',
           linger' \subseteq linger \cup HeldIds(k), linger' \subseteq born',
              UNCHANGED <<keeper, pool, Donor(k)!told, Donor(k)!env, receipts>>,
           born' = born \/ (Donor(k)!Busy(slot[s]) /\ born' = born \cup {slot[s].id})
    PROVE  DonorInv(k)'
<1> USE DEF DonorInv, Donor!told, Donor!env
<1>1. /\ slot' \in [Donor(k)!Slot -> Record(k)] /\ linger' \subseteq DonorAlloc /\ born' \subseteq DonorAlloc
      /\ SlotsInv(k)' /\ ApartInv(k)' /\ LingerInv(k)' /\ MemoryInv(k)'
      /\ (linger \cup HeldIds(k))' \subseteq linger \cup HeldIds(k)
  BY OneMoves
<1>2. DonorType(k)'
  BY <1>1 DEF DonorType
<1>3. LedgerInv(k)'
  BY <1>1 DEF LedgerInv
<1> QED BY <1>1, <1>2, <1>3

\* What is given up or kept by a release is as it should be.
LEMMA GivesUp ==
    ASSUME NEW k, DonorConstants(k), DonorInv(k), keeper, NEW s \in Donor(k)!Slot, NEW w \in {"closed", "failed"},
           Donor(k)!Stopped(s),
           NEW q, q \in {Donor(k)!Freed(s, w), [Donor(k)!Freed(s, w) EXCEPT !.client = "no"]}, born \subseteq born'
    PROVE  /\ q \in Record(k) /\ Yields(k, slot[s], q) /\ SlotOk(k, q)' /\ (q.receipt => slot[s].receipt)
           /\ slot[s].held /\ ~q.held => slot[s].id \notin linger'
           /\ linger' \subseteq linger \cup HeldIds(k) /\ linger' \subseteq born'
           /\ ~Donor(k)!Busy(q) \/ q.held
<1> DEFINE f == Donor(k)!Freed(s, w)
<1> HIDE DEF f
<1>1. /\ f \in Record(k) /\ f.id = slot[s].id /\ f.client = slot[s].client /\ (f.receipt <=> slot[s].receipt)
      /\ f.phase \in {"closed", "failed"} /\ f.segment = "none" /\ f.host = "none"
      /\ ~f.retained /\ f.auth = 0
      /\ f.held => slot[s].held
      /\ f.started => slot[s].started /\ f.held
      /\ f.held => f.started
      /\ slot[s].held /\ ~f.held => slot[s].id \notin linger'
      /\ linger' \subseteq linger \cup HeldIds(k) /\ linger' \subseteq born
  BY FreedIs DEF f
<1>2. q = f \/ q = [f EXCEPT !.client = "no"]
  BY DEF f
<1>3. /\ q \in Record(k) /\ q.id = slot[s].id /\ (q.receipt <=> slot[s].receipt)
      /\ q.phase \in {"closed", "failed"} /\ q.segment = "none" /\ q.host = "none"
      /\ ~q.retained /\ q.auth = 0 /\ (q.held <=> f.held) /\ (q.started <=> f.started)
  <2>1. q \in Record(k)
    BY <1>1, <1>2 DEF Record
  <2> QED BY <1>1, <1>2, <2>1 DEF Record
<1>4. SlotOk(k, slot[s])
  BY DEF DonorInv, SlotsInv
<1>5. Yields(k, slot[s], q) /\ (~Donor(k)!Busy(q) \/ q.held)
  BY <1>1, <1>3 DEF Yields, Donor!Busy
<1>6. SlotOk(k, q)'
  BY <1>1, <1>3, <1>4 DEF SlotOk, Fresh, Donor!Busy
<1> QED BY <1>1, <1>3, <1>5, <1>6

\* home_donor_release and home_donor_disconnect.
LEMMA ReleaseStep ==
    ASSUME NEW k, DonorConstants(k), DonorInv(k), keeper, NEW s \in Donor(k)!Slot, NEW w \in {"closed", "failed"},
           Donor(k)!Release(s, w) \/ Donor(k)!Disconnect(s, w),
           UNCHANGED <<keeper, pool, Donor(k)!told, Donor(k)!env, receipts>>,
           born' = born \/ (Donor(k)!Busy(slot[s]) /\ born' = born \cup {slot[s].id})
    PROVE  DonorInv(k)'
<1>1. Donor(k)!Stopped(s)
  BY DEF Donor!Release, Donor!Disconnect
<1>2. PICK q : q \in {Donor(k)!Freed(s, w), [Donor(k)!Freed(s, w) EXCEPT !.client = "no"]} /\
         slot' = [slot EXCEPT ![s] = q]
  BY DEF Donor!Release, Donor!Disconnect
<1>3. born \subseteq born'
  OBVIOUS
<1> QED BY <1>1, <1>2, <1>3, GivesUp, OneStep

\* home_donor_lost_requester: what is prepared is kept, anything else given up.
LEMMA LostStep ==
    ASSUME NEW k, DonorConstants(k), DonorInv(k), keeper, NEW s \in Donor(k)!Slot, Donor(k)!Lost(s),
           UNCHANGED <<keeper, pool, Donor(k)!told, Donor(k)!env, receipts, born>>
    PROVE  DonorInv(k)'
<1>1. CASE ~Donor(k)!CanRetain(slot[s])
  BY <1>1, ReleaseStep DEF Donor!Lost
<1>2. CASE Donor(k)!CanRetain(slot[s])
  <2>1. slot[s] \in Record(k) /\ SlotOk(k, slot[s])
    BY DEF DonorInv, DonorType, SlotsInv
  <2>0. PICK q : q = [slot[s] EXCEPT !.retained = TRUE, !.client = "no"]
    OBVIOUS
  <2>2. q \in Record(k)
    BY <2>0, <2>1 DEF Record
  <2>3. /\ q.id = slot[s].id /\ (q.held <=> slot[s].held) /\ q.auth = slot[s].auth /\ q.phase = slot[s].phase
        /\ (q.started <=> slot[s].started) /\ (q.receipt <=> slot[s].receipt) /\ q.client = "no"
        /\ q.segment = slot[s].segment /\ q.host = slot[s].host
    BY <2>0, <2>1 DEF Record
  <2>4. slot' = [slot EXCEPT ![s] = q] /\ linger' = linger
    BY <1>2, <2>0, <2>1 DEF Donor!Lost, Donor!Retained, DonorInv, DonorType
  <2>5. Yields(k, slot[s], q)
    BY <2>3 DEF Yields, Donor!Busy
  <2>6. slot[s].held /\ slot[s].phase = (IF DonorEdge[slot[s].id] THEN "ready" ELSE "segment")
    BY <1>2, <2>1 DEF Donor!CanRetain, SlotOk
  <2>7. SlotOk(k, q)'
    BY <2>1, <2>3, <2>6 DEF SlotOk, Fresh, Donor!Busy
  <2>8. linger \subseteq born
    BY DEF DonorInv, LingerInv
  <2> QED BY <2>2, <2>3, <2>4, <2>5, <2>7, <2>8, OneStep
<1> QED BY <1>1, <1>2

\* home_donor_launch: the birth is written before its process runs.
LEMMA LaunchStep ==
    ASSUME NEW k, DonorConstants(k), DonorInv(k), keeper, NEW s \in Donor(k)!Slot,
           UNCHANGED <<keeper, pool, Donor(k)!told, Donor(k)!env>>,
           NEW c, NEW p, Donor(k)!Launch(s, c, p), slot[s].held, slot[s].client = "here",
           \/ c = "segment" /\ p = "loading"
           \/ c = "host" /\ p = "starting" /\ slot[s].phase = "segment" /\ DonorEdge[slot[s].id]
    PROVE  DonorInv(k)'
<1>1. slot[s] \in Record(k) /\ SlotOk(k, slot[s]) /\ Donor(k)!Busy(slot[s])
  BY DEF DonorInv, DonorType, SlotsInv, Donor!Busy
<1>2. CASE \/ /\ Donor(k)!Release(s, "failed")
              /\ \/ UNCHANGED Donor(k)!disk
                 \/ born' = born \cup {slot[s].id} /\ receipts' = receipts
           \/ Donor(k)!Stopped(s) /\ Donor(k)!Birth(s) /\ slot' = [slot EXCEPT ![s] = Donor(k)!Freed(s, "failed")]
  <2>1. receipts' = receipts /\ (born' = born \/ born' = born \cup {slot[s].id})
    BY <1>2 DEF Donor!Birth, Donor!disk
  <2>2. Donor(k)!Release(s, "failed")
    BY <1>2 DEF Donor!Release
  <2> QED BY <1>1, <2>1, <2>2, ReleaseStep
<1>3. CASE /\ slot' = [slot EXCEPT ![s] = [@ EXCEPT !.phase = p, ![c] = "load", !.started = TRUE, !.fence = TRUE]]
           /\ Donor(k)!Birth(s) /\ UNCHANGED linger
  <2>0. PICK q : q = [slot[s] EXCEPT !.phase = p, ![c] = "load", !.started = TRUE, !.fence = TRUE]
    OBVIOUS
  <2>1. q \in Record(k)
    BY <2>0, <1>1 DEF Record, Child
  <2>2. /\ q.id = slot[s].id /\ (q.held <=> slot[s].held) /\ q.auth = slot[s].auth /\ q.phase = p
        /\ q.started /\ (q.receipt <=> slot[s].receipt) /\ (q.retained <=> slot[s].retained)
    BY <2>0, <1>1 DEF Record
  <2>3. slot' = [slot EXCEPT ![s] = q]
    BY <2>0, <1>3, <1>1 DEF DonorInv, DonorType
  <2>4. /\ born' = born \/ born' = born \cup {slot[s].id}
        /\ slot[s].id \in born' /\ receipts' = receipts
    BY <1>1, <1>3 DEF Donor!Birth, SlotOk, Donor!disk
  <2>5. Yields(k, slot[s], q)
    BY <2>2, <1>1 DEF Yields, Donor!Busy
  <2>6. SlotOk(k, q)'
    BY <1>1, <2>2, <2>4 DEF SlotOk, Fresh, Donor!Busy
  <2>7. linger \subseteq born
    BY DEF DonorInv, LingerInv
  <2> QED BY <1>1, <1>3, <2>1, <2>2, <2>3, <2>4, <2>5, <2>6, <2>7, OneStep
<1> QED BY <1>2, <1>3 DEF Donor!Launch, Donor!CutShort

\* A slot whose allocation only changes what its engines and its requester do.
LEMMA FieldStep ==
    ASSUME NEW k, DonorConstants(k), DonorInv(k), keeper, NEW s \in Donor(k)!Slot, NEW q \in Record(k),
           slot' = [slot EXCEPT ![s] = q],
           q.id = slot[s].id, q.held <=> slot[s].held, q.started <=> slot[s].started, q.receipt <=> slot[s].receipt,
           q.auth = slot[s].auth, q.retained <=> slot[s].retained, q.retained => q.client = slot[s].client,
           q.retained => q.phase = slot[s].phase,
           Donor(k)!Busy(q) => Donor(k)!Busy(slot[s]), q.phase = "pending" => slot[s].phase = "pending",
           q.segment # "none" \/ q.host # "none" => slot[s].started,
           q.phase \in {"loading", "segment", "starting", "ready"} => slot[s].started,
           q.phase \in {"starting", "ready"} => slot[s].phase \in {"starting", "ready"},
           linger' = linger \/ (slot[s].started /\ linger' = linger \cup {slot[s].id}),
           UNCHANGED <<keeper, pool, Donor(k)!told, Donor(k)!env, receipts, born>>
    PROVE  DonorInv(k)'
<1>1. SlotOk(k, slot[s])
  BY DEF DonorInv, SlotsInv
<1>2. Yields(k, slot[s], q)
  BY DEF Yields
<1>3. SlotOk(k, q)'
  BY <1>1 DEF SlotOk, Fresh, Donor!Busy
<1>4. linger' \subseteq linger \cup HeldIds(k)
  BY <1>1 DEF SlotOk, HeldIds, Donor!Held
<1>5. linger' \subseteq born'
  BY <1>1 DEF SlotOk, DonorInv, LingerInv
<1> QED BY <1>2, <1>3, <1>4, <1>5, OneStep

\* home_donor_message.
LEMMA MessageStep ==
    ASSUME NEW k, DonorConstants(k), DonorInv(k), NEW s \in Donor(k)!Slot,
           NEW m \in {"routes", "commit", "start", "detach", "cancel"}, Donor(k)!Message(s, m)
    PROVE  DonorInv(k)'
<1>1. keeper /\ UNCHANGED <<keeper, pool, Donor(k)!told, Donor(k)!env>> /\ slot[s].client = "here"
  BY DEF Donor!Message
<1>2. slot[s] \in Record(k) /\ SlotOk(k, slot[s])
  BY DEF DonorInv, DonorType, SlotsInv
<1>3. UNCHANGED Donor(k)!disk => UNCHANGED <<receipts, born>>
  BY DEF Donor!disk
<1>4. CASE Donor(k)!Lost(s) /\ UNCHANGED Donor(k)!disk
  BY <1>1, <1>3, <1>4, LostStep
<1>5. CASE (Donor(k)!Release(s, "closed") \/ Donor(k)!Release(s, "failed")) /\ UNCHANGED Donor(k)!disk
  BY <1>1, <1>3, <1>5, ReleaseStep
<1>6. CASE slot' = [slot EXCEPT ![s].routed = TRUE] /\ UNCHANGED <<linger, Donor(k)!disk>>
  <2>0. PICK q : q = [slot[s] EXCEPT !.routed = TRUE]
    OBVIOUS
  <2>1. q \in Record(k)
    BY <2>0, <1>2 DEF Record
  <2>2. slot' = [slot EXCEPT ![s] = q]
    BY <2>0, <1>6 DEF DonorInv, DonorType
  <2>3. /\ q.id = slot[s].id /\ (q.held <=> slot[s].held) /\ (q.started <=> slot[s].started)
        /\ (q.receipt <=> slot[s].receipt) /\ q.auth = slot[s].auth /\ (q.retained <=> slot[s].retained)
        /\ q.client = slot[s].client /\ q.phase = slot[s].phase /\ q.segment = slot[s].segment
        /\ q.host = slot[s].host
    BY <2>0, <1>2 DEF Record
  <2>4. Donor(k)!Busy(q) => Donor(k)!Busy(slot[s])
    BY <2>3 DEF Donor!Busy
  <2>5. /\ q.segment # "none" \/ q.host # "none" => slot[s].started
        /\ q.phase \in {"loading", "segment", "starting", "ready"} => slot[s].started
    BY <2>3, <1>2 DEF SlotOk
  <2>6. linger' = linger /\ UNCHANGED <<receipts, born>>
    BY <1>3, <1>6
  <2>7. keeper /\ UNCHANGED <<keeper, pool, Donor(k)!told, Donor(k)!env, receipts, born>>
    BY <1>1, <2>6
  <2> QED BY <2>1, <2>2, <2>3, <2>4, <2>5, <2>6, <2>7, FieldStep
<1>7. CASE slot[s].held /\ Donor(k)!Launch(s, "segment", "loading")
  BY <1>1, <1>7, LaunchStep
<1>8. CASE slot[s].phase = "segment" /\ DonorEdge[slot[s].id] /\ Donor(k)!Launch(s, "host", "starting")
  <2>1. slot[s].held
    BY <1>2, <1>8 DEF SlotOk
  <2> QED BY <1>1, <1>8, <2>1, LaunchStep
<1>a. CASE m = "routes"
  <2>1. \/ slot' = [slot EXCEPT ![s].routed = TRUE] /\ UNCHANGED <<linger, Donor(k)!disk>>
        \/ Donor(k)!Lost(s) /\ UNCHANGED Donor(k)!disk
    BY <1>a DEF Donor!Message
  <2> QED BY <2>1, <1>4, <1>6
<1>b. CASE m = "commit"
  <2>1. \/ Donor(k)!Release(s, "failed") /\ UNCHANGED Donor(k)!disk
        \/ slot[s].held /\ Donor(k)!Launch(s, "segment", "loading")
        \/ Donor(k)!Lost(s) /\ UNCHANGED Donor(k)!disk
    BY <1>b DEF Donor!Message
  <2> QED BY <2>1, <1>4, <1>5, <1>7
<1>c. CASE m = "start"
  <2>1. \/ slot[s].phase = "segment" /\ DonorEdge[slot[s].id] /\ Donor(k)!Launch(s, "host", "starting")
        \/ Donor(k)!Lost(s) /\ UNCHANGED Donor(k)!disk
    BY <1>c DEF Donor!Message
  <2> QED BY <2>1, <1>4, <1>8
<1>d. CASE m = "detach"
  BY <1>d, <1>4 DEF Donor!Message
<1>e. CASE m = "cancel"
  BY <1>e, <1>5 DEF Donor!Message
<1> QED BY <1>a, <1>b, <1>c, <1>d, <1>e

\* Engines load, are ready and end; requesters leave.
LEMMA EngineStep ==
    ASSUME NEW k, DonorConstants(k), DonorInv(k), keeper, NEW s \in Donor(k)!Slot, Donor(k)!Engine(s) \/
           Donor(k)!Ready(s)
    PROVE  DonorInv(k)'
<1>1. slot[s] \in Record(k) /\ SlotOk(k, slot[s])
  BY DEF DonorInv, DonorType, SlotsInv
<1>2. UNCHANGED <<keeper, pool, Donor(k)!told, Donor(k)!env, receipts, born>>
  BY DEF Donor!Engine, Donor!Ready, Donor!disk
<1>3. PICK q : /\ slot' = [slot EXCEPT ![s] = q]
               /\ \/ /\ \E c \in {"segment", "host"} : Donor(k)!Running(slot[s][c]) /\
                           q = [slot[s] EXCEPT ![c] = "up"]
                     /\ linger' = linger
                  \/ /\ \E c \in {"segment", "host"} : Donor(k)!Running(slot[s][c]) /\
                           q = [slot[s] EXCEPT ![c] = "dead"]
                     /\ linger' = linger \/ linger' = linger \cup {slot[s].id}
                  \/ slot[s].phase = "loading" /\ q = [slot[s] EXCEPT !.phase = "segment"] /\ linger' = linger
                  \/ slot[s].phase = "starting" /\ q = [slot[s] EXCEPT !.phase = "ready"] /\ linger' = linger
  BY <1>1 DEF Donor!Engine, Donor!Ready, Donor!Running, DonorInv, DonorType
<1>4. /\ q \in Record(k)
      /\ q.id = slot[s].id /\ (q.held <=> slot[s].held) /\ (q.started <=> slot[s].started)
      /\ (q.receipt <=> slot[s].receipt) /\ q.auth = slot[s].auth /\ (q.retained <=> slot[s].retained)
      /\ q.client = slot[s].client
      /\ q.segment # "none" => slot[s].segment # "none"
      /\ q.host # "none" => slot[s].host # "none"
      /\ q.phase = slot[s].phase \/ (slot[s].phase = "loading" /\ q.phase = "segment")
                                 \/ (slot[s].phase = "starting" /\ q.phase = "ready")
  BY <1>1, <1>3 DEF Record, Child, Donor!Running
<1>5. slot[s].retained => slot[s].phase \in {"ready", "segment"}
  BY <1>1 DEF SlotOk
<1>6. /\ Donor(k)!Busy(q) => Donor(k)!Busy(slot[s])
      /\ q.segment # "none" \/ q.host # "none" => slot[s].started
      /\ q.phase \in {"loading", "segment", "starting", "ready"} => slot[s].started
  BY <1>1, <1>4 DEF SlotOk, Donor!Busy
<1>7. linger' = linger \/ (slot[s].started /\ linger' = linger \cup {slot[s].id})
  BY <1>1, <1>3 DEF SlotOk, Donor!Running
<1> QED BY <1>2, <1>3, <1>4, <1>5, <1>6, <1>7, FieldStep

\* A requester leaves, or says nothing more.
LEMMA VanishStep ==
    ASSUME NEW k, DonorConstants(k), DonorInv(k), keeper, NEW s \in Donor(k)!Slot, NEW h \in {"eof", "silent"},
           Donor(k)!Vanish(s, h)
    PROVE  DonorInv(k)'
<1>1. slot[s] \in Record(k) /\ SlotOk(k, slot[s]) /\ slot[s].client = "here"
  BY DEF DonorInv, DonorType, SlotsInv, Donor!Vanish
<1>2. UNCHANGED <<keeper, pool, Donor(k)!told, Donor(k)!env, receipts, born, linger>>
  BY DEF Donor!Vanish, Donor!disk
<1>3. PICK q : q = [slot[s] EXCEPT !.client = h] /\ slot' = [slot EXCEPT ![s] = q]
  BY <1>1 DEF Donor!Vanish, DonorInv, DonorType
<1>4. /\ q \in Record(k)
      /\ q.id = slot[s].id /\ (q.held <=> slot[s].held) /\ (q.started <=> slot[s].started)
      /\ (q.receipt <=> slot[s].receipt) /\ q.auth = slot[s].auth /\ (q.retained <=> slot[s].retained)
      /\ q.phase = slot[s].phase /\ q.segment = slot[s].segment /\ q.host = slot[s].host
  BY <1>1, <1>3 DEF Record
<1>5. ~slot[s].retained
  BY <1>1 DEF SlotOk
<1>6. /\ Donor(k)!Busy(q) => Donor(k)!Busy(slot[s])
      /\ q.segment # "none" \/ q.host # "none" => slot[s].started
      /\ q.phase \in {"loading", "segment", "starting", "ready"} => slot[s].started
  BY <1>1, <1>4 DEF SlotOk, Donor!Busy
<1> QED BY <1>2, <1>3, <1>4, <1>5, <1>6, FieldStep

\* The first of some numbers is one of them.
LEMMA LeastOf ==
    ASSUME NEW S \in SUBSET Nat, S # {}
    PROVE  (CHOOSE s \in S : \A t \in S : s <= t) \in S
<1> DEFINE R == {ss \in Nat \X Nat : ss[1] < ss[2]}
<1>1. IsWellFoundedOn(R, Nat)
  BY NatLessThanWellFounded DEF OpToRel
<1>3. \E p \in S : \A q \in S : <<q, p>> \notin R
  <2> HIDE DEF R
  <2> QED BY <1>1, WFMin
<1>4. PICK p \in S : \A q \in S : <<q, p>> \notin R
  BY <1>3
<1>5. ASSUME NEW q \in S PROVE p <= q
  <2>1. q \in Nat /\ p \in Nat /\ ~(q < p)
    BY <1>4
  <2> QED BY <2>1
<1> QED BY <1>5

\* A new allocation on view, of a name nobody used.
NewOffer(k, r) ==
    /\ r \in Record(k) /\ SlotOk(k, r) /\ ~r.held /\ ~r.receipt /\ r.id \notin born
    /\ \A s \in Donor(k)!Slot : Donor(k)!Busy(slot[s]) => slot[s].id # r.id /\ ~Kind[k].hybrid[r.id] /\
          ~Kind[k].hybrid[slot[s].id]
    /\ \A s \in Donor(k)!Slot : slot[s].receipt => slot[s].id # r.id

\* Allocations that change places, and one that may come on view: what is held
\* stays held.
LEMMA PlacesStep ==
    ASSUME NEW k, DonorConstants(k), DonorInv(k), slot' \in [Donor(k)!Slot -> Record(k)],
           NEW p \in [Donor(k)!Slot -> Donor(k)!Slot],
           \A s, t \in Donor(k)!Slot : p[s] = p[t] => s = t,
           \A t \in Donor(k)!Slot : slot'[t] = slot[p[t]] \/ (t = 0 /\ NewOffer(k, slot'[0])),
           \A s \in Donor(k)!Held : \E t \in Donor(k)!Slot : p[t] = s /\ slot'[t] = slot[s],
           keeper, UNCHANGED <<keeper, pool, linger, born, receipts, Donor(k)!told, Donor(k)!env>>
    PROVE  DonorInv(k)'
<1> USE DEF DonorInv, Donor!told, Donor!env
<1>1. HeldIds(k)' = HeldIds(k) /\ (Donor(k)!Held = {} => Donor(k)!Held' = {})
  <2>1. ASSUME NEW t \in Donor(k)!Held' PROVE \E s \in Donor(k)!Held : slot[s].id = slot'[t].id
    BY DEF Donor!Held, NewOffer
  <2>2. ASSUME NEW s \in Donor(k)!Held PROVE \E t \in Donor(k)!Held' : slot'[t].id = slot[s].id
    BY DEF Donor!Held
  <2> QED BY <2>1, <2>2 DEF HeldIds
<1>2. DonorType(k)'
  BY DEF DonorType
<1>3. SlotsInv(k)'
  <2> SUFFICES ASSUME NEW t \in Donor(k)!Slot PROVE SlotOk(k, slot'[t])
    BY DEF SlotsInv, SlotOk, Fresh, Donor!Busy
  <2> QED BY DEF SlotsInv, NewOffer
<1>4. ApartInv(k)'
  <2>1. ASSUME NEW s \in Donor(k)!Slot, NEW t \in Donor(k)!Slot, s # t, Donor(k)!Busy(slot'[s]),
               Donor(k)!Busy(slot'[t])
        PROVE  slot'[s].id # slot'[t].id /\ ~Kind[k].hybrid[slot'[s].id]
    <3>1. CASE slot'[s] = slot[p[s]] /\ slot'[t] = slot[p[t]]
      BY <2>1, <3>1 DEF ApartInv
    <3>0. p[s] \in Donor(k)!Slot /\ p[t] \in Donor(k)!Slot
      OBVIOUS
    <3>2. CASE s = 0 /\ NewOffer(k, slot'[0]) /\ slot'[t] = slot[p[t]]
      <4>1. \A u \in Donor(k)!Slot : Donor(k)!Busy(slot[u]) =>
               slot[u].id # slot'[0].id /\ ~Kind[k].hybrid[slot'[0].id] /\ ~Kind[k].hybrid[slot[u].id]
        BY <3>2 DEF NewOffer
      <4>2. Donor(k)!Busy(slot[p[t]])
        BY ONLY <2>1, <3>2
      <4> QED BY ONLY <3>0, <3>2, <4>1, <4>2
    <3>3. CASE t = 0 /\ NewOffer(k, slot'[0]) /\ slot'[s] = slot[p[s]]
      <4>1. \A u \in Donor(k)!Slot : Donor(k)!Busy(slot[u]) =>
               slot[u].id # slot'[0].id /\ ~Kind[k].hybrid[slot'[0].id] /\ ~Kind[k].hybrid[slot[u].id]
        BY <3>3 DEF NewOffer
      <4>2. Donor(k)!Busy(slot[p[s]])
        BY ONLY <2>1, <3>3
      <4> QED BY ONLY <3>0, <3>3, <4>1, <4>2
    <3> QED BY <2>1, <3>1, <3>2, <3>3
  <2>2. \A s, t \in Donor(k)!Held' : slot'[s].auth # 0 /\ slot'[t].auth # 0 => s = t
    <3>1. ASSUME NEW s \in Donor(k)!Held'
          PROVE  s \in Donor(k)!Slot /\ slot'[s] = slot[p[s]] /\ p[s] \in Donor(k)!Held
      BY DEF Donor!Held, NewOffer
    <3> QED BY <3>1 DEF ApartInv
  <2>3. ASSUME NEW s \in Donor(k)!Slot, NEW t \in Donor(k)!Slot, s # t, slot'[s].receipt, Donor(k)!Busy(slot'[t])
        PROVE  slot'[s].id # slot'[t].id
    <3>1. slot'[s] = slot[p[s]]
      BY <2>3 DEF NewOffer
    <3>2. CASE slot'[t] = slot[p[t]]
      BY <2>3, <3>1, <3>2 DEF ApartInv
    <3>3. CASE NewOffer(k, slot'[t])
      BY <2>3, <3>1, <3>3 DEF NewOffer
    <3> QED BY <3>2, <3>3
  <2> QED BY <2>1, <2>2, <2>3 DEF ApartInv, Donor!Busy
<1>5. LingerInv(k)'
  BY <1>1 DEF LingerInv, NewOffer
<1>6. LedgerInv(k)'
  BY <1>1 DEF LedgerInv
<1>7. MemoryInv(k)'
  BY <1>1 DEF MemoryInv, Donor!Weight
<1> QED BY <1>2, <1>3, <1>4, <1>5, <1>6, <1>7

\* The next model to look at.
LEMMA NextModelStep ==
    ASSUME NEW k, DonorConstants(k), DonorInv(k), NEW s \in Donor(k)!Parked, Donor(k)!NextModel(s)
    PROVE  DonorInv(k)'
<1> DEFINE p == [t \in Donor(k)!Slot |-> IF t = 0 THEN s ELSE IF t = s THEN 0 ELSE t]
<1>1. s \in Donor(k)!Slot /\ 0 \in Donor(k)!Slot /\ s # 0
  BY DEF Donor!Parked, Donor!Slot, DonorConstants
<1>2. p \in [Donor(k)!Slot -> Donor(k)!Slot] /\ (\A t, u \in Donor(k)!Slot : p[t] = p[u] => t = u)
      /\ (\A t \in Donor(k)!Slot : \E u \in Donor(k)!Slot : p[u] = t)
  BY <1>1
<1>3. slot \in [Donor(k)!Slot -> Record(k)]
  BY DEF DonorInv, DonorType
<1>4. slot' = [slot EXCEPT ![0] = slot[s], ![s] = slot[0]] /\ keeper
  BY DEF Donor!NextModel, Donor!Swapped
<1>5. slot' \in [Donor(k)!Slot -> Record(k)] /\ \A t \in Donor(k)!Slot : slot'[t] = slot[p[t]]
  BY <1>1, <1>3, <1>4
<1>6. UNCHANGED <<keeper, pool, linger, born, receipts, Donor(k)!told, Donor(k)!env>>
  BY DEF Donor!NextModel, Donor!disk
<1> HIDE DEF p
<1>7. \A h \in Donor(k)!Held : \E t \in Donor(k)!Slot : p[t] = h /\ slot'[t] = slot[h]
  BY <1>2, <1>5 DEF Donor!Held
<1> QED BY <1>2, <1>4, <1>5, <1>6, <1>7, PlacesStep

\* home_donor_offer.
LEMMA OfferStep ==
    ASSUME NEW k, DonorConstants(k), DonorInv(k), NEW i \in DonorAlloc, Donor(k)!Offer(i) PROVE DonorInv(k)'
<1> DEFINE e == [Donor(k)!Empty EXCEPT !.id = i, !.phase = "pending", !.client = "here"]
<1>1. slot \in [Donor(k)!Slot -> Record(k)] /\ 0 \in Donor(k)!Slot /\ Donor(k)!Parked \subseteq Donor(k)!Slot /\
         0 \notin Donor(k)!Parked
  BY DEF DonorInv, DonorType, Donor!Slot, Donor!Parked, DonorConstants
<1>2. PICK now : /\ now = slot \/ (\E s \in Donor(k)!Parked : ~slot[s].held /\ now = Donor(k)!Swapped(s))
                 /\ ~now[0].held /\ slot' = [now EXCEPT ![0] = e]
  <2> DEFINE parks == slot[0].retained /\ Donor(k)!Available # {}
             first == CHOOSE s \in Donor(k)!Available : \A t \in Donor(k)!Available : s <= t
             now == IF parks THEN Donor(k)!Swapped(first) ELSE slot
  <2>1. ~now[0].held /\ slot' = [now EXCEPT ![0] = e]
    BY DEF Donor!Offer, Donor!Offered
  <2>2. CASE ~parks
    BY <2>1, <2>2
  <2>3. CASE parks
    <3>1. Donor(k)!Available \in SUBSET Nat /\ Donor(k)!Available # {}
      BY <2>3 DEF Donor!Available, Donor!Parked, DonorConstants
    <3>2. first \in Donor(k)!Available
      BY <3>1, LeastOf
    <3>3. first \in Donor(k)!Parked /\ ~slot[first].held
      BY <3>2 DEF Donor!Available
    <3> HIDE DEF first
    <3> QED BY <2>1, <2>3, <3>3
  <2> QED BY <2>2, <2>3
<1>3. now \in [Donor(k)!Slot -> Record(k)] /\ \E p \in [Donor(k)!Slot -> Donor(k)!Slot] :
         /\ \A t, u \in Donor(k)!Slot : p[t] = p[u] => t = u
         /\ \A t \in Donor(k)!Slot : now[t] = slot[p[t]]
         /\ \A t \in Donor(k)!Slot : \E u \in Donor(k)!Slot : p[u] = t
  <2>1. CASE now = slot
    <3> DEFINE p == [t \in Donor(k)!Slot |-> t]
    <3>1. p \in [Donor(k)!Slot -> Donor(k)!Slot] /\ \A t \in Donor(k)!Slot : p[t] = t
      OBVIOUS
    <3> HIDE DEF p
    <3> QED BY <2>1, <3>1, <1>1
  <2>2. ASSUME NEW s \in Donor(k)!Parked, now = Donor(k)!Swapped(s)
        PROVE  now \in [Donor(k)!Slot -> Record(k)] /\ \E p \in [Donor(k)!Slot -> Donor(k)!Slot] :
                  /\ \A t, u \in Donor(k)!Slot : p[t] = p[u] => t = u
                  /\ \A t \in Donor(k)!Slot : now[t] = slot[p[t]]
                  /\ \A t \in Donor(k)!Slot : \E u \in Donor(k)!Slot : p[u] = t
    <3> DEFINE p == [t \in Donor(k)!Slot |-> IF t = 0 THEN s ELSE IF t = s THEN 0 ELSE t]
    <3>1. p \in [Donor(k)!Slot -> Donor(k)!Slot] /\ (\A t, u \in Donor(k)!Slot : p[t] = p[u] => t = u)
          /\ (\A t \in Donor(k)!Slot : \E u \in Donor(k)!Slot : p[u] = t)
      BY <1>1
    <3>2. now = [slot EXCEPT ![0] = slot[s], ![s] = slot[0]] /\ s \in Donor(k)!Slot
      BY <2>2, <1>1 DEF Donor!Swapped
    <3>3. now \in [Donor(k)!Slot -> Record(k)] /\ \A t \in Donor(k)!Slot : now[t] = slot[p[t]]
      BY <1>1, <3>2
    <3> HIDE DEF p
    <3> QED BY <3>1, <3>3
  <2> QED BY <1>2, <2>1, <2>2
<1>4. PICK p \in [Donor(k)!Slot -> Donor(k)!Slot] :
         /\ \A t, u \in Donor(k)!Slot : p[t] = p[u] => t = u
         /\ \A t \in Donor(k)!Slot : now[t] = slot[p[t]]
         /\ \A t \in Donor(k)!Slot : \E u \in Donor(k)!Slot : p[u] = t
  BY <1>3
<1>5. /\ e \in Record(k) /\ e.id = i /\ e.phase = "pending" /\ ~e.held /\ ~e.receipt /\ ~e.started /\ ~e.retained
      /\ e.segment = "none" /\ e.host = "none"
  BY DEF Donor!Empty, Record, Child
<1> HIDE DEF e
<1>6. slot' \in [Donor(k)!Slot -> Record(k)] /\ slot'[0] = e /\ \A t \in Donor(k)!Slot : t # 0 => slot'[t] = now[t]
  BY <1>1, <1>2, <1>3, <1>5
<1>7. i \notin born /\ ~Donor(k)!Clashes(i) /\ keeper /\
         UNCHANGED <<keeper, pool, linger, born, receipts, Donor(k)!told, Donor(k)!env>>
  BY DEF Donor!Offer, Donor!Offered, Donor!Unused, Donor!disk
<1>8. NewOffer(k, e)
  <2>1. SlotOk(k, e)
    BY <1>5, <1>7 DEF SlotOk, Fresh, Donor!Busy
  <2>2. \A s \in Donor(k)!Slot : slot[s].receipt => slot[s].id # i
    BY <1>7 DEF DonorInv, SlotsInv, SlotOk
  <2> QED BY <1>5, <1>7, <2>1, <2>2 DEF NewOffer, Donor!Clashes
<1>9. \A s \in Donor(k)!Held : \E t \in Donor(k)!Slot : p[t] = s /\ slot'[t] = slot[s]
  BY <1>2, <1>4, <1>6 DEF Donor!Held
<1> QED BY <1>1, <1>4, <1>6, <1>7, <1>8, <1>9, PlacesStep

\* lmb_home_decide: what is accepted fits into what the pool has left, on a
\* machine that is ours or free.
LEMMA DonorAcceptStep ==
    ASSUME NEW k, DonorConstants(k), DonorInv(k), keeper, slot[0].phase = "pending", Donor(k)!Fits,
           NEW a \in {0, policy}, a # 0 => Donor(k)!Allowed,
           slot' = [slot EXCEPT ![0] = [@ EXCEPT !.held = TRUE, !.phase = "accepted", !.auth = a]],
           UNCHANGED <<keeper, pool, linger, born, receipts, Donor(k)!told, Donor(k)!env>>
    PROVE  DonorInv(k)'
<1> USE DEF DonorInv, Donor!told, Donor!env
<1> DEFINE i == slot[0].id
<1>0. 0 \in Donor(k)!Slot /\ slot \in [Donor(k)!Slot -> Record(k)] /\ a \in Nat
  BY DEF DonorType, Donor!Slot, DonorConstants
<1>1. slot[0] \in Record(k) /\ SlotOk(k, slot[0])
  BY <1>0 DEF SlotsInv
<1>2. PICK q : q = [slot[0] EXCEPT !.held = TRUE, !.phase = "accepted", !.auth = a] /\
         slot' = [slot EXCEPT ![0] = q]
  BY <1>0
<1>3. /\ q \in Record(k) /\ q.id = i /\ q.held /\ q.phase = "accepted" /\ q.auth = a /\
            (q.started <=> slot[0].started)
      /\ (q.receipt <=> slot[0].receipt) /\ (q.retained <=> slot[0].retained)
      /\ q.segment = slot[0].segment /\ q.host = slot[0].host
  <2>1. slot[0] \in Record(k) /\ a \in Nat /\ q = [slot[0] EXCEPT !.held = TRUE, !.phase = "accepted", !.auth = a]
    BY <1>0, <1>1, <1>2
  <2>2. q \in Record(k)
    BY ONLY <2>1 DEF Record
  <2> QED BY ONLY <2>1, <2>2 DEF Record
<1>4. /\ i \in DonorAlloc /\ ~slot[0].held /\ ~slot[0].started /\ ~slot[0].retained /\ i \notin born
      /\ ~slot[0].receipt
      /\ Donor(k)!Busy(slot[0])
  BY <1>1 DEF SlotOk, Donor!Busy, Fresh
<1>5. slot' \in [Donor(k)!Slot -> Record(k)] /\ \A t \in Donor(k)!Slot : slot'[t] = IF t = 0 THEN q ELSE slot[t]
  BY <1>0, <1>2, <1>3
<1>6. HeldIds(k)' = HeldIds(k) \cup {i} /\ Donor(k)!Held' = Donor(k)!Held \cup {0} /\
         HeldIds(k) \subseteq DonorAlloc
  <2>1. Donor(k)!Held' = Donor(k)!Held \cup {0}
    BY <1>0, <1>3, <1>5 DEF Donor!Held
  <2>2. \A t \in Donor(k)!Held : t # 0 /\ t \in Donor(k)!Slot
    BY <1>4 DEF Donor!Held
  <2>3. HeldIds(k) \subseteq DonorAlloc
    BY <2>2 DEF HeldIds, Donor!Held, SlotsInv, SlotOk, Donor!Busy
  <2> QED BY <2>1, <2>2, <2>3, <1>0, <1>3, <1>5 DEF HeldIds
<1>7. i \notin HeldIds(k) /\ i \notin linger
  BY <1>0, <1>4 DEF HeldIds, Donor!Held, ApartInv, LingerInv, Donor!Busy
<1>8. DonorType(k)'
  BY <1>5 DEF DonorType
<1>9. SlotsInv(k)'
  <2>1. SlotOk(k, q)'
    BY <1>1, <1>3, <1>4 DEF SlotOk, Fresh, Donor!Busy, Donor!Allowed
  <2>2. \A t \in Donor(k)!Slot : SlotOk(k, slot[t])
    BY DEF SlotsInv
  <2> QED BY <2>1, <2>2, <1>5 DEF SlotsInv, SlotOk, Fresh, Donor!Busy
<1>a. ApartInv(k)'
  <2>1. \A s, t \in Donor(k)!Slot : s # t /\ Donor(k)!Busy(slot'[s]) /\ Donor(k)!Busy(slot'[t]) =>
           slot'[s].id # slot'[t].id /\ ~Kind[k].hybrid[slot'[s].id]
    BY <1>0, <1>3, <1>4, <1>5 DEF ApartInv, Donor!Busy
  <2>2. \A s, t \in Donor(k)!Held' : slot'[s].auth # 0 /\ slot'[t].auth # 0 => s = t
    <3>1. ASSUME a # 0, NEW t \in Donor(k)!Held, slot[t].auth # 0 PROVE FALSE
      BY <3>1 DEF Donor!Allowed, Donor!Held, SlotsInv, SlotOk
    <3>2. \A t \in Donor(k)!Held : t # 0 /\ slot'[t] = slot[t] /\ t \in Donor(k)!Slot
      BY <1>4, <1>5 DEF Donor!Held
    <3> QED BY <1>0, <1>3, <1>5, <1>6, <3>1, <3>2 DEF ApartInv
  <2>3. \A s, t \in Donor(k)!Slot : s # t /\ slot'[s].receipt /\ Donor(k)!Busy(slot'[t]) =>
           slot'[s].id # slot'[t].id
    BY <1>0, <1>3, <1>4, <1>5 DEF ApartInv, Donor!Busy
  <2> QED BY <2>1, <2>2, <2>3 DEF ApartInv
<1>b. LingerInv(k)'
  BY <1>3, <1>5, <1>6, <1>7 DEF LingerInv
<1>c. LedgerInv(k)'
  BY <1>4, <1>6 DEF LedgerInv
<1>d. MemoryInv(k)'
  <2>1. Donor(k)!Reserved = Donor(k)!Weight(HeldIds(k))
    <3>1. \A s \in Donor(k)!Held : s \in Donor(k)!Slot /\ slot[s].id \in DonorAlloc
      BY DEF Donor!Held, SlotsInv, SlotOk, Donor!Busy
    <3>2. \A s, t \in Donor(k)!Held : slot[s].id = slot[t].id => s = t
      BY DEF Donor!Held, ApartInv, Donor!Busy
    <3> QED BY <3>1, <3>2, ClaimedIsWeight DEF Donor!Reserved, HeldIds, Donor!Held
  <2>2. Donor(k)!Weight(HeldIds(k) \cup {i}) = Donor(k)!Weight(HeldIds(k)) + DonorRam[i] /\
           Donor(k)!Weight(HeldIds(k)) \in Nat /\ DonorRam[i] \in Nat
    <3>1. {i} \subseteq DonorAlloc /\ HeldIds(k) \cap {i} = {}
      BY <1>4, <1>7
    <3>2. Donor(k)!Weight(HeldIds(k) \cup {i}) = Donor(k)!Weight(HeldIds(k)) + Donor(k)!Weight({i})
      BY <3>1, <1>6, WeightAdds
    <3>3. Donor(k)!Weight({i}) = DonorRam[i] /\ DonorRam[i] \in Nat
      BY <1>4, WeightOne DEF DonorConstants
    <3>4. Donor(k)!Weight(HeldIds(k)) \in Nat
      BY <1>6, WeightGrows
    <3> QED BY <3>2, <3>3, <3>4
  <2>3. DonorRam[i] <= pool - Donor(k)!Weight(HeldIds(k))
    <3> DEFINE own == pool - Donor(k)!Weight(HeldIds(k))
               rest == DonorTotal - Donor(k)!InUse - Donor(k)!Loading
    <3>1. DonorRam[i] <= IF own < rest THEN own ELSE rest
      BY <2>1 DEF Donor!Fits, Donor!Room
    <3>2. own \in Int
      BY <2>2 DEF DonorType
    <3>3. rest \in Int
      <4>1. linger \cup {slot[s].id : s \in {t \in Donor(k)!Slot : slot[t].segment = "up"}} \subseteq DonorAlloc
        BY DEF SlotsInv, SlotOk, Donor!Busy, DonorType
      <4>2. Donor(k)!InUse \in Nat
        BY <4>1, WeightGrows DEF Donor!InUse
      <4>3. Donor(k)!Loading \in Nat
        <5> DEFINE L == {s \in Donor(k)!Held : ~slot[s].retained}
        <5>1. L \subseteq Donor(k)!Slot /\ \A s \in L : slot[s].id \in DonorAlloc
          BY DEF Donor!Held, SlotsInv, SlotOk, Donor!Busy
        <5>2. \A s, t \in L : slot[s].id = slot[t].id => s = t
          BY DEF Donor!Held, ApartInv, Donor!Busy
        <5>3. Donor(k)!Claimed(L) = Donor(k)!Weight({slot[s].id : s \in L})
          BY <5>1, <5>2, ClaimedIsWeight
        <5>4. Donor(k)!Weight({slot[s].id : s \in L}) \in Nat
          BY <5>1, WeightGrows
        <5> QED BY <5>3, <5>4 DEF Donor!Loading
      <4> QED BY <4>2, <4>3 DEF DonorConstants
    <3> HIDE DEF own, rest
    <3>4. DonorRam[i] <= own
      BY <3>1, <3>2, <3>3, <2>2
    <3> QED BY <3>4 DEF own
  <2>4. linger' \ HeldIds(k)' = linger \ HeldIds(k)
    BY <1>6, <1>7
  <2>5. Donor(k)!Weight(linger \ HeldIds(k)) \in Nat /\ pool \in Nat /\ DonorTotal \in Nat
    BY WeightGrows DEF DonorType, DonorConstants
  <2>6. Donor(k)!Weight(HeldIds(k))' = Donor(k)!Weight(HeldIds(k)) + DonorRam[i] /\
           Donor(k)!Weight(linger \ HeldIds(k))' = Donor(k)!Weight(linger \ HeldIds(k))
    BY <1>6, <2>2, <2>4 DEF Donor!Weight
  <2>7. /\ Donor(k)!Weight(HeldIds(k))' <= pool'
        /\ Donor(k)!Weight(HeldIds(k))' + Donor(k)!Weight(linger \ HeldIds(k))' <= DonorTotal
        /\ keeper' => pool' + Donor(k)!Weight(linger \ HeldIds(k))' <= DonorTotal
    <3>1. pool + Donor(k)!Weight(linger \ HeldIds(k)) <= DonorTotal
      BY DEF MemoryInv
    <3> QED BY <2>2, <2>3, <2>5, <2>6, <3>1
  <2>8. ~other
    BY DEF Donor!Fits, MemoryInv
  <2> QED BY <2>7, <2>8 DEF MemoryInv
<1> QED BY <1>8, <1>9, <1>a, <1>b, <1>c, <1>d

\* The owner's answer, or the policy's.
LEMMA DecideStep ==
    ASSUME NEW k, DonorConstants(k), DonorInv(k), NEW a \in {0, policy}, Donor(k)!Decide(a) PROVE DonorInv(k)'
<1>1. keeper /\ slot[0].phase = "pending" /\ (a # 0 => Donor(k)!Allowed) /\
         UNCHANGED <<keeper, pool, born, receipts, Donor(k)!told, Donor(k)!env>>
  BY DEF Donor!Decide, Donor!disk
<1>2. 0 \in Donor(k)!Slot /\ slot \in [Donor(k)!Slot -> Record(k)] /\ slot[0] \in Record(k) /\ SlotOk(k, slot[0])
  BY DEF DonorInv, DonorType, SlotsInv, Donor!Slot, DonorConstants
<1>3. CASE /\ Donor(k)!Fits /\ UNCHANGED linger
           /\ slot' = [slot EXCEPT ![0] = [@ EXCEPT !.held = TRUE, !.phase = "accepted", !.auth = a]]
  BY <1>1, <1>3, DonorAcceptStep
<1>4. CASE Donor(k)!Release(0, "failed")
  BY <1>1, <1>2, <1>4, ReleaseStep
<1>5. CASE slot' = [slot EXCEPT ![0].phase = "rejected"] /\ UNCHANGED linger
  <2>1. PICK q : q = [slot[0] EXCEPT !.phase = "rejected"] /\ slot' = [slot EXCEPT ![0] = q]
    BY <1>2, <1>5
  <2>2. /\ q \in Record(k)
        /\ q.id = slot[0].id /\ (q.held <=> slot[0].held) /\ (q.started <=> slot[0].started)
        /\ (q.receipt <=> slot[0].receipt) /\ q.auth = slot[0].auth /\ (q.retained <=> slot[0].retained)
        /\ q.phase = "rejected" /\ q.segment = slot[0].segment /\ q.host = slot[0].host
    BY <1>2, <2>1 DEF Record
  <2>3. ~slot[0].retained /\ Donor(k)!Busy(slot[0])
    BY <1>1, <1>2 DEF SlotOk, Donor!Busy
  <2>4. q.segment # "none" \/ q.host # "none" => slot[0].started
    BY <1>2, <2>2 DEF SlotOk
  <2> QED BY <1>1, <1>2, <1>5, <2>1, <2>2, <2>3, <2>4, FieldStep
<1> QED BY <1>3, <1>4, <1>5 DEF Donor!Decide

\* What gives an allocation up: a requester that is gone, an offer nobody
\* answered, a child that ended, a release tried again, the owner's unload and
\* the requester's own release.
LEMMA GiveUpStep ==
    ASSUME NEW k, DonorConstants(k), DonorInv(k), NEW s \in Donor(k)!Slot,
           \/ Donor(k)!Gone(s) \/ Donor(k)!Retry(s) \/ Donor(k)!Reap(s) \/
                 (s = 0 /\ (Donor(k)!Undecided \/ Donor(k)!Unload))
           \/ (\E i \in DonorAlloc : s \in Donor(k)!Target(i) /\ keeper /\ Donor(k)!Disconnect(s, "closed")
                                    /\ UNCHANGED <<keeper, pool, Donor(k)!disk, node_sealed, Donor(k)!told,
                                          Donor(k)!env>>)
    PROVE  DonorInv(k)'
<1>1. keeper /\ UNCHANGED <<keeper, pool, Donor(k)!told, Donor(k)!env, receipts, born>>
  BY DEF Donor!Gone, Donor!Retry, Donor!Reap, Donor!Undecided, Donor!Unload, Donor!disk
<1>2. slot[s].why \in {"closed", "failed"}
  BY DEF DonorInv, DonorType, Record
<1>3. CASE Donor(k)!Lost(s)
  BY <1>1, <1>3, LostStep
<1>4. CASE \E w \in {"closed", "failed"} : Donor(k)!Release(s, w) \/ Donor(k)!Disconnect(s, w)
  BY <1>1, <1>4, ReleaseStep
<1> QED BY <1>2, <1>3, <1>4 DEF Donor!Gone, Donor!Retry, Donor!Reap, Donor!Undecided, Donor!Unload

\* Steps that leave the allocations of this keeper as they are.
LEMMA QuietStep ==
    ASSUME NEW k, DonorConstants(k), DonorInv(k),
           \/ \E s \in Donor(k)!Slot : Donor(k)!Seal(s)
           \/ Donor(k)!PolicyChange \/ Donor(k)!Lease
    PROVE  DonorInv(k)'
<1> USE DEF DonorInv, Donor!told, Donor!env, Donor!disk
<1>1. /\ UNCHANGED <<slot, keeper, pool, linger, born, receipts, acked, proved, crashes>>
      /\ policy' \in Nat /\ other' \in BOOLEAN /\ (other' => other \/ Donor(k)!Held = {})
  <2>1. CASE \E s \in Donor(k)!Slot : Donor(k)!Seal(s)
    BY <2>1 DEF Donor!Seal, DonorType
  <2>2. CASE Donor(k)!PolicyChange
    BY <2>2 DEF Donor!PolicyChange, DonorType
  <2>3. CASE Donor(k)!Lease
    <3>1. /\ UNCHANGED <<slot, keeper, pool, linger, born, receipts, acked, proved, crashes, policy>>
          /\ other' = ~other /\ (~other => Donor(k)!Held = {})
      BY <2>3 DEF Donor!Lease
    <3>2. other' \in BOOLEAN
      BY <3>1
    <3>3. other' => Donor(k)!Held = {}
      BY <3>1
    <3> QED BY <3>1, <3>2, <3>3 DEF DonorType
  <2> QED BY <2>1, <2>2, <2>3
<1>2. Donor(k)!Held' = Donor(k)!Held /\ HeldIds(k)' = HeldIds(k)
  BY <1>1 DEF Donor!Held, HeldIds
<1>3. DonorType(k)'
  BY <1>1 DEF DonorType
<1>4. SlotsInv(k)' /\ ApartInv(k)'
  BY <1>1, <1>2 DEF SlotsInv, SlotOk, Fresh, Donor!Busy, ApartInv
<1>5. LingerInv(k)' /\ LedgerInv(k)'
  BY <1>1, <1>2 DEF LingerInv, LedgerInv
<1>6. MemoryInv(k)'
  BY <1>1, <1>2 DEF MemoryInv, Donor!Weight
<1> QED BY <1>3, <1>4, <1>5, <1>6

\* A process that outlived its child's kill ends.
LEMMA DiesStep ==
    ASSUME NEW k, DonorConstants(k), DonorInv(k), NEW i \in DonorAlloc, Donor(k)!Dies(i) PROVE DonorInv(k)'
<1> USE DEF DonorInv, Donor!told, Donor!env, Donor!disk
<1>1. UNCHANGED <<slot, keeper, pool, born, receipts, acked, proved, policy, other, crashes>> /\
         linger' \subseteq linger
  BY DEF Donor!Dies
<1>2. Donor(k)!Held' = Donor(k)!Held /\ HeldIds(k)' = HeldIds(k)
  BY <1>1 DEF Donor!Held, HeldIds
<1>3. DonorType(k)' /\ SlotsInv(k)' /\ ApartInv(k)'
  BY <1>1, <1>2 DEF DonorType, SlotsInv, SlotOk, Fresh, Donor!Busy, ApartInv
<1>4. LingerInv(k)' /\ LedgerInv(k)'
  BY <1>1, <1>2 DEF LingerInv, LedgerInv
<1>5. MemoryInv(k)'
  <2>1. HeldIds(k) \subseteq DonorAlloc
    BY DEF HeldIds, Donor!Held, SlotsInv, SlotOk, Donor!Busy
  <2>2. /\ Donor(k)!Weight(linger' \ HeldIds(k)) \in Nat /\ Donor(k)!Weight(linger \ HeldIds(k)) \in Nat
        /\ Donor(k)!Weight(linger' \ HeldIds(k)) <= Donor(k)!Weight(linger \ HeldIds(k))
    <3>1. linger \ HeldIds(k) \in SUBSET DonorAlloc /\ linger' \ HeldIds(k) \in SUBSET (linger \ HeldIds(k))
      BY <1>1 DEF DonorType
    <3> QED BY <3>1, WeightGrows
  <2>3. Donor(k)!Weight(HeldIds(k)) \in Nat /\ pool \in Nat /\ DonorTotal \in Nat
    BY <2>1, WeightGrows DEF DonorType, DonorConstants
  <2>4. Donor(k)!Weight(HeldIds(k))' = Donor(k)!Weight(HeldIds(k)) /\
           Donor(k)!Weight(linger \ HeldIds(k))' = Donor(k)!Weight(linger' \ HeldIds(k))
    BY <1>2 DEF Donor!Weight
  <2>5. /\ Donor(k)!Weight(HeldIds(k))' <= pool'
        /\ Donor(k)!Weight(HeldIds(k))' + Donor(k)!Weight(linger \ HeldIds(k))' <= DonorTotal
        /\ keeper' => pool' + Donor(k)!Weight(linger \ HeldIds(k))' <= DonorTotal
    BY <1>1, <2>2, <2>3, <2>4 DEF MemoryInv
  <2> QED BY <2>5, <1>1, <1>2 DEF MemoryInv
<1> QED BY <1>3, <1>4, <1>5

\* A keeper that dies leaves living processes behind, and their memory taken.
LEMMA CrashStep ==
    ASSUME NEW k, DonorConstants(k), DonorInv(k), Donor(k)!Crash PROVE DonorInv(k)'
<1> USE DEF DonorInv, Donor!told, Donor!env, Donor!disk
<1>1. /\ UNCHANGED <<pool, born, receipts, acked, proved, other>> /\ ~keeper' /\ crashes' \in Nat /\ crashes' # 0
      /\ policy' \in Nat /\ slot' = [s \in Donor(k)!Slot |-> Donor(k)!Empty]
  BY DEF Donor!Crash, DonorType
<1>2. linger' \subseteq linger \cup HeldIds(k)
  <2>1. ASSUME NEW s \in Donor(k)!Slot, Donor(k)!Running(slot[s].segment) \/ Donor(k)!Running(slot[s].host)
        PROVE  s \in Donor(k)!Held
    BY <2>1 DEF SlotsInv, SlotOk, Donor!Running, Donor!Held
  <2> QED BY <2>1 DEF Donor!Crash, HeldIds
<1>4. HeldIds(k) \subseteq DonorAlloc /\ linger' \subseteq DonorAlloc /\ linger' \subseteq born
  <2>1. ASSUME NEW s \in Donor(k)!Slot, Donor(k)!Running(slot[s].segment) \/ Donor(k)!Running(slot[s].host)
        PROVE  slot[s].id \in born
    BY <2>1 DEF SlotsInv, SlotOk, Donor!Running
  <2>2. linger' \subseteq born
    BY <2>1 DEF Donor!Crash, LingerInv
  <2>3. HeldIds(k) \subseteq DonorAlloc
    BY DEF HeldIds, Donor!Held, SlotsInv, SlotOk, Donor!Busy
  <2> QED BY <2>2, <2>3 DEF DonorType
<1>5. /\ Donor(k)!Empty \in Record(k) /\ Donor(k)!Empty.id = Donor(k)!NoAlloc /\ ~Donor(k)!Empty.held
      /\ ~Donor(k)!Empty.receipt /\ ~Donor(k)!Empty.started /\ ~Donor(k)!Empty.retained
      /\ Donor(k)!Empty.phase = "idle" /\ Donor(k)!Empty.segment = "none" /\ Donor(k)!Empty.host = "none"
  BY DEF Donor!Empty, Record, Child
<1>6. Donor(k)!Held' = {} /\ HeldIds(k)' = {}
  <2>1. \A s \in Donor(k)!Slot : slot'[s] = Donor(k)!Empty
    BY <1>1
  <2>2. Donor(k)!Held' = {}
    BY <2>1, <1>5 DEF Donor!Held
  <2> QED BY <2>2 DEF HeldIds
<1>7. DonorType(k)'
  <2>1. slot' \in [Donor(k)!Slot -> Record(k)]
    BY <1>1, <1>5
  <2>2. keeper' \in BOOLEAN /\ other' \in BOOLEAN
    BY <1>1 DEF Donor!Crash, DonorType
  <2> QED BY <1>1, <1>4, <2>1, <2>2 DEF DonorType
<1>8. SlotsInv(k)' /\ ApartInv(k)'
  <2>1. \A s \in Donor(k)!Slot : slot'[s] = Donor(k)!Empty
    BY <1>1
  <2>2. SlotsInv(k)'
    BY <2>1, <1>5 DEF SlotsInv, SlotOk, Fresh, Donor!Busy
  <2>3. ApartInv(k)'
    BY <2>1, <1>5, <1>6 DEF ApartInv, Donor!Busy
  <2> QED BY <2>2, <2>3
<1>9. LingerInv(k)'
  <2>1. \A s \in Donor(k)!Slot : slot'[s].id \notin linger'
    BY <1>1, <1>4, <1>5 DEF DonorConstants
  <2> QED BY <1>1, <1>4, <2>1 DEF LingerInv
<1>a. LedgerInv(k)'
  BY <1>1, <1>2, <1>6 DEF LedgerInv
<1>b. MemoryInv(k)'
  <2>1. Donor(k)!Weight(HeldIds(k))' = 0
    BY <1>6, WeightNone DEF Donor!Weight
  <2>2. Donor(k)!Weight(linger \ HeldIds(k))' = Donor(k)!Weight(linger')
    BY <1>6 DEF Donor!Weight
  <2>3. /\ Donor(k)!Weight(HeldIds(k)) \in Nat /\ Donor(k)!Weight(linger \ HeldIds(k)) \in Nat
        /\ Donor(k)!Weight(HeldIds(k) \cup (linger \ HeldIds(k))) = Donor(k)!Weight(HeldIds(k)) + Donor(k)!Weight(linger \ HeldIds(k))
    BY <1>4, WeightGrows, WeightAdds DEF DonorType
  <2>4. /\ Donor(k)!Weight(linger') \in Nat
        /\ Donor(k)!Weight(linger') <= Donor(k)!Weight(HeldIds(k) \cup (linger \ HeldIds(k)))
    <3>1. HeldIds(k) \cup (linger \ HeldIds(k)) \in SUBSET DonorAlloc /\
             linger' \in SUBSET (HeldIds(k) \cup (linger \ HeldIds(k)))
      BY <1>2, <1>4 DEF DonorType
    <3> QED BY <3>1, WeightGrows
  <2>5. Donor(k)!Weight(HeldIds(k))' <= pool' /\
           Donor(k)!Weight(HeldIds(k))' + Donor(k)!Weight(linger \ HeldIds(k))' <= DonorTotal
    BY <1>1, <2>1, <2>2, <2>3, <2>4 DEF MemoryInv, DonorType, DonorConstants
  <2> QED BY <2>5, <1>1, <1>6 DEF MemoryInv
<1> QED BY <1>7, <1>8, <1>9, <1>a, <1>b

\* A new keeper takes what the processes of the old one leave.
LEMMA RestartStep ==
    ASSUME NEW k, DonorConstants(k), DonorInv(k), Donor(k)!Restart PROVE DonorInv(k)'
<1> USE DEF DonorInv, Donor!told, Donor!env, Donor!disk
<1>1. UNCHANGED <<slot, linger, born, receipts, acked, proved, policy, other, crashes>> /\ keeper' = TRUE /\ ~keeper
      /\ pool' = DonorTotal - Donor(k)!Weight(linger)
  BY DEF Donor!Restart
<1>2. Donor(k)!Held = {} /\ HeldIds(k) = {} /\ Donor(k)!Held' = {} /\ HeldIds(k)' = {}
  BY <1>1 DEF MemoryInv, Donor!Held, HeldIds, Donor!Empty
<1>3. Donor(k)!Weight(linger) \in Nat /\ Donor(k)!Weight(linger) <= DonorTotal /\ DonorTotal \in Nat
  <2>1. Donor(k)!Weight(HeldIds(k)) = 0 /\ linger \ HeldIds(k) = linger
    BY <1>2, WeightNone
  <2>2. Donor(k)!Weight(linger) \in Nat
    BY WeightGrows DEF DonorType
  <2> QED BY <2>1, <2>2 DEF MemoryInv, DonorConstants
<1>4. DonorType(k)'
  BY <1>1, <1>3 DEF DonorType
<1>5. SlotsInv(k)' /\ ApartInv(k)'
  BY <1>1, <1>2 DEF SlotsInv, SlotOk, Fresh, Donor!Busy, ApartInv
<1>6. LingerInv(k)' /\ LedgerInv(k)'
  BY <1>1, <1>2 DEF LingerInv, LedgerInv
<1>7. MemoryInv(k)'
  <2>1. Donor(k)!Weight(HeldIds(k))' = 0
    BY <1>2, WeightNone DEF Donor!Weight
  <2>2. Donor(k)!Weight(linger \ HeldIds(k))' = Donor(k)!Weight(linger)
    BY <1>1, <1>2 DEF Donor!Weight
  <2>3. /\ Donor(k)!Weight(HeldIds(k))' <= pool'
        /\ Donor(k)!Weight(HeldIds(k))' + Donor(k)!Weight(linger \ HeldIds(k))' <= DonorTotal
        /\ pool' + Donor(k)!Weight(linger \ HeldIds(k))' <= DonorTotal
    BY <1>1, <1>3, <2>1, <2>2
  <2> QED BY <2>3, <1>1, <1>2 DEF MemoryInv
<1> QED BY <1>4, <1>5, <1>6, <1>7

\* home_retired_reply: a finished record answers for a release of the past.
LEMMA RetiredReplyStep ==
    ASSUME NEW k, DonorConstants(k), DonorInv(k), NEW i \in DonorAlloc, Donor(k)!RetiredReply(i) PROVE DonorInv(k)'
<1> USE DEF DonorInv, Donor!told, Donor!env, Donor!disk
<1>1. /\ keeper /\ UNCHANGED <<keeper, pool, linger, born, receipts, proved, policy, other, crashes>>
      /\ receipts[i] = "done" /\ acked' = acked \cup {i}
      /\ slot' = [s \in Donor(k)!Slot |-> IF slot[s].id = i THEN [slot[s] EXCEPT !.receipt = FALSE] ELSE slot[s]]
  BY DEF Donor!RetiredReply
<1>2. acked' = acked
  BY <1>1 DEF LedgerInv
<1>3. ASSUME NEW s \in Donor(k)!Slot
      PROVE  /\ slot'[s] \in Record(k) /\ slot'[s].id = slot[s].id /\ (slot'[s].held <=> slot[s].held)
             /\ (slot'[s].started <=> slot[s].started) /\ slot'[s].auth = slot[s].auth /\
                   slot'[s].phase = slot[s].phase
             /\ (slot'[s].retained <=> slot[s].retained) /\ slot'[s].client = slot[s].client
             /\ slot'[s].segment = slot[s].segment /\ slot'[s].host = slot[s].host
             /\ slot'[s].receipt => slot[s].receipt
  <2>1. slot[s] \in Record(k)
    BY DEF DonorType
  <2>2. CASE slot[s].id = i
    <3>1. PICK q : q = [slot[s] EXCEPT !.receipt = FALSE] /\ slot'[s] = q
      BY <1>1, <2>2
    <3>2. /\ q \in Record(k) /\ q.id = slot[s].id /\ (q.held <=> slot[s].held)
          /\ (q.started <=> slot[s].started) /\ q.auth = slot[s].auth /\ q.phase = slot[s].phase
          /\ (q.retained <=> slot[s].retained) /\ q.client = slot[s].client
          /\ q.segment = slot[s].segment /\ q.host = slot[s].host /\ ~q.receipt
      BY <2>1, <3>1 DEF Record
    <3> QED BY <3>1, <3>2
  <2>3. CASE slot[s].id # i
    <3>1. slot'[s] = slot[s]
      BY <1>1, <2>3
    <3> QED BY <2>1, <3>1
  <2> QED BY <2>2, <2>3
<1>4. \A s \in Donor(k)!Slot : Yields(k, slot[s], slot'[s])
  BY <1>3 DEF Yields, Donor!Busy
<1>5. slot' \in [Donor(k)!Slot -> Record(k)]
  BY <1>1, <1>3
<1>6. linger' \subseteq linger \cup HeldIds(k) /\ linger' \subseteq born'
  BY <1>1 DEF LingerInv
<1>7. ApartInv(k)' /\ LingerInv(k)' /\ MemoryInv(k)' /\ (linger \cup HeldIds(k))' \subseteq linger \cup HeldIds(k)
  BY <1>1, <1>3, <1>4, <1>5, <1>6, Yielded
<1>8. DonorType(k)'
  BY <1>1, <1>2, <1>5 DEF DonorType
<1>9. SlotsInv(k)'
  BY <1>1, <1>3 DEF SlotsInv, SlotOk, Fresh, Donor!Busy
<1>a. LedgerInv(k)'
  BY <1>1, <1>2, <1>7 DEF LedgerInv
<1> QED BY <1>7, <1>8, <1>9, <1>a

\* home_lifetime_reply: only the lock of the birth answers, and whoever is told
\* that its processes have exited can rely on it.
LEMMA ExitProofStep ==
    ASSUME NEW k, DonorConstants(k), DonorInv(k), NEW i \in DonorAlloc, Donor(k)!ExitProof(i) PROVE DonorInv(k)'
<1> USE DEF DonorInv, Donor!told, Donor!env, Donor!disk
<1>1. /\ keeper /\ UNCHANGED <<keeper, pool, born, receipts, acked, policy, other, crashes>>
      /\ i \in born /\ i \notin linger' /\ proved' = proved \cup {i}
      /\ \A s \in Donor(k)!Slot : slot'[s].id = i => ~slot'[s].held
      /\ UNCHANGED <<slot, linger>> \/ \E s \in Donor(k)!Slot : Donor(k)!Release(s, slot[s].why)
  BY DEF Donor!ExitProof, Donor!Proven, Donor!Target
<1>2. i \notin HeldIds(k)'
  BY <1>1 DEF HeldIds, Donor!Held
<1>3. /\ slot' \in [Donor(k)!Slot -> Record(k)] /\ linger' \subseteq DonorAlloc
      /\ SlotsInv(k)' /\ ApartInv(k)' /\ LingerInv(k)' /\ MemoryInv(k)'
      /\ (linger \cup HeldIds(k))' \subseteq linger \cup HeldIds(k)
  <2>1. CASE UNCHANGED <<slot, linger>>
    <3>1. Donor(k)!Held' = Donor(k)!Held /\ HeldIds(k)' = HeldIds(k)
      BY <2>1 DEF Donor!Held, HeldIds
    <3>2. SlotsInv(k)' /\ ApartInv(k)' /\ LingerInv(k)' /\ MemoryInv(k)'
      BY <1>1, <2>1, <3>1 DEF SlotsInv, SlotOk, Fresh, Donor!Busy, ApartInv, LingerInv, MemoryInv, Donor!Weight
    <3> QED BY <2>1, <3>1, <3>2 DEF DonorType
  <2>2. ASSUME NEW s \in Donor(k)!Slot, Donor(k)!Release(s, slot[s].why)
        PROVE  /\ slot' \in [Donor(k)!Slot -> Record(k)] /\ linger' \subseteq DonorAlloc
               /\ SlotsInv(k)' /\ ApartInv(k)' /\ LingerInv(k)' /\ MemoryInv(k)'
               /\ (linger \cup HeldIds(k))' \subseteq linger \cup HeldIds(k)
    <3>1. slot[s].why \in {"closed", "failed"}
      BY DEF DonorType, Record
    <3>2. PICK q : q = Donor(k)!Freed(s, slot[s].why) /\ slot' = [slot EXCEPT ![s] = q] /\ Donor(k)!Stopped(s)
      BY <2>2 DEF Donor!Release
    <3>3. /\ q \in Record(k) /\ Yields(k, slot[s], q) /\ SlotOk(k, q)'
          /\ slot[s].held /\ ~q.held => slot[s].id \notin linger'
          /\ linger' \subseteq linger \cup HeldIds(k) /\ linger' \subseteq born'
      BY <1>1, <3>1, <3>2, GivesUp
    <3> QED BY <1>1, <3>2, <3>3, OneMoves
  <2> QED BY <1>1, <2>1, <2>2
<1>4. DonorType(k)'
  <2>1. proved' \subseteq DonorAlloc
    BY <1>1 DEF DonorType
  <2> QED BY <1>1, <1>3, <2>1 DEF DonorType
<1>5. LedgerInv(k)'
  BY <1>1, <1>2, <1>3 DEF LedgerInv
<1> QED BY <1>3, <1>4, <1>5

\* home_donor_retired_release: a release is acknowledged when nothing of the
\* allocation runs and nothing of it is held.
LEMMA RetiredReleaseStep ==
    ASSUME NEW k, DonorConstants(k), DonorInv(k), NEW s \in Donor(k)!Slot, Donor(k)!RetiredRelease(s)
    PROVE  DonorInv(k)'
<1> USE DEF DonorInv, Donor!told, Donor!env, Donor!disk
<1> DEFINE i == slot[s].id
<1>0. slot[s] \in Record(k) /\ SlotOk(k, slot[s])
  BY DEF DonorType, SlotsInv
<1>1. keeper /\ i # Donor(k)!NoAlloc /\ i \in DonorAlloc /\ Donor(k)!Evidence(s) /\
         UNCHANGED <<keeper, pool, born, proved, policy, other, crashes>>
  BY <1>0 DEF Donor!RetiredRelease, Record
<1>2. PICK r :
      /\ \/ slot[s].phase = "closed" /\ UNCHANGED linger /\ r = slot[s]
         \/ slot[s].phase # "closed" /\ Donor(k)!Stopped(s) /\
               r = [Donor(k)!Freed(s, "closed") EXCEPT !.client = "no"]
      /\ \/ /\ slot' = [slot EXCEPT ![s] = [r EXCEPT !.receipt = TRUE]]
            /\ receipts' = [receipts EXCEPT ![i] = "prepared"] /\ acked' = acked /\ receipts[i] # "done"
         \/ /\ ~r.held /\ slot' = [slot EXCEPT ![s] = [r EXCEPT !.receipt = FALSE]]
            /\ receipts' = [receipts EXCEPT ![i] = "done"] /\ acked' = acked \cup {i}
  BY DEF Donor!RetiredRelease
<1>3. /\ r \in Record(k) /\ Yields(k, slot[s], r) /\ SlotOk(k, r)' /\ i \in born /\
            (slot[s].receipt \/ Donor(k)!Busy(slot[s]))
      /\ slot[s].held /\ ~r.held => i \notin linger'
      /\ linger' \subseteq linger \cup HeldIds(k) /\ linger' \subseteq born'
  <2>1. CASE slot[s].phase = "closed" /\ UNCHANGED linger /\ r = slot[s]
    <3>1. slot[s].receipt /\ ~slot[s].held
      BY <1>1, <2>1 DEF Donor!Evidence, Donor!Over
    <3>2. SlotOk(k, r)' /\ Yields(k, slot[s], r)
      BY <1>0, <1>1, <2>1 DEF SlotOk, Fresh, Donor!Busy, Yields
    <3> QED BY <1>0, <1>1, <2>1, <3>1, <3>2 DEF SlotOk, LingerInv
  <2>2. CASE slot[s].phase # "closed" /\ Donor(k)!Stopped(s) /\
           r = [Donor(k)!Freed(s, "closed") EXCEPT !.client = "no"]
    <3>1. slot[s].segment = "up"
      BY <1>1, <2>2 DEF Donor!Evidence
    <3>2. slot[s].started /\ slot[s].held /\ i \in born
      BY <1>0, <3>1 DEF SlotOk
    <3>3. /\ r \in Record(k) /\ Yields(k, slot[s], r) /\ SlotOk(k, r)'
          /\ slot[s].held /\ ~r.held => slot[s].id \notin linger'
          /\ linger' \subseteq linger \cup HeldIds(k) /\ linger' \subseteq born'
      BY <1>1, <2>2, GivesUp
    <3> QED BY <3>2, <3>3 DEF Donor!Busy
  <2> QED BY <1>2, <2>1, <2>2
<1>d. PICK b \in BOOLEAN : slot' = [slot EXCEPT ![s] = [r EXCEPT !.receipt = b]]
  BY <1>2
<1>4. PICK q : q = [r EXCEPT !.receipt = b] /\ slot' = [slot EXCEPT ![s] = q]
  BY <1>d
<1>5. /\ q \in Record(k) /\ q.id = r.id /\ (q.held <=> r.held) /\ (q.started <=> r.started) /\ q.auth = r.auth
      /\ q.phase = r.phase /\ (q.retained <=> r.retained) /\ q.client = r.client
      /\ q.segment = r.segment /\ q.host = r.host /\ (q.receipt <=> b)
  BY <1>3, <1>4 DEF Record
<1>6. Yields(k, slot[s], q) /\ SlotOk(k, q)'
  <2>1. r.id = i
    BY <1>3 DEF Yields
  <2>2. Yields(k, slot[s], q)
    BY <1>3, <1>5 DEF Yields, Donor!Busy
  <2>3. born' = born
    BY <1>1
  <2> QED BY <1>3, <1>5, <2>1, <2>2, <2>3 DEF SlotOk, Fresh, Donor!Busy
<1>7. slot[s].held /\ ~q.held => slot[s].id \notin linger'
  BY <1>3, <1>5
<1>8. /\ slot' \in [Donor(k)!Slot -> Record(k)] /\ linger' \subseteq DonorAlloc
      /\ SlotsInv(k)' /\ ApartInv(k)' /\ LingerInv(k)' /\ MemoryInv(k)'
      /\ (linger \cup HeldIds(k))' \subseteq linger \cup HeldIds(k)
  BY <1>1, <1>3, <1>4, <1>5, <1>6, <1>7, OneMoves
<1>9. ~q.held => i \notin linger' /\ i \notin HeldIds(k)'
  <2> SUFFICES ASSUME ~q.held PROVE i \notin linger' /\ i \notin HeldIds(k)'
    OBVIOUS
  <2>1. \A t \in Donor(k)!Slot : slot'[t] = IF t = s THEN q ELSE slot[t]
    BY <1>4 DEF DonorType
  <2>2. \A t \in Donor(k)!Slot : t # s /\ slot[t].held => slot[t].id # i
    BY <1>3 DEF ApartInv, Donor!Busy
  <2>3. i \notin HeldIds(k)'
    BY <2>1, <2>2 DEF HeldIds, Donor!Held
  <2>4. slot'[s].id = i
    BY <2>1, <1>6 DEF Yields
  <2> QED BY <2>3, <2>4, <1>8 DEF LingerInv
<1>a. /\ receipts' \in [DonorAlloc -> {"none", "prepared", "done"}] /\ acked' \subseteq DonorAlloc
      /\ \A j \in DonorAlloc : receipts'[j] # "none" => j \in born
      /\ \A j \in DonorAlloc : receipts'[j] = "done" => j \in acked'
      /\ \/ acked' = acked
         \/ ~r.held /\ acked' = acked \cup {i}
  <2>1. receipts \in [DonorAlloc -> {"none", "prepared", "done"}] /\ acked \subseteq DonorAlloc
    BY DEF DonorType
  <2>2. receipts' = [receipts EXCEPT ![i] = "prepared"] \/ receipts' = [receipts EXCEPT ![i] = "done"]
    BY <1>2
  <2>3. receipts'[i] = "done" => i \in acked'
    BY <1>1, <1>2, <2>1
  <2>4. acked \subseteq acked'
    BY <1>2
  <2>5. \A j \in DonorAlloc : j # i => receipts'[j] = receipts[j]
    BY <2>1, <2>2
  <2> QED BY <1>1, <1>2, <1>3, <2>1, <2>2, <2>3, <2>4, <2>5 DEF LedgerInv
<1>b. DonorType(k)'
  BY <1>1, <1>8, <1>a DEF DonorType
<1>c. LedgerInv(k)'
  <2>1. acked' \cup proved' \subseteq born \ (linger' \cup HeldIds(k)')
    BY <1>1, <1>3, <1>5, <1>8, <1>9, <1>a DEF LedgerInv
  <2> QED BY <1>1, <1>a, <2>1 DEF LedgerInv
<1> QED BY <1>8, <1>b, <1>c

\* At the start no allocation is known.
LEMMA DonorStart ==
    ASSUME NEW k, DonorConstants(k), Donor(k)!Init PROVE DonorInv(k)
<1>1. /\ Donor(k)!Empty \in Record(k) /\ Donor(k)!Empty.id = Donor(k)!NoAlloc /\ ~Donor(k)!Empty.held
      /\ ~Donor(k)!Empty.receipt /\ ~Donor(k)!Empty.started /\ ~Donor(k)!Empty.retained
      /\ Donor(k)!Empty.phase = "idle" /\ Donor(k)!Empty.segment = "none" /\ Donor(k)!Empty.host = "none"
  BY DEF Donor!Empty, Record, Child
<1>2. /\ slot = [s \in Donor(k)!Slot |-> Donor(k)!Empty] /\ keeper = TRUE /\ pool = DonorTotal /\ linger = {}
      /\ born = {}
      /\ receipts = [i \in DonorAlloc |-> "none"] /\ acked = {} /\ proved = {} /\ policy = 0 /\ other = FALSE
      /\ crashes = 0
  BY DEF Donor!Init
<1>3. \A s \in Donor(k)!Slot : slot[s] = Donor(k)!Empty
  BY <1>2
<1>4. Donor(k)!Held = {} /\ HeldIds(k) = {}
  <2>1. Donor(k)!Held = {}
    BY <1>1, <1>3 DEF Donor!Held
  <2> QED BY <2>1 DEF HeldIds
<1>5. DonorType(k)
  <2>1. slot \in [Donor(k)!Slot -> Record(k)]
    BY <1>1, <1>2
  <2> QED BY <1>2, <2>1 DEF DonorType, DonorConstants
<1>6. SlotsInv(k) /\ ApartInv(k)
  <2>1. SlotsInv(k)
    BY <1>1, <1>3 DEF SlotsInv, SlotOk, Fresh, Donor!Busy
  <2>2. ApartInv(k)
    BY <1>1, <1>3, <1>4 DEF ApartInv, Donor!Busy
  <2> QED BY <2>1, <2>2
<1>7. LingerInv(k) /\ LedgerInv(k)
  BY <1>2 DEF LingerInv, LedgerInv
<1>8. MemoryInv(k)
  <2>1. Donor(k)!Weight(HeldIds(k)) = 0 /\ Donor(k)!Weight(linger \ HeldIds(k)) = 0
    BY <1>2, <1>4, WeightNone
  <2> QED BY <1>2, <1>4, <2>1 DEF MemoryInv, DonorConstants
<1> QED BY <1>5, <1>6, <1>7, <1>8 DEF DonorInv

\* Every step of the keeper, its engines and the owner keeps the invariant.
LEMMA DonorStep ==
    ASSUME NEW k, DonorConstants(k), DonorInv(k), [Donor(k)!Next]_(Donor(k)!vars) PROVE DonorInv(k)'
<1>0. ~keeper => \A s \in Donor(k)!Slot : slot[s].client = "no"
  BY DEF DonorInv, MemoryInv, Donor!Empty
<1>1. CASE UNCHANGED Donor(k)!vars
  <2>1. /\ UNCHANGED <<slot, keeper, pool, linger, born, receipts, acked, proved, policy, other, crashes>>
    BY <1>1 DEF Donor!vars, Donor!disk, Donor!told, Donor!env
  <2>2. Donor(k)!Held' = Donor(k)!Held /\ HeldIds(k)' = HeldIds(k)
    BY <2>1 DEF Donor!Held, HeldIds
  <2> QED BY <2>1, <2>2 DEF DonorInv, DonorType, SlotsInv, SlotOk, Fresh, Donor!Busy, ApartInv, LingerInv,
     LedgerInv,
                            MemoryInv, Donor!Weight
<1>2. ASSUME NEW s \in Donor(k)!Slot, Donor(k)!Loop(s) \/ Donor(k)!Seal(s) \/ Donor(k)!RetiredRelease(s) \/
             Donor(k)!Engine(s)
      PROVE  DonorInv(k)'
  <2>1. CASE Donor(k)!Ready(s) \/ Donor(k)!Engine(s)
    <3>1. keeper
      BY <2>1 DEF Donor!Ready, Donor!Engine
    <3> QED BY <2>1, <3>1, EngineStep
  <2> QED BY <1>2, <2>1, GiveUpStep, QuietStep, RetiredReleaseStep DEF Donor!Loop
<1>3. ASSUME NEW s \in Donor(k)!Slot, NEW m \in {"routes", "commit", "start", "detach", "cancel"},
             Donor(k)!Message(s, m)
      PROVE  DonorInv(k)'
  BY <1>3, MessageStep
<1>4. ASSUME NEW i \in DonorAlloc, Donor(k)!Offer(i) \/ Donor(k)!ReleaseRequest(i) \/ Donor(k)!RetiredReply(i) \/
             Donor(k)!ExitProof(i) \/ Donor(k)!Dies(i)
      PROVE  DonorInv(k)'
  <2>1. CASE Donor(k)!ReleaseRequest(i)
    <3>1. PICK s \in Donor(k)!Slot : /\ s \in Donor(k)!Target(i) /\ keeper /\ Donor(k)!Disconnect(s, "closed")
                                     /\ UNCHANGED <<keeper, pool, Donor(k)!disk, node_sealed, Donor(k)!told,
                                           Donor(k)!env>>
      BY <2>1 DEF Donor!ReleaseRequest, Donor!Target
    <3> QED BY <3>1, GiveUpStep
  <2> QED BY <1>4, <2>1, OfferStep, RetiredReplyStep, ExitProofStep, DiesStep
<1>5. ASSUME NEW s \in Donor(k)!Slot, NEW h \in {"eof", "silent"}, Donor(k)!Vanish(s, h) PROVE DonorInv(k)'
  <2>1. keeper
    BY <1>0, <1>5 DEF Donor!Vanish
  <2> QED BY <1>5, <2>1, VanishStep
<1>6. ASSUME NEW a \in {0, policy}, Donor(k)!Decide(a) PROVE DonorInv(k)'
  BY <1>6, DecideStep
<1>7. ASSUME NEW s \in Donor(k)!Parked, Donor(k)!NextModel(s) PROVE DonorInv(k)'
  BY <1>7, NextModelStep
<1>8. CASE Donor(k)!Undecided \/ Donor(k)!Unload
  <2>1. 0 \in Donor(k)!Slot
    BY DEF Donor!Slot, DonorConstants
  <2> QED BY <1>8, <2>1, GiveUpStep
<1>9. CASE Donor(k)!PolicyChange \/ Donor(k)!Lease
  BY <1>9, QuietStep
<1> QED BY <1>1, <1>2, <1>3, <1>4, <1>5, <1>6, <1>7, <1>8, <1>9, CrashStep, RestartStep DEF Donor!Next

\* What the invariant says is what is promised.
LEMMA DonorPromise ==
    ASSUME NEW k, DonorConstants(k), DonorInv(k) PROVE Donor(k)!NeverOvercommitted /\ Donor(k)!ExitIsTrue
<1> USE DEF DonorInv
<1>1. \A s \in Donor(k)!Held : s \in Donor(k)!Slot /\ slot[s].id \in DonorAlloc /\ Donor(k)!Busy(slot[s])
  BY DEF Donor!Held, SlotsInv, SlotOk, Donor!Busy
<1>2. Donor(k)!Reserved = Donor(k)!Weight(HeldIds(k))
  <2>1. \A s, t \in Donor(k)!Held : slot[s].id = slot[t].id => s = t
    BY <1>1 DEF ApartInv
  <2> QED BY <1>1, <2>1, ClaimedIsWeight DEF Donor!Reserved, HeldIds, Donor!Held
<1>3. Donor(k)!Owned \subseteq Donor(k)!Held
  BY DEF Donor!Owned, Donor!Running, SlotsInv, SlotOk, Donor!Held
<1>4. Cardinality({s \in Donor(k)!Held : slot[s].auth # 0}) <= 1
  <2> DEFINE S == {s \in Donor(k)!Held : slot[s].auth # 0}
  <2>1. \A s, t \in S : s = t
    BY DEF ApartInv
  <2>2. CASE S = {}
    BY <2>2, FS_EmptySet
  <2>3. ASSUME NEW s \in S PROVE Cardinality(S) = 1
    <3>1. S = {s}
      BY <2>1, <2>3
    <3> QED BY <3>1, FS_Singleton
  <2> HIDE DEF S
  <2>4. Cardinality(S) <= 1
    BY <2>2, <2>3, FS_EmptySet
  <2> QED BY <2>4 DEF S
<1>5. Donor(k)!NeverOvercommitted
  <2>1. /\ Donor(k)!Reserved <= pool
        /\ Donor(k)!Reserved + Donor(k)!Weight(linger \ {slot[s].id : s \in Donor(k)!Held}) <= DonorTotal
        /\ other => Donor(k)!Held = {}
    BY <1>2 DEF MemoryInv, HeldIds
  <2>2. \A s, t \in Donor(k)!Slot : s # t /\ Donor(k)!Busy(slot[s]) /\ Donor(k)!Busy(slot[t]) =>
           slot[s].id # slot[t].id /\ ~Kind[k].hybrid[slot[s].id]
    BY DEF ApartInv
  <2>3. \A s \in Donor(k)!Slot : slot[s].retained =>
           /\ slot[s].held /\ slot[s].client = "no"
           /\ slot[s].phase = (IF DonorEdge[slot[s].id] THEN "ready" ELSE "segment")
    BY DEF SlotsInv, SlotOk
  <2>4. Donor(k)!Cardinality({s \in Donor(k)!Held : slot[s].auth # 0}) <= 1
    BY <1>4, WeightIs
  <2> QED BY ONLY <1>3, <2>1, <2>2, <2>3, <2>4 DEF Donor!NeverOvercommitted
<1>6. Donor(k)!ExitIsTrue
  <2>1. ASSUME NEW i \in acked \cup proved
        PROVE  i \notin linger /\ \A s \in Donor(k)!Target(i) : ~slot[s].held /\ s \notin Donor(k)!Owned
    BY <1>3 DEF LedgerInv, HeldIds, Donor!Held, Donor!Target
  <2> QED BY <2>1 DEF Donor!ExitIsTrue, LingerInv, HeldIds
<1> QED BY <1>5, <1>6
------------------------------------------------------------------------------
(* A plan over several donors (HomePlan), k the name it goes by.              *)
PlanConstants(k) == PlanEdge \in PlanDonors /\ Kind[k].hybrid \in BOOLEAN /\ Kind[k].background \in BOOLEAN /\
   Kind[k].fault \in Nat
PlanCommand == {"commit", "routes", "start", "cancel", "detach", "eof"}
Phase == {"idle", "pending", "accepted", "loading", "segment", "starting", "ready", "rejected", "failed", "closed"}
Ops(d) == {outgoing[d][n] : n \in DOMAIN outgoing[d]}
PlanType(k) ==
    /\ offered \subseteq PlanDonors /\ outgoing \in [PlanDonors -> Seq(PlanCommand)]
    /\ incoming \in [PlanDonors -> Phase \cup {"none"}]
    /\ reported \in [PlanDonors -> Phase] /\ phase \in [PlanDonors -> Phase] /\ held \in [PlanDonors -> BOOLEAN]
    /\ retained \in [PlanDonors -> BOOLEAN] /\ open \in [PlanDonors -> BOOLEAN]
    /\ history \in [PlanDonors -> SUBSET Phase]
    /\ job \in {"running", "done", "failed"}
(* A donor's transaction goes through its phases in order, and every report   *)
(* and everything known of it is of its past.                                 *)
PastInv(k) ==
    \A d \in PlanDonors :
        /\ {phase[d], incoming[d], reported[d]} \subseteq history[d] \cup {"none", "idle", "pending"}
        /\ "loading" \in history[d] => "accepted" \in history[d]
        /\ "segment" \in history[d] => "loading" \in history[d]
        /\ "starting" \in history[d] => "segment" \in history[d]
        /\ "ready" \in history[d] => "starting" \in history[d]
(* What the keeper has asked for, each of it after what it waits for.         *)
OrderInv(k) ==
    /\ committed => \A e \in PlanDonors : "accepted" \in history[e]
    /\ coordinator => \A e \in Plan(k)!Others : "segment" \in history[e]
    /\ host_started => \A e \in PlanDonors : "segment" \in history[e]
    /\ \A d \in PlanDonors : "commit" \in Ops(d) \/ "loading" \in history[d] =>
          committed /\ (Kind[k].hybrid /\ d = PlanEdge => coordinator)
(* What is recorded, each of it after what it says.                           *)
DiskInv(k) ==
    /\ plan => host_started /\ "ready" \in history[PlanEdge]
    /\ prepared => plan /\ library /\ step \notin {"index", "offer", "prepare"}
    /\ observed = "ready" => prepared /\ step = "done"
    /\ job = "done" => observed = "ready"
    /\ window = "done" => job = "done"
(* A donor that keeps its range has no requester left; CANCEL is the end of   *)
(* what was not prepared.                                                     *)
LeaveInv(k) ==
    /\ \A d \in PlanDonors \ offered : phase[d] = "idle" /\ ~retained[d]
    /\ \A d \in PlanDonors : retained[d] => held[d] /\ Plan(k)!Done(d) /\ ~open[d]
    /\ \A d \in PlanDonors : open[d] => phase[d] # "idle"
    /\ \A d \in PlanDonors : "cancel" \in Ops(d) => ~prepared /\ step \in {"settle", "done", "dead"}
PlanInv(k) == PlanType(k) /\ PastInv(k) /\ OrderInv(k) /\ DiskInv(k) /\ LeaveInv(k)

\* What can be read from a connection: what was there and what is sent, or less.
LEMMA Sent ==
    ASSUME NEW S, NEW q \in Seq(S), NEW a \in S, NEW b \in S
    PROVE  /\ Append(q, a) \in Seq(S) /\ \A n \in DOMAIN Append(q, a) : Append(q, a)[n] = a \/
                 \E m \in DOMAIN q : q[m] = Append(q, a)[n]
           /\ q \o <<a, b>> \in Seq(S)
           /\ \A n \in DOMAIN (q \o <<a, b>>) : (q \o <<a, b>>)[n] \in {a, b} \/
                 \E m \in DOMAIN q : q[m] = (q \o <<a, b>>)[n]
<1>1. Append(q, a) \in Seq(S) /\ Len(Append(q, a)) = Len(q) + 1 /\ \A n \in 1 .. Len(q) : Append(q, a)[n] = q[n]
  OBVIOUS
<1>2. Append(q, a)[Len(q) + 1] = a /\ DOMAIN Append(q, a) = 1 .. Len(q) + 1 /\ DOMAIN q = 1 .. Len(q) /\
         Len(q) \in Nat
  OBVIOUS
<1>3. \A n \in DOMAIN Append(q, a) : Append(q, a)[n] = a \/ \E m \in DOMAIN q : q[m] = Append(q, a)[n]
  BY <1>1, <1>2
<1>4. <<a, b>> \in Seq(S) /\ Len(<<a, b>>) = 2 /\ <<a, b>>[1] = a /\ <<a, b>>[2] = b
  OBVIOUS
<1> DEFINE w == <<a, b>>
<1> HIDE DEF w
<1>5. /\ q \o w \in Seq(S) /\ Len(q \o w) = Len(q) + 2 /\ DOMAIN (q \o w) = 1 .. Len(q) + 2
      /\ \A n \in 1 .. Len(q) + 2 : (q \o w)[n] = IF n <= Len(q) THEN q[n] ELSE w[n - Len(q)]
  BY <1>4 DEF w
<1>6. \A n \in DOMAIN (q \o w) : (q \o w)[n] \in {a, b} \/ \E m \in DOMAIN q : q[m] = (q \o w)[n]
  <2> SUFFICES ASSUME NEW n \in 1 .. Len(q) + 2
               PROVE  (q \o w)[n] \in {a, b} \/ \E m \in DOMAIN q : q[m] = (q \o w)[n]
    BY <1>5
  <2>1. n \in 1 .. Len(q) \/ n - Len(q) = 1 \/ n - Len(q) = 2
    BY <1>2
  <2> QED BY <1>2, <1>4, <1>5, <2>1 DEF w
<1> QED BY <1>1, <1>3, <1>5, <1>6 DEF w

\* An operation that is new in a connection is one that was sent.
LEMMA Heads ==
    ASSUME NEW S, NEW q \in Seq(S), q # <<>>
    PROVE  /\ Tail(q) \in Seq(S) /\ \A n \in DOMAIN Tail(q) : \E m \in DOMAIN q : q[m] = Tail(q)[n]
           /\ \E m \in DOMAIN q : q[m] = Head(q)
<1>1. Len(q) \in Nat \ {0} /\ DOMAIN q = 1 .. Len(q) /\ Head(q) = q[1]
  OBVIOUS
<1>2. Tail(q) \in Seq(S) /\ DOMAIN Tail(q) = 1 .. Len(q) - 1 /\ \A n \in 1 .. Len(q) - 1 : Tail(q)[n] = q[n + 1]
  OBVIOUS
<1> QED BY <1>1, <1>2

\* At the start nothing was asked and nothing is recorded.
LEMMA PlanStart ==
    ASSUME NEW k, PlanConstants(k), Plan(k)!Init PROVE PlanInv(k)
<1> USE DEF PlanConstants, Plan!Init
<1>1. PlanType(k)
  <2>1. <<>> \in Seq(PlanCommand)
    OBVIOUS
  <2> QED BY <2>1 DEF PlanType, Phase
<1>2. PastInv(k)
  BY DEF PastInv
<1>3. \A d \in PlanDonors : Ops(d) = {}
  BY DEF Ops
<1>4. OrderInv(k) /\ DiskInv(k) /\ LeaveInv(k)
  BY <1>3 DEF OrderInv, DiskInv, LeaveInv
<1> QED BY <1>1, <1>2, <1>4 DEF PlanInv

\* Steps of the keeper that send nothing.
LEMMA KeeperStep ==
    ASSUME NEW k, PlanConstants(k), PlanInv(k), Plan(k)!Index \/ Plan(k)!Record \/ Plan(k)!Chat \/
           Plan(k)!GiveUp \/ Plan(k)!Settle
    PROVE  PlanInv(k)'
<1> USE DEF PlanConstants, PlanInv
<1>1. /\ UNCHANGED <<offered, committed, coordinator, host_started, outgoing, incoming, reported, phase, held,
            retained, open, history, window>>
      /\ step # "done"
      /\ step \in {"settle", "done", "dead"} => step' \in {"settle", "done", "dead"} /\ prepared' = prepared
  BY DEF Plan!Index, Plan!Record, Plan!Chat, Plan!GiveUp, Plan!Settle, Plan!At, Plan!keeper, Plan!session,
     Plan!donor, Plan!disk
<1>2. \A d \in PlanDonors : Ops(d)' = Ops(d)
  BY <1>1 DEF Ops
<1>3. job' \in {"running", "done", "failed"}
  BY DEF Plan!Index, Plan!Record, Plan!Chat, Plan!GiveUp, Plan!Settle, Plan!disk, PlanType
<1>4. PlanType(k)' /\ PastInv(k)' /\ OrderInv(k)'
  BY <1>1, <1>2, <1>3 DEF PlanType, PastInv, OrderInv
<1>5. DiskInv(k)'
  <2>1. CASE Plan(k)!Index
    BY <1>1, <2>1 DEF Plan!Index, DiskInv, Plan!At
  <2>2. CASE Plan(k)!Record
    <3>1. "ready" \in history[PlanEdge]
      <4>1. PlanEdge \in PlanDonors /\ reported[PlanEdge] = "ready"
        BY <2>2 DEF Plan!Record
      <4> QED BY <4>1 DEF PastInv
    <3> QED BY <1>1, <2>2, <3>1 DEF Plan!Record, DiskInv, Plan!At
  <2>3. CASE Plan(k)!Chat \/ Plan(k)!GiveUp
    BY <1>1, <2>3 DEF Plan!Chat, Plan!GiveUp, DiskInv, Plan!At, Plan!disk
  <2>4. CASE Plan(k)!Settle
    BY <1>1, <2>4 DEF Plan!Settle, DiskInv, Plan!At
  <2> QED BY <2>1, <2>2, <2>3, <2>4
<1>6. LeaveInv(k)'
  <2>1. ASSUME NEW d \in PlanDonors, "cancel" \in Ops(d) PROVE ~prepared' /\ step' \in {"settle", "done", "dead"}
    BY <1>1, <2>1 DEF LeaveInv
  <2> QED BY <1>1, <1>2, <2>1 DEF LeaveInv, Plan!Done
<1> QED BY <1>4, <1>5, <1>6

\* home_offer_plan.
LEMMA OfferToStep ==
    ASSUME NEW k, PlanConstants(k), PlanInv(k), NEW d \in PlanDonors, Plan(k)!OfferTo(d) PROVE PlanInv(k)'
<1> USE DEF PlanConstants, PlanInv, Plan!keeper, Plan!session, Plan!donor, Plan!disk
<1>1. /\ UNCHANGED <<committed, coordinator, host_started, prepared, reported, outgoing, incoming, held, retained,
            history,
                     plan, library, observed, job, window>>
      /\ step = "offer" /\ d \notin offered /\ offered' = offered \cup {d}
      /\ \/ open' = [open EXCEPT ![d] = TRUE] /\ phase' = [phase EXCEPT ![d] = "pending"]
         \/ UNCHANGED <<open, phase>>
  BY DEF Plan!OfferTo
<1>2. \A e \in PlanDonors : Ops(e)' = Ops(e)
  BY <1>1 DEF Ops
<1>3. PlanType(k)'
  BY <1>1 DEF PlanType, Phase
<1>4. phase[d] = "idle" /\ ~retained[d]
  BY <1>1 DEF LeaveInv
<1>5. /\ \A e \in PlanDonors : e # d => phase'[e] = phase[e] /\ open'[e] = open[e]
      /\ phase'[d] = "pending" \/ (phase'[d] = "idle" /\ open'[d] = open[d])
  BY <1>1, <1>4 DEF PlanType
<1>6. PastInv(k)' /\ OrderInv(k)' /\ DiskInv(k)'
  BY <1>1, <1>2, <1>5 DEF PastInv, OrderInv, DiskInv, Plan!At
<1>7. LeaveInv(k)'
  BY <1>1, <1>2, <1>4, <1>5 DEF LeaveInv, Plan!Done
<1> QED BY <1>3, <1>6, <1>7

\* The keeper asks the donors for their next phase.
LEMMA AskStep ==
    ASSUME NEW k, PlanConstants(k), PlanInv(k), Plan(k)!Commit \/ Plan(k)!Coordinate \/ Plan(k)!StartHost
    PROVE  PlanInv(k)'
<1> USE DEF PlanConstants, PlanInv, Plan!keeper, Plan!session, Plan!donor, Plan!disk
<1>1. UNCHANGED <<step, offered, prepared, reported, incoming, phase, held, retained, open, history, plan, library,
         observed, job, window>>
  BY DEF Plan!Commit, Plan!Coordinate, Plan!StartHost
<1>2. outgoing \in [PlanDonors -> Seq(PlanCommand)] /\ {"commit", "routes", "start"} \subseteq PlanCommand
  BY DEF PlanType, PlanCommand
<1>3. /\ outgoing' \in [PlanDonors -> Seq(PlanCommand)]
      /\ \A d \in PlanDonors : Ops(d)' \subseteq Ops(d) \cup {"commit", "routes", "start"}
      /\ \A d \in PlanDonors : "commit" \in Ops(d)' => "commit" \in Ops(d) \/
            (committed' /\ (Kind[k].hybrid /\ d = PlanEdge => coordinator'))
  <2>1. CASE Plan(k)!Commit
    <3>1. /\ committed'
          /\ outgoing' = [d \in PlanDonors |-> IF Kind[k].hybrid /\
                d = PlanEdge THEN outgoing[d] ELSE Append(outgoing[d], "commit")]
      BY <2>1 DEF Plan!Commit
    <3>2. \A d \in PlanDonors : /\ Append(outgoing[d], "commit") \in Seq(PlanCommand)
                                /\ \A n \in DOMAIN Append(outgoing[d], "commit") :
                                      Append(outgoing[d], "commit")[n] = "commit" \/
                                         Append(outgoing[d], "commit")[n] \in Ops(d)
      BY <1>2, Sent DEF Ops
    <3>3. outgoing' \in [PlanDonors -> Seq(PlanCommand)]
      BY <1>2, <3>1, <3>2
    <3>4. \A d \in PlanDonors : Ops(d)' \subseteq Ops(d) \cup {"commit"} /\
             (Kind[k].hybrid /\ d = PlanEdge => Ops(d)' = Ops(d))
      BY <3>1, <3>2 DEF Ops
    <3> QED BY <3>1, <3>3, <3>4
  <2>2. CASE Plan(k)!Coordinate
    <3>1. committed' /\ coordinator' /\ outgoing' = [outgoing EXCEPT ![PlanEdge] = @ \o <<"routes", "commit">>]
      BY <2>2 DEF Plan!Coordinate
    <3> DEFINE q == outgoing[PlanEdge] \o <<"routes", "commit">>
    <3>2. q \in Seq(PlanCommand) /\ \A n \in DOMAIN q : q[n] \in {"routes", "commit"} \/ q[n] \in Ops(PlanEdge)
      BY <1>2, Sent DEF Ops
    <3>3. outgoing' = [outgoing EXCEPT ![PlanEdge] = q]
      BY <3>1
    <3> HIDE DEF q
    <3>4. \A d \in PlanDonors : Ops(d)' \subseteq Ops(d) \cup {"commit", "routes"} /\
             (d # PlanEdge => Ops(d)' = Ops(d))
      BY <1>2, <3>2, <3>3 DEF Ops
    <3> QED BY <1>2, <3>1, <3>2, <3>3, <3>4
  <2>3. CASE Plan(k)!StartHost
    <3> DEFINE q == Append(outgoing[PlanEdge], "start")
    <3>1. outgoing' = [outgoing EXCEPT ![PlanEdge] = q]
      BY <2>3 DEF Plan!StartHost, Plan!Send
    <3>2. q \in Seq(PlanCommand) /\ \A n \in DOMAIN q : q[n] = "start" \/ q[n] \in Ops(PlanEdge)
      BY <1>2, Sent DEF Ops
    <3> HIDE DEF q
    <3>3. \A d \in PlanDonors : Ops(d)' \subseteq Ops(d) \cup {"start"}
      BY <1>2, <3>1, <3>2 DEF Ops
    <3> QED BY <1>2, <3>1, <3>2, <3>3
  <2> QED BY <2>1, <2>2, <2>3
<1>4. PlanType(k)' /\ PastInv(k)' /\ LeaveInv(k)'
  <2>1. PlanType(k)' /\ PastInv(k)'
    BY <1>1, <1>3 DEF PlanType, PastInv
  <2>2. \A d \in PlanDonors : "cancel" \in Ops(d)' => "cancel" \in Ops(d)
    BY <1>3
  <2> QED BY <1>1, <2>1, <2>2 DEF LeaveInv, Plan!Done
<1>5. /\ committed => committed'
      /\ coordinator => coordinator'
      /\ host_started => host_started'
  BY DEF Plan!Commit, Plan!Coordinate, Plan!StartHost
<1>6. /\ committed' => \A e \in PlanDonors : "accepted" \in history[e]
      /\ coordinator' => \A e \in Plan(k)!Others : "segment" \in history[e]
      /\ host_started' => \A e \in PlanDonors : "segment" \in history[e]
  <2>1. CASE Plan(k)!Commit
    BY <2>1 DEF Plan!Commit, Plan!Accepted, PastInv, OrderInv
  <2>2. CASE Plan(k)!Coordinate
    BY <2>2 DEF Plan!Coordinate, Plan!Others, PastInv, OrderInv
  <2>3. CASE Plan(k)!StartHost
    BY <2>3 DEF Plan!StartHost, Plan!Prepared, PastInv, OrderInv
  <2> QED BY <2>1, <2>2, <2>3
<1>7. OrderInv(k)'
  BY <1>1, <1>3, <1>5, <1>6 DEF OrderInv
<1>8. DiskInv(k)'
  BY <1>1, <1>5 DEF DiskInv
<1> QED BY <1>4, <1>7, <1>8

\* home_session_close, and a keeper that dies: the connections end.
LEMMA PlanCloseStep ==
    ASSUME NEW k, PlanConstants(k), PlanInv(k), Plan(k)!Close \/ Plan(k)!Crash PROVE PlanInv(k)'
<1> USE DEF PlanConstants, PlanInv, Plan!keeper, Plan!session, Plan!donor, Plan!disk
<1>1. /\ UNCHANGED <<offered, committed, coordinator, host_started, prepared, reported, incoming, phase, held,
            retained, open, history,
                     plan, library, observed, job, window>>
      /\ step \notin {"done", "dead"} /\ step' \in {"settle", "dead"}
  BY DEF Plan!Close, Plan!Crash, Plan!At
<1>2. outgoing \in [PlanDonors -> Seq(PlanCommand)] /\ {"detach", "cancel", "eof"} \subseteq PlanCommand
  BY DEF PlanType, PlanCommand
<1>3. \A d \in PlanDonors : outgoing'[d] \in {outgoing[d], Append(outgoing[d], "eof")}
                                             \cup (IF Plan(k)!Close THEN {outgoing[d] \o <<IF prepared THEN "detach" ELSE "cancel", "eof">>} ELSE {})
      /\ outgoing' = [e \in PlanDonors |-> outgoing'[e]]
  <2>1. CASE Plan(k)!Close
    <3>1. PICK L \in SUBSET offered : outgoing' = [d \in PlanDonors |-> IF d \notin offered THEN outgoing[d]
                     ELSE IF d \in L THEN Append(outgoing[d], "eof")
                     ELSE outgoing[d] \o <<IF prepared THEN "detach" ELSE "cancel", "eof">>]
      BY <2>1 DEF Plan!Close
    <3> QED BY <2>1, <3>1
  <2>2. CASE Plan(k)!Crash
    BY <2>2 DEF Plan!Crash
  <2> QED BY <2>1, <2>2
<1>4. \A d \in PlanDonors : /\ outgoing'[d] \in Seq(PlanCommand)
                            /\ Ops(d)' \subseteq Ops(d) \cup {"eof", "detach", "cancel"}
                            /\ prepared => Ops(d)' \subseteq Ops(d) \cup {"eof", "detach"}
  <2> SUFFICES ASSUME NEW d \in PlanDonors
               PROVE  /\ outgoing'[d] \in Seq(PlanCommand)
                      /\ Ops(d)' \subseteq Ops(d) \cup {"eof", "detach", "cancel"}
                      /\ prepared => Ops(d)' \subseteq Ops(d) \cup {"eof", "detach"}
    OBVIOUS
  <2> DEFINE c == IF prepared THEN "detach" ELSE "cancel"
             q == Append(outgoing[d], "eof")
             w == outgoing[d] \o <<c, "eof">>
  <2>1. outgoing'[d] \in {outgoing[d], q, w}
    BY <1>3
  <2>2. c \in PlanCommand /\ "eof" \in PlanCommand /\ outgoing[d] \in Seq(PlanCommand) /\
           c \in {"detach", "cancel"} /\ (prepared => c = "detach")
    BY <1>2
  <2>3. /\ q \in Seq(PlanCommand) /\ \A n \in DOMAIN q : q[n] = "eof" \/ q[n] \in Ops(d)
        /\ w \in Seq(PlanCommand) /\ \A n \in DOMAIN w : w[n] \in {c, "eof"} \/ w[n] \in Ops(d)
    <3> HIDE DEF c
    <3> QED BY <2>2, Sent DEF Ops
  <2> HIDE DEF c, q, w
  <2>4. Ops(d)' = {outgoing'[d][n] : n \in DOMAIN outgoing'[d]} /\
           Ops(d) = {outgoing[d][n] : n \in DOMAIN outgoing[d]}
    BY DEF Ops
  <2>5. Ops(d)' \subseteq Ops(d) \cup {c, "eof"}
    BY <2>1, <2>3, <2>4
  <2> QED BY <2>1, <2>2, <2>3, <2>5
<1>5. outgoing' \in [PlanDonors -> Seq(PlanCommand)]
  BY <1>3, <1>4
<1>6. PlanType(k)' /\ PastInv(k)'
  BY <1>1, <1>5 DEF PlanType, PastInv
<1>7. \A d \in PlanDonors : "commit" \in Ops(d)' => "commit" \in Ops(d)
  BY <1>4
<1>8. OrderInv(k)'
  BY <1>1, <1>7 DEF OrderInv
<1>9. DiskInv(k)'
  BY <1>1 DEF DiskInv
<1>a. LeaveInv(k)'
  BY <1>1, <1>4 DEF LeaveInv, Plan!Done
<1> QED BY <1>6, <1>8, <1>9, <1>a

\* home_session_keepalive: a report is of the donor's past.
LEMMA MonitorStep ==
    ASSUME NEW k, PlanConstants(k), PlanInv(k), NEW d \in PlanDonors, Plan(k)!Monitor(d) \/ Plan(k)!Unreachable(d)
    PROVE  PlanInv(k)'
<1> USE DEF PlanConstants, PlanInv, Plan!keeper, Plan!session, Plan!donor, Plan!disk
<1>1. /\ UNCHANGED <<step, offered, committed, coordinator, host_started, prepared, outgoing, phase, held,
            retained, open, history,
                     plan, library, observed, job, window>>
      /\ \/ incoming' = [incoming EXCEPT ![d] = phase[d]] /\ reported' = reported
         \/ incoming' = [incoming EXCEPT ![d] = "none"] /\ reported' = [reported EXCEPT ![d] = incoming[d]] /\
               incoming[d] # "none"
         \/ UNCHANGED <<incoming, reported>>
  BY DEF Plan!Monitor, Plan!Report, Plan!Receive, Plan!Unreachable
<1>2. \A e \in PlanDonors : Ops(e)' = Ops(e)
  BY <1>1 DEF Ops
<1>3. PlanType(k)' /\ PastInv(k)'
  <2>1. /\ incoming \in [PlanDonors -> Phase \cup {"none"}] /\ reported \in [PlanDonors -> Phase]
        /\ phase \in [PlanDonors -> Phase]
    BY DEF PlanType
  <2>2. incoming' \in [PlanDonors -> Phase \cup {"none"}] /\ reported' \in [PlanDonors -> Phase]
    BY <1>1, <2>1
  <2>3. \A e \in PlanDonors : /\ incoming'[e] \in {incoming[e], phase[e], "none"}
                             /\ reported'[e] \in {reported[e], incoming[e]}
    BY <1>1, <2>1
  <2>4. PlanType(k)'
    BY <1>1, <2>2 DEF PlanType
  <2>5. PastInv(k)'
    BY <1>1, <2>3 DEF PastInv
  <2> QED BY <2>4, <2>5
<1>5. OrderInv(k)' /\ DiskInv(k)' /\ LeaveInv(k)'
  BY <1>1, <1>2 DEF OrderInv, DiskInv, LeaveInv, Plan!Done
<1> QED BY <1>3, <1>5

\* What a donor's transaction may become.
LEMMA DonorMoves ==
    ASSUME NEW k, PlanConstants(k), PlanInv(k), NEW d \in PlanDonors, NEW p \in Phase,
           phase' = [phase EXCEPT ![d] = p], history' = [history EXCEPT ![d] = @ \cup {p}],
           p = "accepted" \/ p \in Plan(k)!Ended \/ (p = "loading" /\ phase[d] = "accepted" /\ "commit" \in Ops(d))
              \/ (p = "segment" /\ phase[d] = "loading") \/ (p = "starting" /\ phase[d] = "segment")
              \/ (p = "ready" /\ phase[d] = "starting"),
           phase[d] # "idle", held' \in [PlanDonors -> BOOLEAN], retained' \in [PlanDonors -> BOOLEAN],
              open' \in [PlanDonors -> BOOLEAN],
           \A e \in PlanDonors : e # d => held'[e] = held[e] /\ retained'[e] = retained[e] /\ open'[e] = open[e],
           ~retained'[d], outgoing' \in [PlanDonors -> Seq(PlanCommand)],
              \A e \in PlanDonors : Ops(e)' \subseteq Ops(e),
           UNCHANGED <<step, offered, committed, coordinator, host_started, prepared, incoming, reported, plan,
           library, observed, job, window>>
    PROVE  PlanInv(k)'
<1> USE DEF PlanConstants, PlanInv
<1>1. PlanType(k)'
  BY DEF PlanType
<1>2. \A e \in PlanDonors : history[e] \subseteq history'[e] /\
         (e # d => history'[e] = history[e] /\ phase'[e] = phase[e])
  BY DEF PlanType
<1>3. history'[d] = history[d] \cup {p} /\ phase'[d] = p
  BY DEF PlanType
<1>4. PastInv(k)'
  <2>1. ASSUME NEW e \in PlanDonors
        PROVE  /\ {phase'[e], incoming'[e], reported'[e]} \subseteq history'[e] \cup {"none", "idle", "pending"}
               /\ "loading" \in history'[e] => "accepted" \in history'[e]
               /\ "segment" \in history'[e] => "loading" \in history'[e]
               /\ "starting" \in history'[e] => "segment" \in history'[e]
               /\ "ready" \in history'[e] => "starting" \in history'[e]
    <3>1. CASE e # d
      BY <1>2, <3>1 DEF PastInv
    <3>2. CASE e = d
      <4>1. /\ {phase[d], incoming[d], reported[d]} \subseteq history[d] \cup {"none", "idle", "pending"}
            /\ "loading" \in history[d] => "accepted" \in history[d]
            /\ "segment" \in history[d] => "loading" \in history[d]
            /\ "starting" \in history[d] => "segment" \in history[d]
            /\ "ready" \in history[d] => "starting" \in history[d]
        BY DEF PastInv
      <4>2. p = "accepted" \/ p \in {"rejected", "failed", "closed"} \/ (p = "loading" /\ phase[d] = "accepted")
              \/ (p = "segment" /\ phase[d] = "loading") \/ (p = "starting" /\ phase[d] = "segment")
              \/ (p = "ready" /\ phase[d] = "starting")
        BY DEF Plan!Ended
      <4> QED BY ONLY <1>3, <3>2, <4>1, <4>2, UNCHANGED <<incoming, reported>>
    <3> QED BY <3>1, <3>2
  <2> QED BY <2>1 DEF PastInv
<1>5. OrderInv(k)'
  <2>1. \A e \in PlanDonors : "loading" \in history'[e] => "loading" \in history[e] \/
           (e = d /\ "commit" \in Ops(d))
    BY <1>2, <1>3 DEF Plan!Ended
  <2> QED BY <1>2, <2>1 DEF OrderInv, Plan!Others
<1>6. DiskInv(k)'
  BY <1>2 DEF DiskInv
<1>7. LeaveInv(k)'
  <2>1. d \in offered
    BY DEF LeaveInv
  <2>2. \A e \in PlanDonors \ offered' : phase'[e] = "idle" /\ ~retained'[e]
    BY <1>2, <2>1 DEF LeaveInv
  <2>3. \A e \in PlanDonors : retained'[e] => held'[e] /\ Plan(k)!Done(e)' /\ ~open'[e]
    BY <1>2 DEF LeaveInv, Plan!Done
  <2>4. \A e \in PlanDonors : open'[e] => phase'[e] # "idle"
    <3>1. p # "idle"
      BY DEF Plan!Ended
    <3>2. \A e \in PlanDonors : e # d => (open'[e] => phase'[e] # "idle")
      <4>1. \A e \in PlanDonors : open[e] => phase[e] # "idle"
        BY DEF LeaveInv
      <4> QED BY <1>2, <4>1
    <3> QED BY <1>3, <3>1, <3>2
  <2> QED BY <2>2, <2>3, <2>4 DEF LeaveInv
<1> QED BY <1>1, <1>4, <1>5, <1>6, <1>7

\* Owners decide; engines get ready or fail.
LEMMA DecideOrProgressStep ==
    ASSUME NEW k, PlanConstants(k), PlanInv(k), NEW d \in PlanDonors, Plan(k)!Decide(d) \/ Plan(k)!Progress(d) \/
           Plan(k)!Breaks(d)
    PROVE  PlanInv(k)'
<1> USE DEF PlanInv, Plan!keeper, Plan!session, Plan!donor, Plan!disk
<1>1. /\ UNCHANGED <<step, offered, committed, coordinator, host_started, prepared, incoming, reported, outgoing,
            open, plan, library, observed,
                     job, window>>
      /\ phase[d] # "idle"
  BY DEF Plan!Decide, Plan!Progress, Plan!Breaks
<1>2. PICK p \in Phase : phase' = [phase EXCEPT ![d] = p] /\ history' = [history EXCEPT ![d] = @ \cup {p}] /\
           (p = "accepted" \/ p \in Plan(k)!Ended
              \/ (p = "segment" /\ phase[d] = "loading") \/ (p = "ready" /\ phase[d] = "starting"))
  BY DEF Plan!Decide, Plan!Progress, Plan!Breaks, Plan!Move, Phase, Plan!Ended
<1>3. /\ held' \in [PlanDonors -> BOOLEAN] /\ retained' \in [PlanDonors -> BOOLEAN]
      /\ open' \in [PlanDonors -> BOOLEAN]
      /\ \A e \in PlanDonors : e # d => held'[e] = held[e] /\ retained'[e] = retained[e] /\ open'[e] = open[e]
  BY <1>1 DEF Plan!Decide, Plan!Progress, Plan!Breaks, PlanType
<1>4. ~retained'[d]
  <2>1. CASE Plan(k)!Breaks(d)
    BY <2>1 DEF Plan!Breaks, PlanType
  <2>2. CASE Plan(k)!Decide(d) \/ Plan(k)!Progress(d)
    <3>1. ~Plan(k)!Done(d) /\ retained' = retained
      BY <2>2 DEF Plan!Decide, Plan!Progress, Plan!Done
    <3> QED BY <3>1 DEF LeaveInv
  <2> QED BY <2>1, <2>2
<1>5. outgoing' \in [PlanDonors -> Seq(PlanCommand)] /\ \A e \in PlanDonors : Ops(e)' \subseteq Ops(e)
  BY <1>1 DEF Ops, PlanType
<1> QED BY <1>1, <1>2, <1>3, <1>4, <1>5, DonorMoves

\* A donor that keeps its range when its requester leaves, or takes note of the routes.
LEMMA KeepStep ==
    ASSUME NEW k, PlanConstants(k), PlanInv(k), NEW d \in PlanDonors,
           outgoing' \in [PlanDonors -> Seq(PlanCommand)],
           \A e \in PlanDonors : Ops(e)' \subseteq Ops(e),
           \/ UNCHANGED <<retained, open>>
           \/ /\ retained' = [retained EXCEPT ![d] = TRUE] /\ open' = [open EXCEPT ![d] = FALSE] /\ held[d]
              /\ phase[d] \in {"segment", "ready"},
           UNCHANGED <<phase, held, history, step, offered, committed, coordinator, host_started, prepared,
           incoming, reported, plan, library,
                       observed, job, window>>
    PROVE  PlanInv(k)'
<1> USE DEF PlanInv
<1>1. /\ \A e \in PlanDonors : retained'[e] => held[e] /\ Plan(k)!Done(e) /\ ~open'[e]
      /\ \A e \in PlanDonors : open'[e] => open[e]
      /\ \A e \in PlanDonors \ offered : ~retained'[e]
  BY DEF LeaveInv, PlanType, Plan!Done
<1>2. PlanType(k)'
  BY DEF PlanType
<1>3. PastInv(k)' /\ OrderInv(k)' /\ DiskInv(k)'
  BY DEF PastInv, OrderInv, DiskInv
<1>4. LeaveInv(k)'
  BY <1>1 DEF LeaveInv, Plan!Done
<1> QED BY <1>2, <1>3, <1>4

\* home_donor_message, as far as a preparation uses it.
LEMMA HeardStep ==
    ASSUME NEW k, PlanConstants(k), PlanInv(k), NEW d \in PlanDonors, Plan(k)!Heard(d) PROVE PlanInv(k)'
<1> USE DEF PlanInv, Plan!keeper, Plan!session, Plan!donor, Plan!disk
<1>1. UNCHANGED <<step, offered, committed, coordinator, host_started, prepared, incoming, reported, plan, library,
         observed, job, window>>
  BY DEF Plan!Heard
<1>2. outgoing[d] \in Seq(PlanCommand) /\ outgoing[d] # <<>> /\
         outgoing' = [outgoing EXCEPT ![d] = Tail(outgoing[d])] /\ outgoing \in [PlanDonors -> Seq(PlanCommand)]
  BY DEF Plan!Heard, PlanType
<1>3. /\ Tail(outgoing[d]) \in Seq(PlanCommand) /\
            \A n \in DOMAIN Tail(outgoing[d]) : Tail(outgoing[d])[n] \in Ops(d)
      /\ Head(outgoing[d]) \in Ops(d)
  BY <1>2, Heads DEF Ops
<1>4. outgoing' \in [PlanDonors -> Seq(PlanCommand)] /\ \A e \in PlanDonors : Ops(e)' \subseteq Ops(e)
  BY <1>2, <1>3 DEF Ops
<1>5. open[d] /\ ~retained[d] /\ phase[d] # "idle"
  BY DEF Plan!Heard, LeaveInv
<1>6. CASE UNCHANGED <<phase, held, retained, history, open>>
  BY <1>1, <1>4, <1>6, KeepStep
<1>7. CASE /\ Head(outgoing[d]) = "commit" /\ phase[d] = "accepted" /\ Plan(k)!Move(d, "loading")
           /\ UNCHANGED <<held, retained, open>>
  <2>1. "loading" \in Phase /\ "commit" \in Ops(d) /\ ~retained'[d]
    BY <1>3, <1>5, <1>7 DEF Phase
  <2> QED BY <1>1, <1>4, <1>5, <1>7, <2>1, DonorMoves DEF Plan!Move, PlanType
<1>8. CASE phase[d] = "segment" /\ Plan(k)!Move(d, "starting") /\ UNCHANGED <<held, retained, open>>
  <2>1. "starting" \in Phase /\ ~retained'[d]
    BY <1>5, <1>8 DEF Phase
  <2> QED BY <1>1, <1>4, <1>5, <1>8, <2>1, DonorMoves DEF Plan!Move, PlanType
<1>9. CASE Plan(k)!Free(d, "closed") /\ (UNCHANGED open \/ open' = [open EXCEPT ![d] = FALSE])
  <2>1. "closed" \in Phase /\ "closed" \in Plan(k)!Ended /\ ~retained'[d]
    BY <1>5, <1>9 DEF Phase, Plan!Ended, Plan!Free
  <2>2. /\ held' \in [PlanDonors -> BOOLEAN] /\ retained' \in [PlanDonors -> BOOLEAN]
        /\ open' \in [PlanDonors -> BOOLEAN]
        /\ \A e \in PlanDonors : e # d => held'[e] = held[e] /\ retained'[e] = retained[e] /\ open'[e] = open[e]
        /\ phase' = [phase EXCEPT ![d] = "closed"] /\ history' = [history EXCEPT ![d] = @ \cup {"closed"}]
    BY <1>9 DEF Plan!Free, Plan!Move, PlanType
  <2> QED BY <1>1, <1>4, <1>5, <2>1, <2>2, DonorMoves
<1>a. CASE Plan(k)!Lost(d)
  <2>1. CASE held[d] /\ (phase[d] = "ready" \/ (d # PlanEdge /\ phase[d] = "segment"))
    <3>1. /\ retained' = [retained EXCEPT ![d] = TRUE] /\ open' = [open EXCEPT ![d] = FALSE]
          /\ UNCHANGED <<phase, held, history>> /\ phase[d] \in {"segment", "ready"}
      BY <1>a, <2>1 DEF Plan!Lost
    <3> QED BY <1>1, <1>4, <2>1, <3>1, KeepStep
  <2>2. CASE ~(held[d] /\ (phase[d] = "ready" \/ (d # PlanEdge /\ phase[d] = "segment")))
    BY <1>5, <1>9, <1>a, <2>2 DEF Plan!Lost
  <2> QED BY <2>1, <2>2
<1>b. \/ /\ Head(outgoing[d]) = "commit" /\ phase[d] = "accepted" /\ Plan(k)!Move(d, "loading")
         /\ UNCHANGED <<held, retained, open>>
      \/ UNCHANGED <<phase, held, retained, history, open>>
      \/ phase[d] = "segment" /\ Plan(k)!Move(d, "starting") /\ UNCHANGED <<held, retained, open>>
      \/ Plan(k)!Free(d, "closed") /\ UNCHANGED open
      \/ Plan(k)!Lost(d)
  BY DEF Plan!Heard
<1> QED BY <1>b, <1>6, <1>7, <1>8, <1>9, <1>a

\* home_prepare_wait.
LEMMA WindowStep ==
    ASSUME NEW k, PlanConstants(k), PlanInv(k), Plan(k)!Window \/ Plan(k)!Detach PROVE PlanInv(k)'
<1> USE DEF PlanInv, Plan!keeper, Plan!session, Plan!donor, Plan!disk
<1>1. /\ UNCHANGED <<step, offered, committed, coordinator, host_started, prepared, incoming, reported, outgoing,
            open, phase, held, retained,
                     history, plan, library, observed, job>>
      /\ window' = "done" => job = "done"
  BY DEF Plan!Window, Plan!Detach, DiskInv
<1>2. \A e \in PlanDonors : Ops(e)' = Ops(e)
  BY <1>1 DEF Ops
<1> QED BY <1>1, <1>2 DEF PlanType, PastInv, OrderInv, DiskInv, LeaveInv, Plan!Done

\* Every step of the keeper, its monitor, the donors and the window.
LEMMA PlanStep ==
    ASSUME NEW k, PlanConstants(k), PlanInv(k), [Plan(k)!Next]_(Plan(k)!vars) PROVE PlanInv(k)'
<1>1. CASE UNCHANGED Plan(k)!vars
  <2>1. UNCHANGED <<step, offered, committed, coordinator, host_started, prepared, incoming, reported, outgoing,
           open, phase, held, retained,
                    history, plan, library, observed, job, window>>
    BY <1>1 DEF Plan!vars, Plan!keeper, Plan!session, Plan!donor, Plan!disk
  <2>2. \A e \in PlanDonors : Ops(e)' = Ops(e)
    BY <2>1 DEF Ops
  <2> QED BY <2>1, <2>2 DEF PlanInv, PlanType, PastInv, OrderInv, DiskInv, LeaveInv, Plan!Done
<1>2. CASE Plan(k)!Keeper \/ Plan(k)!GiveUp \/ Plan(k)!Crash \/ Plan(k)!Window \/ Plan(k)!Detach
  BY <1>2, KeeperStep, OfferToStep, AskStep, PlanCloseStep, WindowStep DEF Plan!Keeper
<1>3. ASSUME NEW d \in PlanDonors, Plan(k)!Monitor(d) \/ Plan(k)!Unreachable(d) \/ Plan(k)!Decide(d) \/
             Plan(k)!Heard(d) \/ Plan(k)!Progress(d) \/ Plan(k)!Breaks(d)
      PROVE  PlanInv(k)'
  BY <1>3, MonitorStep, DecideOrProgressStep, HeardStep
<1> QED BY <1>1, <1>2, <1>3 DEF Plan!Next

\* What the invariant says is what is promised.
LEMMA PlanPromise ==
    ASSUME NEW k, PlanConstants(k), PlanInv(k) PROVE Plan(k)!PlanSound
<1> USE DEF PlanInv, PlanConstants
<1>1. \A d \in PlanDonors : Plan(k)!Loaded(d) => "loading" \in history[d]
  BY DEF Plan!Loaded, PastInv
<1>2. \A d \in PlanDonors : Plan(k)!Loaded(d) => committed /\ (Kind[k].hybrid /\ d = PlanEdge => coordinator)
  BY <1>1 DEF OrderInv
<1>3. \A d \in PlanDonors : Plan(k)!Loaded(d) => \A e \in PlanDonors : "accepted" \in history[e]
  BY <1>2 DEF OrderInv
<1>4. Kind[k].hybrid /\ Plan(k)!Loaded(PlanEdge) => \A e \in Plan(k)!Others : "segment" \in history[e]
  BY <1>2 DEF OrderInv
<1>5. (host_started \/ plan) => \A e \in PlanDonors : "segment" \in history[e]
  BY DEF OrderInv, DiskInv
<1>6. prepared => \A d \in PlanDonors : \A n \in DOMAIN outgoing[d] : outgoing[d][n] # "cancel"
  BY DEF LeaveInv, Ops
<1>7. /\ (plan \/ observed = "ready") => "ready" \in history[PlanEdge]
      /\ observed = "ready" => plan /\ library
      /\ job = "done" => observed = "ready"
      /\ window = "done" => observed = "ready"
  BY DEF DiskInv
<1>8. \A d \in PlanDonors : retained[d] => held[d] /\ Plan(k)!Done(d)
  BY DEF LeaveInv
<1> QED BY <1>3, <1>4, <1>5, <1>6, <1>7, <1>8 DEF Plan!PlanSound
------------------------------------------------------------------------------
(* The encrypted connections: which descriptor is open on a connection and    *)
(* which session is published for it, who uses a session and holds its        *)
(* transmit lock, and where the stream of a connection that nobody mixed      *)
(* stands, from what its handler expects to what the lock's holder writes.    *)
LinkConn == 1 .. LinkConns
LinkConstants(k) ==
    /\ IsFiniteSet(Kind[k].fd) /\ IsFiniteSet(LinkThread) /\ 0 \notin LinkThread
    /\ LinkConns \in Nat /\ LinkBudget \in Nat /\ LinkCap \in Nat /\ Kind[k].gate \in Nat /\ Kind[k].sizes \subseteq Nat
Session(k) == [refs : Nat, closing : BOOLEAN, freed : BOOLEAN, tx : LinkThread \cup {0}, ctr : Nat,
               peer : Kind[k].keys \cup {0}]
Piece == [key : 0 .. LinkConns, ctr : Nat, size : Nat, part : {"head", "rest", "torn"}, by : LinkThread]
NoPiece == [key |-> 0, ctr |-> 0, size |-> 0, part |-> "none"]
SealedFrame == LinkThread \X Nat
Socket == {[conn |-> 0, at |-> "free"]} \cup [conn : LinkConn, at : {"shake", "pin", "up", "closing"}, host : LinkHost]
Sender(k) == [at : {"idle", "lock", "head", "rest"}, fd : Kind[k].fd \cup {0}, e : 0 .. LinkConns, ctr : Nat, size : Nat]
Handler == [at : {"none", "backlog", "shake", "read", "body", "hold", "gone"}, rx : Nat, head : Piece \cup {NoPiece}]
LocalType(k) ==
    /\ sockets \in [Kind[k].fd -> Socket]
    /\ registry \in [Kind[k].fd -> 0 .. LinkConns]
    /\ entries \in [LinkConn -> Session(k)]
    /\ senders \in [LinkThread -> Sender(k)]
    /\ known_keys \in [LinkHost -> SUBSET Kind[k].keys]
    /\ dialled \in Nat /\ dialled > 0
    /\ sealed_frames \in [LinkConn -> Seq(SealedFrame)]
RemoteType ==
    /\ streams \in [LinkConn -> Seq(Piece)]
    /\ handlers \in [LinkConn -> Handler]
    /\ taken_frames \in [LinkConn -> Seq(SealedFrame)]
    /\ places \in Int /\ buffered \in Int
Unopened(c) ==
    /\ entries[c].refs = 0 /\ ~entries[c].closing /\ ~entries[c].freed /\ entries[c].tx = 0 /\ entries[c].ctr = 0
SocketInv(k) ==
    /\ \A f \in Kind[k].fd : sockets[f].conn < dialled
    /\ \A f, g \in Kind[k].fd : sockets[f].conn # 0 /\ sockets[f].conn = sockets[g].conn => f = g
PublishInv(k) ==
    \A f \in Kind[k].fd : registry[f] # 0 => registry[f] = sockets[f].conn /\ sockets[f].at = "up"
UnusedInv(k) ==
    /\ \A c \in LinkConn : c >= dialled => Unopened(c)
    /\ \A c \in LinkConn, f \in Kind[k].fd :
          sockets[f].conn = c => /\ sockets[f].at \in {"shake", "pin"} => Unopened(c)
                                 /\ sockets[f].at = "pin" => entries[c].peer \in Kind[k].keys
FreshInv ==
    \A c \in LinkConn : (handlers[c].at = "none" <=> c >= dialled) /\ (c >= dialled => streams[c] = <<>>)
UsersOf(c) == {t \in LinkThread : senders[t].at # "idle" /\ senders[t].e = c}
Writing(t) == senders[t].at \in {"head", "rest"} /\ senders[t].e # 0
SessionInv(k) ==
    \A c \in LinkConn :
       /\ entries[c].refs = Cardinality(UsersOf(c))
       /\ entries[c].freed => UsersOf(c) = {}
       /\ entries[c].freed \/ entries[c].closing => \A f \in Kind[k].fd : registry[f] # c
       /\ entries[c].closing /\ UsersOf(c) = {} => entries[c].freed
CounterInv == \A c \in LinkConn : entries[c].ctr = Len(sealed_frames[c])
SenderInv(k) ==
    \A t \in LinkThread : /\ senders[t].at = "idle" => senders[t].e = 0
                          /\ senders[t].at = "lock" => senders[t].e # 0
                          /\ senders[t].at # "idle" => senders[t].fd \in Kind[k].fd
TargetInv(k) ==
    \A t \in LinkThread : senders[t].e # 0 =>
        \A f \in Kind[k].fd : sockets[f].conn = senders[t].e => senders[t].fd = f
WriteInv ==
    \A t \in LinkThread, c \in LinkConn : Writing(t) /\ senders[t].e = c =>
        /\ entries[c].tx = t /\ entries[c].ctr = senders[t].ctr + 1
        /\ sealed_frames[c][senders[t].ctr + 1] = <<t, senders[t].size>>
Sealed(x) == x.key # 0 => /\ x.ctr < Len(sealed_frames[x.key])
                          /\ sealed_frames[x.key][x.ctr + 1] = <<x.by, x.size>>
FrameInv ==
    /\ \A c \in LinkConn : \A i \in 1 .. Len(streams[c]) : Sealed(streams[c][i])
    /\ \A c \in LinkConn : handlers[c].at = "body" => Sealed(handlers[c].head) /\ handlers[c].head.part = "head"
    /\ \A c \in LinkConn : handlers[c].at \in {"none", "backlog", "shake"} => handlers[c].rx = 0
    /\ \A c \in LinkConn : handlers[c].at # "gone" => Len(taken_frames[c]) = handlers[c].rx
    /\ \A c \in LinkConn : /\ Len(taken_frames[c]) <= Len(sealed_frames[c])
                           /\ \A i \in 1 .. Len(taken_frames[c]) : taken_frames[c][i] = sealed_frames[c][i]
After(x) == IF x.part = "head" THEN <<x.ctr, "rest">> ELSE <<x.ctr + 1, "head">>
AfterPiece(c, i) == IF i # 0 THEN After(streams[c][i])
               ELSE <<handlers[c].rx, IF handlers[c].at = "body" THEN "rest" ELSE "head">>
End(c) == AfterPiece(c, Len(streams[c]))
OrderedInv(k, c) ==
    /\ handlers[c].at = "body" => handlers[c].head.key = c /\ handlers[c].head.ctr = handlers[c].rx
    /\ \A i \in 1 .. Len(streams[c]) :
          streams[c][i].key = c /\ <<streams[c][i].ctr, streams[c][i].part>> = AfterPiece(c, i - 1)
    /\ \A f \in Kind[k].fd : sockets[f].conn = c =>
          /\ \A t \in LinkThread : Writing(t) /\ senders[t].e = c
                                   => End(c) = <<senders[t].ctr, senders[t].at>>
          /\ (\A t \in LinkThread : ~(Writing(t) /\ senders[t].e = c))
             => End(c) = <<entries[c].ctr, "head">>
StreamInv(k) == \A c \in LinkConn : c \notin mixed /\ handlers[c].at # "gone" => OrderedInv(k, c)
Attended == {"shake", "read", "body", "hold"}
HoldInv(k) ==
    /\ \A c \in LinkConn : handlers[c].at \notin {"body", "hold"} => handlers[c].head = NoPiece
    /\ places = Cardinality(Link(k)!Serving) /\ places <= Kind[k].gate
    /\ buffered = Cardinality(Link(k)!Held) /\ buffered <= LinkBudget
KnownInv(k) == \A h \in LinkHost : known_keys[h] = {} \/ \E x \in Kind[k].keys : known_keys[h] = {x}
PinInv(k) ==
    \A f \in Kind[k].fd, c \in LinkConn : registry[f] = c => {entries[c].peer} = known_keys[sockets[f].host]
LinkInv(k) ==
    /\ LocalType(k) /\ RemoteType /\ SocketInv(k) /\ PublishInv(k) /\ UnusedInv(k) /\ FreshInv
    /\ SessionInv(k) /\ CounterInv /\ SenderInv(k) /\ TargetInv(k) /\ WriteInv
    /\ FrameInv /\ StreamInv(k) /\ HoldInv(k) /\ KnownInv(k) /\ PinInv(k)


LEMMA LinkCounts == ASSUME NEW k PROVE \A S : Link(k)!Cardinality(S) = Cardinality(S)
  BY DEF Link!Cardinality, Cardinality

\* Nothing is open, published or sent at the start.
LEMMA LinkStart == ASSUME NEW k, LinkConstants(k), Link(k)!Init PROVE LinkInv(k)
<1>1. /\ sockets = [f \in Kind[k].fd |-> [conn |-> 0, at |-> "free"]] /\ registry = [f \in Kind[k].fd |-> 0]
      /\ entries = [c \in LinkConn |-> [refs |-> 0, closing |-> FALSE, freed |-> FALSE, tx |-> 0, ctr |-> 0, peer |-> 0]]
      /\ senders = [t \in LinkThread |-> [at |-> "idle", fd |-> 0, e |-> 0, ctr |-> 0, size |-> 0]]
      /\ known_keys = [h \in LinkHost |-> {}] /\ streams = [c \in LinkConn |-> <<>>]
      /\ handlers = [c \in LinkConn |-> [at |-> "none", rx |-> 0, head |-> NoPiece]]
      /\ places = 0 /\ buffered = 0 /\ dialled = 1
      /\ sealed_frames = [c \in LinkConn |-> <<>>] /\ taken_frames = [c \in LinkConn |-> <<>>]
  BY DEF Link!Init, Link!Closed, Link!Fresh, Link!Idle, Link!NoHead, NoPiece, Link!Conn, LinkConn
<1> USE DEF LinkConstants
<1>2. LocalType(k)
  BY <1>1 DEF LocalType, Socket, Sender, Session
<1>3. RemoteType
  BY <1>1 DEF RemoteType, Handler
<1>4. SocketInv(k) /\ PublishInv(k) /\ UnusedInv(k) /\ FreshInv
  BY <1>1 DEF SocketInv, PublishInv, UnusedInv, FreshInv, Unopened, LinkConn
<1>5. \A c \in LinkConn : UsersOf(c) = {}
  BY <1>1 DEF UsersOf
<1>6. SessionInv(k) /\ CounterInv /\ SenderInv(k) /\ TargetInv(k) /\ WriteInv
  BY <1>1, <1>5, FS_EmptySet DEF SessionInv, CounterInv, SenderInv, TargetInv, WriteInv, Writing, LinkConn
<1>7. FrameInv /\ StreamInv(k)
  BY <1>1 DEF FrameInv, StreamInv, OrderedInv, End, AfterPiece, Writing
<1>8. Link(k)!Serving = {} /\ Link(k)!Held = {}
  BY <1>1 DEF Link!Serving, Link!Held, NoPiece, Link!Conn, LinkConn
<1>9. HoldInv(k)
  BY <1>1, <1>8, FS_EmptySet DEF HoldInv
<1>10. KnownInv(k) /\ PinInv(k)
  BY <1>1 DEF KnownInv, PinInv, LinkConn
<1> QED BY <1>2, <1>3, <1>4, <1>6, <1>7, <1>9, <1>10 DEF LinkInv

\* A session without references has no users.
LEMMA NoUsers ==
    ASSUME NEW k, LinkConstants(k), SessionInv(k), SenderInv(k), NEW c \in LinkConn, entries[c].refs = 0
    PROVE  UsersOf(c) = {} /\ \A t \in LinkThread : senders[t].e # c
<1>1. UsersOf(c) \subseteq LinkThread /\ IsFiniteSet(UsersOf(c))
  BY FS_Subset DEF UsersOf, LinkConstants
<1>2. UsersOf(c) = {}
  BY <1>1, FS_EmptySet DEF SessionInv
<1> QED BY <1>2 DEF UsersOf, SenderInv, LinkConn

\* A handler that neither enters nor leaves, nor reads a frame, holds what it held.
LEMMA HoldKept ==
    ASSUME NEW k, HoldInv(k), UNCHANGED <<places, buffered>>,
           \A c \in LinkConn : /\ handlers'[c].head = handlers[c].head
                               /\ handlers[c].at \in Attended <=> handlers'[c].at \in Attended
                               /\ handlers'[c].at \notin {"body", "hold"} => handlers[c].head = NoPiece
    PROVE  HoldInv(k)'
<1>1. Link(k)!Serving' = Link(k)!Serving
  BY DEF Link!Serving, Attended, Link!Conn, LinkConn
<1>2. Link(k)!Held' = Link(k)!Held
  BY DEF Link!Held, Link!Conn, LinkConn
<1> QED BY <1>1, <1>2 DEF HoldInv

\* What was sealed and taken stays so while a stream is at rest.
LEMMA FrameKept ==
    ASSUME FrameInv, UNCHANGED <<streams, sealed_frames, taken_frames>>,
           \A c \in LinkConn : /\ handlers'[c].head = handlers[c].head /\ handlers'[c].rx = handlers[c].rx
                               /\ handlers'[c].at = "body" => handlers[c].at = "body"
                               /\ handlers'[c].at \in {"none", "backlog", "shake"} =>
                                    handlers[c].at \in {"none", "backlog", "shake"}
                               /\ handlers[c].at = "gone" => handlers'[c].at = "gone"
    PROVE  FrameInv'
<1>1. \A x : Sealed(x)' = Sealed(x)
  BY DEF Sealed
<1> QED BY <1>1 DEF FrameInv

\* A stream that nobody touches, read as before, is in order as before.
LEMMA OrderKept ==
    ASSUME NEW k, NEW c \in LinkConn, OrderedInv(k, c),
           streams'[c] = streams[c], handlers'[c].rx = handlers[c].rx, handlers'[c].head = handlers[c].head,
           handlers'[c].at = "body" <=> handlers[c].at = "body",
           \A f \in Kind[k].fd : sockets'[f].conn = c => sockets[f].conn = c,
           (\E f \in Kind[k].fd : sockets[f].conn = c) =>
              /\ entries'[c].ctr = entries[c].ctr
              /\ \A t \in LinkThread : /\ (Writing(t)' /\ senders'[t].e = c) <=> (Writing(t) /\ senders[t].e = c)
                                       /\ Writing(t) /\ senders[t].e = c =>
                                            senders'[t].ctr = senders[t].ctr /\ senders'[t].at = senders[t].at
    PROVE  OrderedInv(k, c)'
<1>1. End(c)' = End(c) /\ \A i : AfterPiece(c, i)' = AfterPiece(c, i)
  BY DEF End, AfterPiece, After
<1>2. \A f \in Kind[k].fd : sockets'[f].conn = c =>
        /\ \A t \in LinkThread : Writing(t)' /\ senders'[t].e = c
                                   => End(c) = <<senders'[t].ctr, senders'[t].at>>
        /\ (\A t \in LinkThread : ~(Writing(t)' /\ senders'[t].e = c))
             => End(c) = <<entries'[c].ctr, "head">>
  BY DEF OrderedInv
<1> QED BY <1>1, <1>2 DEF OrderedInv

\* lmb_connect opens a socket on a connection nobody has used.
LEMMA ConnectStep ==
    ASSUME NEW k, LinkConstants(k), LinkInv(k), NEW f \in Kind[k].fd, Link(k)!Connect(f) PROVE LinkInv(k)'
<1> USE DEF LinkInv
<1>0. PICK b \in LinkConn : b = dialled
  BY DEF Link!Connect, LocalType, Socket, Sender, LinkConn, LinkConstants
<1>1. /\ sockets[f].conn = 0 /\ sockets[f].at = "free"
      /\ handlers' = [handlers EXCEPT ![b].at = "backlog"] /\ dialled = b /\ dialled' = b + 1
      /\ UNCHANGED <<registry, entries, senders, known_keys, streams, places, buffered, sealed_frames, taken_frames, mixed>>
  BY <1>0 DEF Link!Connect, Link!Closed, LocalType, Socket, Sender, LinkConn
<1>2. PICK h \in LinkHost : sockets' = [sockets EXCEPT ![f] = [conn |-> b, at |-> "shake", host |-> h]]
  BY <1>0 DEF Link!Connect
<1>3. /\ Unopened(b) /\ streams[b] = <<>> /\ handlers[b].at = "none" /\ handlers[b].rx = 0
      /\ UsersOf(b) = {} /\ \A t \in LinkThread : senders[t].e # b
  BY <1>1, NoUsers DEF UnusedInv, FreshInv, FrameInv, Unopened, LocalType, Socket, Sender
<1>4. LocalType(k)'
  BY <1>1, <1>2 DEF LocalType, Socket, Sender, LinkConn, Session
<1>5. RemoteType'
  BY <1>1 DEF RemoteType, Handler
<1>6. \A g \in Kind[k].fd : g # f => sockets'[g] = sockets[g]
  BY <1>2 DEF LocalType, Socket, Sender
<1>7. sockets'[f] = [conn |-> b, at |-> "shake", host |-> h]
  BY <1>2 DEF LocalType, Socket, Sender
<1>8. \A c \in LinkConn : Unopened(c)' = Unopened(c)
  BY <1>1 DEF Unopened
<1>26. \A g \in Kind[k].fd : sockets[g].conn \in Nat /\ sockets[g].conn < b
  BY <1>1 DEF SocketInv, LocalType, Socket, Sender, LinkConn
<1>9. SocketInv(k)'
  <2>1. \A g \in Kind[k].fd : sockets'[g].conn \in Nat /\ sockets'[g].conn < b + 1
                             /\ (sockets'[g].conn = b <=> g = f)
    BY <1>6, <1>7, <1>26 DEF LinkConn
  <2> QED BY <2>1, <1>1, <1>6, <1>26 DEF SocketInv
<1>22. PublishInv(k)'
  BY <1>1, <1>6, <1>7 DEF PublishInv, LinkConn
<1>23. UnusedInv(k)'
  <2>1. \A c \in LinkConn : c >= b + 1 => c >= b
    BY DEF LinkConn
  <2> QED BY <2>1, <1>1, <1>3, <1>6, <1>7, <1>8 DEF UnusedInv
<1>10. \A c \in LinkConn : /\ handlers'[c].head = handlers[c].head /\ handlers'[c].rx = handlers[c].rx
                           /\ c # b => handlers'[c].at = handlers[c].at
  BY <1>1 DEF RemoteType, Handler
<1>11. handlers'[b].at = "backlog"
  BY <1>1 DEF RemoteType, Handler
<1>12. FreshInv'
  BY <1>1, <1>10, <1>11 DEF FreshInv, LocalType, Socket, Sender, LinkConn
<1>13. \A c \in LinkConn : UsersOf(c)' = UsersOf(c)
  BY <1>1 DEF UsersOf
<1>14. \A t \in LinkThread : Writing(t)' = Writing(t)
  BY <1>1 DEF Writing
<1>15. SessionInv(k)' /\ CounterInv' /\ SenderInv(k)'
  BY <1>1, <1>13 DEF SessionInv, CounterInv, SenderInv
<1>24. TargetInv(k)'
  BY <1>1, <1>3, <1>6, <1>7 DEF TargetInv
<1>25. WriteInv'
  BY <1>1, <1>14 DEF WriteInv
<1>16. FrameInv'
  BY <1>1, <1>3, <1>10, <1>11, FrameKept
<1>17. ASSUME NEW c \in LinkConn, c \notin mixed', handlers'[c].at # "gone", c # b PROVE OrderedInv(k, c)'
  BY <1>1, <1>6, <1>7, <1>10, <1>14, <1>17, OrderKept DEF StreamInv
<1>18. OrderedInv(k, b)'
  <2>1. End(b)' = <<0, "head">> /\ Len(streams'[b]) = 0
    BY <1>1, <1>3, <1>10, <1>11 DEF End, AfterPiece
  <2>2. \A t \in LinkThread : ~(Writing(t)' /\ senders'[t].e = b)
    BY <1>1, <1>3
  <2>3. entries'[b].ctr = 0 /\ handlers'[b].at # "body"
    BY <1>1, <1>3, <1>11 DEF Unopened
  <2> QED BY <2>1, <2>2, <2>3 DEF OrderedInv
<1>19. StreamInv(k)'
  <2> SUFFICES ASSUME NEW c \in LinkConn, c \notin mixed', handlers'[c].at # "gone" PROVE OrderedInv(k, c)'
    BY DEF StreamInv
  <2> QED BY <1>17, <1>18
<1>20. HoldInv(k)'
  BY <1>1, <1>3, <1>10, <1>11, HoldKept DEF Attended, HoldInv
<1>21. KnownInv(k)' /\ PinInv(k)'
  BY <1>1, <1>6, <1>7 DEF KnownInv, PinInv, PublishInv, LinkConn
<1> QED BY <1>4, <1>5, <1>9, <1>12, <1>15, <1>16, <1>19, <1>20, <1>21, <1>22, <1>23, <1>24, <1>25

\* The sides agree on fresh keys: nothing has been sent under them.
LEMMA HandshakeStep ==
    ASSUME NEW k, LinkConstants(k), LinkInv(k), NEW f \in Kind[k].fd, Link(k)!Handshake(f) PROVE LinkInv(k)'
<1> USE DEF LinkInv
<1>0. PICK b \in LinkConn : b = sockets[f].conn
  BY DEF Link!Handshake, LocalType, Socket, Sender
<1>1. /\ sockets[f].conn = b /\ sockets[f].at = "shake" /\ handlers[b].at = "shake" /\ streams[b] = <<>>
      /\ sockets' = [sockets EXCEPT ![f].at = "pin"] /\ handlers' = [handlers EXCEPT ![b].at = "read"]
      /\ UNCHANGED <<registry, senders, known_keys, streams, places, buffered, dialled, sealed_frames, taken_frames, mixed>>
  BY <1>0 DEF Link!Handshake
<1>2. PICK x \in Kind[k].keys : entries' = [entries EXCEPT ![b].peer = x]
  BY <1>0 DEF Link!Handshake
<1>3. /\ Unopened(b) /\ handlers[b].rx = 0 /\ b < dialled
      /\ UsersOf(b) = {} /\ \A t \in LinkThread : senders[t].e # b
  BY <1>1, NoUsers DEF UnusedInv, SocketInv, FrameInv, Unopened
<1>4. LocalType(k)'
  <2>1. /\ entries \in [LinkConn -> Session(k)] /\ sockets \in [Kind[k].fd -> Socket]
    BY DEF LocalType
  <2>2. [entries[b] EXCEPT !.peer = x] \in Session(k)
    BY <2>1 DEF Session
  <2>3. [sockets[f] EXCEPT !.at = "pin"] \in Socket
    BY <2>1, <1>1 DEF Socket
  <2>4. entries' \in [LinkConn -> Session(k)] /\ sockets' \in [Kind[k].fd -> Socket]
    BY <1>1, <1>2, <2>1, <2>2, <2>3
  <2> QED BY <1>1, <2>4 DEF LocalType
<1>5. RemoteType'
  BY <1>1 DEF RemoteType, Handler
<1>6. \A g \in Kind[k].fd : sockets'[g].conn = sockets[g].conn /\ (g # f => sockets'[g] = sockets[g])
  BY <1>1 DEF LocalType, Socket, Sender
<1>7. sockets'[f].at = "pin"
  BY <1>1 DEF LocalType, Socket, Sender
<1>8. \A c \in LinkConn : /\ c # b => entries'[c] = entries[c]
                          /\ entries'[c].refs = entries[c].refs /\ entries'[c].closing = entries[c].closing
                          /\ entries'[c].freed = entries[c].freed /\ entries'[c].tx = entries[c].tx
                          /\ entries'[c].ctr = entries[c].ctr
  BY <1>1, <1>2 DEF LocalType, Socket, Sender, Session
<1>9. entries'[b].peer = x
  BY <1>1, <1>2 DEF LocalType, Socket, Sender, Session
<1>10. \A c \in LinkConn : Unopened(c)' = Unopened(c)
  BY <1>8 DEF Unopened
<1>11. SocketInv(k)' /\ PublishInv(k)'
  BY <1>1, <1>6, <1>7 DEF SocketInv, PublishInv
<1>24. UnusedInv(k)'
  BY <1>1, <1>3, <1>6, <1>7, <1>8, <1>9, <1>10 DEF UnusedInv, SocketInv
<1>12. \A c \in LinkConn : /\ handlers'[c].head = handlers[c].head /\ handlers'[c].rx = handlers[c].rx
                           /\ c # b => handlers'[c].at = handlers[c].at
  BY <1>1 DEF RemoteType, Handler
<1>13. handlers'[b].at = "read"
  BY <1>1 DEF RemoteType, Handler
<1>14. FreshInv'
  BY <1>1, <1>3, <1>12, <1>13 DEF FreshInv, LocalType, Socket, Sender, LinkConn
<1>15. \A c \in LinkConn : UsersOf(c)' = UsersOf(c)
  BY <1>1 DEF UsersOf
<1>16. \A t \in LinkThread : Writing(t)' = Writing(t) /\ (Writing(t) => senders[t].e \in LinkConn)
  BY <1>1 DEF Writing, LocalType, Socket, Sender, LinkConn
<1>17. SessionInv(k)' /\ CounterInv' /\ SenderInv(k)'
  BY <1>1, <1>8, <1>15 DEF SessionInv, CounterInv, SenderInv
<1>25. TargetInv(k)'
  BY <1>1, <1>6 DEF TargetInv
<1>26. WriteInv'
  BY <1>1, <1>8, <1>16 DEF WriteInv
<1>18. FrameInv'
  BY <1>1, <1>12, <1>13, FrameKept
<1>19. ASSUME NEW c \in LinkConn, c \notin mixed', handlers'[c].at # "gone" PROVE OrderedInv(k, c)'
  BY <1>1, <1>6, <1>8, <1>12, <1>13, <1>16, <1>19, OrderKept DEF StreamInv
<1>20. StreamInv(k)'
  BY <1>19 DEF StreamInv
<1>21. HoldInv(k)'
  BY <1>1, <1>12, <1>13, HoldKept DEF Attended, HoldInv
<1>22. registry[f] = 0 /\ \A g \in Kind[k].fd : registry[g] # b
  BY <1>1, <1>7 DEF PublishInv, SocketInv, LinkConn
<1>23. KnownInv(k)' /\ PinInv(k)'
  <2>1. ASSUME NEW g \in Kind[k].fd, NEW c \in LinkConn, registry[g] = c
        PROVE  c # b /\ entries'[c] = entries[c] /\ sockets'[g] = sockets[g]
    BY <1>6, <1>8, <1>22, <2>1 DEF LinkConn
  <2> QED BY <1>1, <2>1 DEF KnownInv, PinInv
<1> QED BY <1>4, <1>5, <1>11, <1>14, <1>17, <1>18, <1>20, <1>21, <1>23, <1>24, <1>25, <1>26

\* Opening and closing a socket leaves every call and every stream where it is.
LEMMA CallsKept ==
    ASSUME NEW k, LinkInv(k),
           UNCHANGED <<senders, streams, handlers, places, buffered, dialled, sealed_frames, taken_frames, mixed>>,
           \A f \in Kind[k].fd : sockets'[f].conn = sockets[f].conn \/ sockets'[f].conn = 0,
           \A c \in LinkConn : /\ entries'[c].refs = entries[c].refs /\ entries'[c].tx = entries[c].tx
                               /\ entries'[c].ctr = entries[c].ctr
    PROVE  /\ RemoteType' /\ SocketInv(k)' /\ FreshInv' /\ CounterInv' /\ SenderInv(k)' /\ TargetInv(k)' /\ WriteInv'
           /\ FrameInv' /\ StreamInv(k)' /\ HoldInv(k)' /\ \A c \in LinkConn : UsersOf(c)' = UsersOf(c)
<1> USE DEF LinkInv
<1>1. RemoteType' /\ FreshInv' /\ SenderInv(k)' /\ CounterInv'
  BY DEF RemoteType, FreshInv, SenderInv, CounterInv
<1>2. SocketInv(k)'
  <2>1. dialled > 0
    BY DEF LocalType
  <2> QED BY <2>1 DEF SocketInv
<1>3. TargetInv(k)'
  BY DEF TargetInv
<1>4. \A t \in LinkThread : /\ Writing(t)' = Writing(t) /\ (Writing(t) => senders[t].e \in LinkConn)
  BY DEF Writing, LocalType, Sender, LinkConn
<1>5. WriteInv'
  BY <1>4 DEF WriteInv
<1>6. FrameInv'
  BY FrameKept
<1>7. ASSUME NEW c \in LinkConn, c \notin mixed, handlers[c].at # "gone" PROVE OrderedInv(k, c)'
  <2>1. OrderedInv(k, c)
    BY <1>7 DEF StreamInv
  <2>2. \A f \in Kind[k].fd : sockets'[f].conn = c => sockets[f].conn = c
    BY DEF LinkConn
  <2> QED BY <1>4, <2>1, <2>2, OrderKept
<1>8. StreamInv(k)'
  BY <1>7 DEF StreamInv
<1>9. HoldInv(k)'
  BY HoldKept DEF HoldInv, Attended
<1>10. \A c \in LinkConn : UsersOf(c)' = UsersOf(c)
  BY DEF UsersOf
<1> QED BY <1>1, <1>2, <1>3, <1>5, <1>6, <1>8, <1>9, <1>10

\* A handshake that fails frees an entry that was never published.
LEMMA HandshakeFailsStep ==
    ASSUME NEW k, LinkConstants(k), LinkInv(k), NEW f \in Kind[k].fd, Link(k)!HandshakeFails(f) PROVE LinkInv(k)'
<1> USE DEF LinkInv
<1>0. PICK b \in LinkConn : b = sockets[f].conn
  BY DEF Link!HandshakeFails, LocalType, Socket
<1>1. /\ sockets[f].conn = b /\ sockets[f].at = "shake"
      /\ sockets' = [sockets EXCEPT ![f].at = "closing"] /\ entries' = [entries EXCEPT ![b].freed = TRUE]
      /\ UNCHANGED <<registry, senders, known_keys, streams, handlers, places, buffered, dialled, sealed_frames,
                     taken_frames, mixed>>
  BY <1>0 DEF Link!HandshakeFails
<1>2. /\ Unopened(b) /\ UsersOf(b) = {}
      /\ \A g \in Kind[k].fd : registry[g] # b /\ (sockets[g].conn = b => g = f)
  BY <1>1, NoUsers DEF UnusedInv, SocketInv, PublishInv, Unopened, LinkConn
<1>3. LocalType(k)'
  <2>1. /\ entries \in [LinkConn -> Session(k)] /\ sockets \in [Kind[k].fd -> Socket]
    BY DEF LocalType
  <2>2. [entries[b] EXCEPT !.freed = TRUE] \in Session(k)
    BY <2>1 DEF Session
  <2>3. [sockets[f] EXCEPT !.at = "closing"] \in Socket
    BY <2>1, <1>1 DEF Socket
  <2>4. entries' \in [LinkConn -> Session(k)] /\ sockets' \in [Kind[k].fd -> Socket]
    BY <1>1, <2>1, <2>2, <2>3
  <2> QED BY <1>1, <2>4 DEF LocalType
<1>4. \A g \in Kind[k].fd : /\ sockets'[g].conn = sockets[g].conn /\ (g # f => sockets'[g] = sockets[g])
                            /\ (g = f => sockets'[g].at = "closing")
  BY <1>1 DEF LocalType, Socket
<1>5. \A c \in LinkConn : /\ c # b => entries'[c] = entries[c]
                          /\ entries'[c].refs = entries[c].refs /\ entries'[c].tx = entries[c].tx
                          /\ entries'[c].ctr = entries[c].ctr /\ entries'[c].peer = entries[c].peer
  BY <1>1 DEF LocalType, Session
<1>6. /\ RemoteType' /\ SocketInv(k)' /\ FreshInv' /\ CounterInv' /\ SenderInv(k)' /\ TargetInv(k)' /\ WriteInv'
      /\ FrameInv' /\ StreamInv(k)' /\ HoldInv(k)' /\ \A c \in LinkConn : UsersOf(c)' = UsersOf(c)
  BY <1>1, <1>4, <1>5, CallsKept
<1>7. PublishInv(k)'
  BY <1>1, <1>2, <1>4 DEF PublishInv
<1>8. UnusedInv(k)'
  <2>1. b < dialled /\ b \in Nat /\ dialled \in Nat
    BY <1>1 DEF SocketInv, LocalType, LinkConn
  <2>2. \A c \in LinkConn : c # b => Unopened(c)' = Unopened(c)
    BY <1>5 DEF Unopened
  <2> QED BY <1>1, <1>2, <1>4, <1>5, <2>1, <2>2 DEF UnusedInv
<1>9. SessionInv(k)'
  BY <1>1, <1>2, <1>5, <1>6 DEF SessionInv
<1>10. KnownInv(k)'
  BY <1>1 DEF KnownInv
<1>11. PinInv(k)'
  <2>1. \A g \in Kind[k].fd : sockets'[g].host = sockets[g].host
    BY <1>1 DEF LocalType, Socket
  <2> QED BY <1>1, <1>5, <2>1 DEF PinInv
<1> QED BY <1>3, <1>6, <1>7, <1>8, <1>9, <1>10, <1>11

\* lmb_close forgets the session, and frees it when no call uses it.
LEMMA LinkClosesStep ==
    ASSUME NEW k, LinkConstants(k), LinkInv(k), NEW f \in Kind[k].fd, Link(k)!Close(f) PROVE LinkInv(k)'
<1> USE DEF LinkInv
<1>0. PICK b \in LinkConn : b = sockets[f].conn
  BY DEF Link!Close, LocalType, Socket
<1>1. /\ sockets[f].conn = b /\ sockets[f].at = "up" /\ registry[f] \in {0, b}
      /\ sockets' = [sockets EXCEPT ![f].at = "closing"] /\ registry' = [registry EXCEPT ![f] = 0]
      /\ UNCHANGED <<senders, known_keys, streams, handlers, places, buffered, dialled, sealed_frames, taken_frames, mixed>>
  BY <1>0 DEF Link!Close, PublishInv
<1>13. b # 0
  BY DEF LinkConn
<1>14. entries' = Link(k)!Forgotten(f)
  BY DEF Link!Close
<1>2. /\ registry[f] # b => entries' = entries
      /\ registry[f] = b => entries' = [entries EXCEPT ![b].closing = TRUE, ![b].freed = (entries[b].refs = 0)]
  <2>1. CASE registry[f] = 0
    BY <1>13, <1>14, <2>1 DEF Link!Forgotten
  <2>2. CASE registry[f] = b
    BY <1>13, <1>14, <2>2, Zenon DEF Link!Forgotten
  <2> QED BY <1>1, <2>1, <2>2, <1>13
<1>3. \A g \in Kind[k].fd : /\ sockets'[g].conn = sockets[g].conn /\ (g # f => sockets'[g] = sockets[g])
                            /\ (g = f => sockets'[g].at = "closing")
  BY <1>1 DEF LocalType, Socket
<1>4. \A g \in Kind[k].fd : registry'[g] = IF g = f THEN 0 ELSE registry[g]
  BY <1>1 DEF LocalType
<1>5. \A c \in LinkConn : /\ c # b => entries'[c] = entries[c]
                          /\ entries'[c].refs = entries[c].refs /\ entries'[c].tx = entries[c].tx
                          /\ entries'[c].ctr = entries[c].ctr /\ entries'[c].peer = entries[c].peer
  BY <1>1, <1>2 DEF LocalType, Session
<1>6. /\ RemoteType' /\ SocketInv(k)' /\ FreshInv' /\ CounterInv' /\ SenderInv(k)' /\ TargetInv(k)' /\ WriteInv'
      /\ FrameInv' /\ StreamInv(k)' /\ HoldInv(k)' /\ \A c \in LinkConn : UsersOf(c)' = UsersOf(c)
  BY <1>1, <1>3, <1>5, CallsKept
<1>7. LocalType(k)'
  <2>1. /\ entries \in [LinkConn -> Session(k)] /\ sockets \in [Kind[k].fd -> Socket]
        /\ registry \in [Kind[k].fd -> 0 .. LinkConns] /\ 0 \in 0 .. LinkConns
    BY DEF LocalType, LinkConstants
  <2>2. [entries[b] EXCEPT !.closing = TRUE, !.freed = (entries[b].refs = 0)] \in Session(k)
    <3>1. (entries[b].refs = 0) \in BOOLEAN /\ entries[b] \in Session(k)
      BY <2>1
    <3> QED BY <3>1 DEF Session
  <2>3. [sockets[f] EXCEPT !.at = "closing"] \in Socket
    BY <2>1, <1>1 DEF Socket
  <2>4. sockets' \in [Kind[k].fd -> Socket] /\ registry' \in [Kind[k].fd -> 0 .. LinkConns]
    BY <1>1, <2>1, <2>3
  <2>5. entries' \in [LinkConn -> Session(k)]
    BY <1>2, <2>1, <2>2
  <2> QED BY <1>1, <2>4, <2>5 DEF LocalType
<1>8. \A g \in Kind[k].fd : registry'[g] # b /\ (sockets[g].conn = b => g = f)
  BY <1>1, <1>4 DEF PublishInv, SocketInv, LinkConn
<1>9. PublishInv(k)'
  BY <1>3, <1>4 DEF PublishInv
<1>10. UnusedInv(k)'
  <2>1. b < dialled /\ b \in Nat /\ dialled \in Nat
    BY <1>1 DEF SocketInv, LocalType, LinkConn
  <2>2. \A c \in LinkConn : c # b => Unopened(c)' = Unopened(c)
    BY <1>5 DEF Unopened
  <2> QED BY <1>1, <1>3, <1>5, <1>8, <2>1, <2>2 DEF UnusedInv
<1>11. SessionInv(k)'
  <2>1. ASSUME NEW c \in LinkConn, c # b
        PROVE  /\ entries'[c].refs = Cardinality(UsersOf(c)') /\ (entries'[c].freed => UsersOf(c)' = {})
               /\ (entries'[c].freed \/ entries'[c].closing => \A g \in Kind[k].fd : registry'[g] # c)
               /\ (entries'[c].closing /\ UsersOf(c)' = {} => entries'[c].freed)
    <3>1. entries'[c] = entries[c] /\ UsersOf(c)' = UsersOf(c) /\ \A g \in Kind[k].fd : registry'[g] \in {0, registry[g]}
      BY <1>4, <1>5, <1>6, <2>1
    <3> QED BY <3>1 DEF SessionInv, LinkConn
  <2>2. /\ entries'[b].refs = Cardinality(UsersOf(b)') /\ (entries'[b].freed => UsersOf(b)' = {})
        /\ (entries'[b].closing /\ UsersOf(b)' = {} => entries'[b].freed)
    <3>1. UsersOf(b) = {} <=> entries[b].refs = 0
      BY NoUsers, FS_EmptySet DEF SessionInv
    <3>2. registry[f] = b => entries'[b].freed = (entries[b].refs = 0)
      BY <1>2 DEF LocalType, Session
    <3> QED BY <1>2, <1>5, <1>6, <3>1, <3>2 DEF SessionInv
  <2> QED BY <1>8, <2>1, <2>2 DEF SessionInv
<1>12. KnownInv(k)' /\ PinInv(k)'
  BY <1>1, <1>3, <1>4, <1>5, <1>8 DEF KnownInv, PinInv, LinkConn
<1> QED BY <1>6, <1>7, <1>9, <1>10, <1>11, <1>12

\* The closed number belongs to no connection.
LEMMA CloseSocketStep ==
    ASSUME NEW k, LinkConstants(k), LinkInv(k), NEW f \in Kind[k].fd, Link(k)!CloseSocket(f) PROVE LinkInv(k)'
<1> USE DEF LinkInv
<1>1. /\ sockets[f].at = "closing" /\ sockets' = [sockets EXCEPT ![f] = [conn |-> 0, at |-> "free"]]
      /\ UNCHANGED <<registry, entries, senders, known_keys, streams, handlers, places, buffered, dialled, sealed_frames,
                     taken_frames, mixed>>
  BY DEF Link!CloseSocket, Link!Closed
<1>2. \A g \in Kind[k].fd : sockets'[g] = IF g = f THEN [conn |-> 0, at |-> "free"] ELSE sockets[g]
  BY <1>1 DEF LocalType
<1>3. /\ RemoteType' /\ SocketInv(k)' /\ FreshInv' /\ CounterInv' /\ SenderInv(k)' /\ TargetInv(k)' /\ WriteInv'
      /\ FrameInv' /\ StreamInv(k)' /\ HoldInv(k)' /\ \A c \in LinkConn : UsersOf(c)' = UsersOf(c)
  BY <1>1, <1>2, CallsKept
<1>4. LocalType(k)'
  <2>1. [conn |-> 0, at |-> "free"] \in Socket
    BY DEF Socket
  <2> QED BY <1>1, <2>1 DEF LocalType
<1>5. registry[f] = 0
  BY <1>1 DEF PublishInv
<1>6. PublishInv(k)'
  BY <1>1, <1>2, <1>5 DEF PublishInv
<1>7. UnusedInv(k)'
  <2>1. \A c \in LinkConn : Unopened(c)' = Unopened(c)
    BY <1>1 DEF Unopened
  <2> QED BY <1>1, <1>2, <2>1 DEF UnusedInv, LinkConn
<1>8. SessionInv(k)'
  BY <1>1, <1>3 DEF SessionInv
<1>9. KnownInv(k)' /\ PinInv(k)'
  BY <1>1, <1>2, <1>5 DEF KnownInv, PinInv, LinkConn
<1> QED BY <1>3, <1>4, <1>6, <1>7, <1>8, <1>9

\* The session is published under the key the host has always had, or freed.
LEMMA PinStep ==
    ASSUME NEW k, LinkConstants(k), LinkInv(k), NEW f \in Kind[k].fd, Link(k)!Pin(f) PROVE LinkInv(k)'
<1> USE DEF LinkInv
<1>0. PICK b \in LinkConn, h \in LinkHost : b = sockets[f].conn /\ h = sockets[f].host
  BY DEF Link!Pin, LocalType, Socket
<1>1. /\ sockets[f].conn = b /\ sockets[f].host = h /\ sockets[f].at = "pin" /\ registry[f] = 0
      /\ UNCHANGED <<senders, streams, handlers, places, buffered, dialled, sealed_frames, taken_frames, mixed>>
  BY <1>0 DEF Link!Pin, PublishInv
<1>2. PICK x \in Kind[k].keys : x = entries[b].peer
  BY <1>1 DEF UnusedInv
<1>3. Link(k)!Forgotten(f) = entries
  BY <1>1 DEF Link!Forgotten
<1>4. PICK opens \in BOOLEAN :
        /\ sockets' = [sockets EXCEPT ![f].at = IF opens THEN "up" ELSE "closing"]
        /\ entries' = [entries EXCEPT ![b].freed = ~opens]
        /\ \A g \in Kind[k].fd : registry'[g] = IF g = f /\ opens THEN b ELSE registry[g]
        /\ registry' \in [Kind[k].fd -> 0 .. LinkConns]
        /\ \/ known_keys' = known_keys /\ ~opens
           \/ Link(k)!Accepts(known_keys[h], x) /\ known_keys' = [known_keys EXCEPT ![h] = @ \cup {x}]
  <2>1. registry \in [Kind[k].fd -> 0 .. LinkConns] /\ b \in 0 .. LinkConns /\ 0 \in 0 .. LinkConns
    BY DEF LocalType, LinkConn, LinkConstants
  <2>2. CASE ~Link(k)!Accepts(known_keys[h], x)
    <3>1. /\ sockets' = [sockets EXCEPT ![f].at = "closing"] /\ entries' = [entries EXCEPT ![b].freed = TRUE]
          /\ known_keys' = known_keys /\ registry' = registry
      BY <1>0, <1>2, <2>2 DEF Link!Pin
    <3>2. sockets' = [sockets EXCEPT ![f].at = IF FALSE THEN "up" ELSE "closing"]
      BY <3>1
    <3>3. entries' = [entries EXCEPT ![b].freed = ~FALSE]
      BY <3>1
    <3> QED BY <2>1, <3>1, <3>2, <3>3
  <2>3. CASE Link(k)!Accepts(known_keys[h], x)
    <3> DEFINE room == Link(k)!Cardinality({g \in Kind[k].fd \ {f} : registry[g] # 0}) < LinkEntries
    <3>1. /\ sockets' = [sockets EXCEPT ![f].at = IF room THEN "up" ELSE "closing"]
          /\ entries' = [entries EXCEPT ![b].freed = ~room]
          /\ registry' = [registry EXCEPT ![f] = IF room THEN b ELSE 0]
          /\ known_keys' = [known_keys EXCEPT ![h] = @ \cup {x}]
      BY <1>0, <1>2, <1>3, <2>3 DEF Link!Pin
    <3> HIDE DEF room
    <3>2. CASE room
      <4>1. sockets' = [sockets EXCEPT ![f].at = IF TRUE THEN "up" ELSE "closing"]
        BY <3>1, <3>2
      <4>2. entries' = [entries EXCEPT ![b].freed = ~TRUE]
        BY <3>1, <3>2, Zenon
      <4>3. registry' = [registry EXCEPT ![f] = b]
        BY <3>1, <3>2
      <4>4. /\ registry' \in [Kind[k].fd -> 0 .. LinkConns]
            /\ \A g \in Kind[k].fd : registry'[g] = IF g = f /\ TRUE THEN b ELSE registry[g]
        BY <2>1, <4>3
      <4> QED BY <2>3, <3>1, <4>1, <4>2, <4>4
    <3>3. CASE ~room
      <4>1. sockets' = [sockets EXCEPT ![f].at = IF FALSE THEN "up" ELSE "closing"]
        BY <3>1, <3>3
      <4>2. entries' = [entries EXCEPT ![b].freed = ~FALSE]
        BY <3>1, <3>3, Zenon
      <4>3. registry' = [registry EXCEPT ![f] = 0]
        BY <3>1, <3>3
      <4> QED BY <1>1, <2>1, <2>3, <3>1, <4>1, <4>2, <4>3
    <3> QED BY <3>2, <3>3
  <2> QED BY <2>2, <2>3
<1>5. \A g \in LinkHost : \/ known_keys'[g] = known_keys[g]
                          \/ g = h /\ known_keys[g] = {} /\ known_keys'[g] = {x}
  <2>1. CASE known_keys' = known_keys
    BY <2>1
  <2>2. CASE Link(k)!Accepts(known_keys[h], x) /\ known_keys' = [known_keys EXCEPT ![h] = @ \cup {x}]
    <3>1. known_keys[h] = {} \/ known_keys[h] = {x}
      BY <2>2 DEF Link!Accepts
    <3> QED BY <2>2, <3>1 DEF LocalType
  <2> QED BY <1>4, <2>1, <2>2
<1>6. opens => known_keys'[h] = {x}
  <2>1. SUFFICES ASSUME opens PROVE known_keys'[h] = {x}
    OBVIOUS
  <2>2. Link(k)!Accepts(known_keys[h], x) /\ known_keys' = [known_keys EXCEPT ![h] = @ \cup {x}]
    BY <1>4, <2>1
  <2>3. known_keys[h] = {} \/ known_keys[h] = {x}
    BY <2>2 DEF Link!Accepts
  <2> QED BY <2>2, <2>3 DEF LocalType
<1>7. /\ Unopened(b) /\ UsersOf(b) = {}
      /\ \A g \in Kind[k].fd : registry[g] # b /\ (sockets[g].conn = b => g = f)
  BY <1>1, NoUsers DEF UnusedInv, SocketInv, PublishInv, Unopened, LinkConn
<1>8. \A g \in Kind[k].fd : /\ sockets'[g].conn = sockets[g].conn /\ (g # f => sockets'[g] = sockets[g])
                            /\ (g = f => sockets'[g].at = (IF opens THEN "up" ELSE "closing") /\ sockets'[g].host = h)
  BY <1>1, <1>4 DEF LocalType, Socket
<1>9. \A c \in LinkConn : /\ c # b => entries'[c] = entries[c]
                          /\ entries'[c].refs = entries[c].refs /\ entries'[c].tx = entries[c].tx
                          /\ entries'[c].ctr = entries[c].ctr /\ entries'[c].peer = entries[c].peer
                          /\ entries'[c].closing = entries[c].closing
  BY <1>4 DEF LocalType, Session
<1>10. entries'[b].freed = ~opens
  BY <1>4 DEF LocalType, Session
<1>11. /\ RemoteType' /\ SocketInv(k)' /\ FreshInv' /\ CounterInv' /\ SenderInv(k)' /\ TargetInv(k)' /\ WriteInv'
       /\ FrameInv' /\ StreamInv(k)' /\ HoldInv(k)' /\ \A c \in LinkConn : UsersOf(c)' = UsersOf(c)
  BY <1>1, <1>8, <1>9, CallsKept
<1>12. LocalType(k)'
  <2>1. /\ entries \in [LinkConn -> Session(k)] /\ sockets \in [Kind[k].fd -> Socket]
        /\ known_keys \in [LinkHost -> SUBSET Kind[k].keys]
    BY DEF LocalType
  <2>2. [entries[b] EXCEPT !.freed = ~opens] \in Session(k)
    <3>1. (~opens) \in BOOLEAN /\ entries[b] \in Session(k)
      BY <2>1
    <3> QED BY <3>1 DEF Session
  <2>3. [sockets[f] EXCEPT !.at = IF opens THEN "up" ELSE "closing"] \in Socket
    BY <2>1, <1>1 DEF Socket
  <2>4. sockets' \in [Kind[k].fd -> Socket]
    BY <1>4, <2>1, <2>3
  <2>5. entries' \in [LinkConn -> Session(k)]
    BY <1>4, <2>1, <2>2
  <2>6. known_keys' \in [LinkHost -> SUBSET Kind[k].keys]
    BY <1>4, <2>1
  <2> QED BY <1>1, <1>4, <2>4, <2>5, <2>6 DEF LocalType
<1>13. PublishInv(k)'
  BY <1>1, <1>4, <1>8 DEF PublishInv
<1>14. UnusedInv(k)'
  <2>1. b < dialled /\ b \in Nat /\ dialled \in Nat
    BY <1>1 DEF SocketInv, LocalType, LinkConn
  <2>2. \A c \in LinkConn : c # b => Unopened(c)' = Unopened(c)
    BY <1>9 DEF Unopened
  <2>3. sockets'[f].at \notin {"shake", "pin"}
    BY <1>8
  <2> QED BY <1>1, <1>7, <1>8, <1>9, <2>1, <2>2, <2>3 DEF UnusedInv
<1>15. SessionInv(k)'
  <2>1. ASSUME NEW c \in LinkConn, c # b
        PROVE  entries'[c] = entries[c] /\ UsersOf(c)' = UsersOf(c) /\ \A g \in Kind[k].fd : registry'[g] = c <=> registry[g] = c
    BY <1>1, <1>4, <1>9, <1>11, <2>1 DEF LinkConn
  <2>2. /\ entries'[b].refs = Cardinality(UsersOf(b)') /\ UsersOf(b)' = {} /\ ~entries'[b].closing
        /\ (entries'[b].freed => \A g \in Kind[k].fd : registry'[g] # b)
    <3>1. entries'[b].refs = Cardinality(UsersOf(b)') /\ UsersOf(b)' = {} /\ ~entries'[b].closing
      BY <1>7, <1>9, <1>11 DEF SessionInv, Unopened
    <3>2. CASE opens
      BY <1>10, <3>1, <3>2
    <3>3. CASE ~opens
      <4>1. \A g \in Kind[k].fd : registry'[g] # b
        BY <1>4, <1>7, <3>3
      <4> QED BY <3>1, <4>1
    <3> QED BY <3>2, <3>3
  <2>3. ASSUME NEW c \in LinkConn
        PROVE  /\ entries'[c].refs = Cardinality(UsersOf(c)') /\ (entries'[c].freed => UsersOf(c)' = {})
               /\ (entries'[c].freed \/ entries'[c].closing => \A g \in Kind[k].fd : registry'[g] # c)
               /\ (entries'[c].closing /\ UsersOf(c)' = {} => entries'[c].freed)
    <3>1. CASE c # b
      BY <2>1, <3>1 DEF SessionInv
    <3>2. CASE c = b
      BY <2>2, <3>2
    <3> QED BY <3>1, <3>2
  <2> QED BY <2>3 DEF SessionInv
<1>16. KnownInv(k)'
  BY <1>5 DEF KnownInv
<1>17. PinInv(k)'
  <2>1. ASSUME NEW g \in Kind[k].fd, NEW c \in LinkConn, registry'[g] = c, g # f
        PROVE  {entries'[c].peer} = known_keys'[sockets'[g].host]
    <3>1. registry[g] = c /\ sockets'[g] = sockets[g] /\ entries'[c].peer = entries[c].peer
      BY <1>4, <1>8, <1>9, <2>1
    <3>2. {entries[c].peer} = known_keys[sockets[g].host] /\ sockets[g].at = "up"
      BY <3>1 DEF PinInv, PublishInv, LinkConn
    <3>3. sockets[g] \in Socket
      BY DEF LocalType
    <3>4. sockets[g].host \in LinkHost
      BY <3>2, <3>3 DEF Socket
    <3> QED BY <1>5, <3>1, <3>2, <3>4
  <2>2. ASSUME NEW c \in LinkConn, registry'[f] = c PROVE {entries'[c].peer} = known_keys'[sockets'[f].host]
    BY <1>1, <1>2, <1>4, <1>6, <1>8, <1>9, <2>2 DEF LinkConn
  <2> QED BY <2>1, <2>2 DEF PinInv
<1> QED BY <1>11, <1>12, <1>13, <1>14, <1>15, <1>16, <1>17

\* A call that starts takes a reference on the session it finds published.
LEMMA SendStep ==
    ASSUME NEW k, LinkConstants(k), LinkInv(k), NEW t \in LinkThread, NEW f \in Kind[k].fd, Link(k)!Send(t, f)
    PROVE  LinkInv(k)'
<1> USE DEF LinkInv
<1>1. /\ senders[t].at = "idle" /\ senders[t].e = 0
      /\ UNCHANGED <<sockets, registry, known_keys, streams, handlers, places, buffered, dialled, sealed_frames,
                     taken_frames, mixed>>
  BY DEF Link!Send, Link!Idle
<1>2. PICK b \in 0 .. LinkConns : b = registry[f]
  BY DEF LocalType
<1>3. PICK y \in Sender(k) : /\ senders' = [senders EXCEPT ![t] = y]
                             /\ b # 0 => y.at = "lock" /\ y.fd = f /\ y.e = b
                             /\ b = 0 => y.e = 0 /\ (y.at = "idle" \/ (y.at = "head" /\ y.fd = f))
  <2>1. PICK n \in Kind[k].sizes :
          senders' = [senders EXCEPT ![t] =
            IF b = 0 /\ ~Link(k)!FrameOk(n) THEN [at |-> "idle", fd |-> 0, e |-> 0, ctr |-> 0, size |-> 0]
            ELSE [at |-> IF b # 0 THEN "lock" ELSE "head", fd |-> f, e |-> b, ctr |-> 0, size |-> n]]
    BY <1>2 DEF Link!Send, Link!Idle
  <2>2. n \in Nat
    BY DEF LinkConstants
  <2>3. [at |-> "idle", fd |-> 0, e |-> 0, ctr |-> 0, size |-> 0] \in Sender(k)
    BY DEF Sender, LinkConstants
  <2>4. [at |-> IF b # 0 THEN "lock" ELSE "head", fd |-> f, e |-> b, ctr |-> 0, size |-> n] \in Sender(k)
    BY <2>2 DEF Sender
  <2>5. CASE b = 0 /\ ~Link(k)!FrameOk(n)
    BY <2>1, <2>3, <2>5
  <2>6. CASE ~(b = 0 /\ ~Link(k)!FrameOk(n))
    BY <2>1, <2>4, <2>6
  <2> QED BY <2>5, <2>6
<1>4. entries' = IF b = 0 THEN entries ELSE [entries EXCEPT ![b].refs = @ + 1]
  BY <1>2 DEF Link!Send
<1>5. \A u \in LinkThread : senders'[u] = IF u = t THEN y ELSE senders[u]
  BY <1>3 DEF LocalType
<1>6. \A c \in LinkConn : /\ entries'[c].refs = IF c = b THEN entries[c].refs + 1 ELSE entries[c].refs
                          /\ c # b => entries'[c] = entries[c]
                          /\ entries'[c].closing = entries[c].closing /\ entries'[c].freed = entries[c].freed
                          /\ entries'[c].tx = entries[c].tx
                          /\ entries'[c].ctr = entries[c].ctr /\ entries'[c].peer = entries[c].peer
  BY <1>4 DEF LocalType, Session, LinkConn
<1>7. LocalType(k)'
  <2>1. entries \in [LinkConn -> Session(k)] /\ senders \in [LinkThread -> Sender(k)]
    BY DEF LocalType
  <2>2. b # 0 => b \in LinkConn /\ [entries[b] EXCEPT !.refs = @ + 1] \in Session(k)
    <3>1. b # 0 => b \in LinkConn
      BY DEF LinkConn, LinkConstants
    <3> QED BY <2>1, <3>1 DEF Session
  <2>3. entries' \in [LinkConn -> Session(k)]
    BY <1>4, <2>1, <2>2
  <2>4. senders' \in [LinkThread -> Sender(k)]
    BY <1>3, <2>1
  <2> QED BY <1>1, <2>3, <2>4 DEF LocalType
<1>8. RemoteType' /\ SocketInv(k)' /\ PublishInv(k)' /\ FreshInv' /\ KnownInv(k)'
  BY <1>1 DEF RemoteType, SocketInv, PublishInv, FreshInv, KnownInv
<1>9. CounterInv' /\ PinInv(k)'
  BY <1>1, <1>6 DEF CounterInv, PinInv
<1>10. b # 0 => /\ b \in LinkConn /\ sockets[f].conn = b /\ sockets[f].at = "up" /\ b < dialled
                /\ ~entries[b].freed /\ ~entries[b].closing
                /\ \A g \in Kind[k].fd : sockets[g].conn = b => g = f
  BY <1>2 DEF PublishInv, SocketInv, SessionInv, LinkConn
<1>11. UnusedInv(k)'
  <2>1. \A c \in LinkConn : c # b => Unopened(c)' = Unopened(c)
    BY <1>6 DEF Unopened
  <2>2. b \in LinkConn => b # 0 /\ b \in Nat /\ dialled \in Nat
    BY DEF LinkConn, LocalType
  <2> QED BY <1>1, <1>6, <1>10, <2>1, <2>2 DEF UnusedInv
<1>12. \A c \in LinkConn : UsersOf(c)' = IF c = b THEN UsersOf(c) \cup {t} ELSE UsersOf(c)
  BY <1>1, <1>3, <1>5 DEF UsersOf, LinkConn
<1>13. \A c \in LinkConn : t \notin UsersOf(c) /\ IsFiniteSet(UsersOf(c))
  BY <1>1, FS_Subset DEF UsersOf, LinkConstants
<1>14. SessionInv(k)'
  <2>1. ASSUME NEW c \in LinkConn
        PROVE  /\ entries'[c].refs = Cardinality(UsersOf(c)') /\ (entries'[c].freed => UsersOf(c)' = {})
               /\ (entries'[c].freed \/ entries'[c].closing => \A g \in Kind[k].fd : registry'[g] # c)
               /\ (entries'[c].closing /\ UsersOf(c)' = {} => entries'[c].freed)
    <3>1. CASE c # b
      BY <1>1, <1>6, <1>12, <3>1 DEF SessionInv
    <3>2. CASE c = b
      <4>1. Cardinality(UsersOf(c) \cup {t}) = Cardinality(UsersOf(c)) + 1
        BY <1>13, FS_AddElement
      <4>2. c # 0 /\ ~entries'[c].freed /\ ~entries'[c].closing
        BY <1>6, <1>10, <3>2 DEF LinkConn
      <4> QED BY <1>6, <1>12, <3>2, <4>1, <4>2 DEF SessionInv
    <3> QED BY <3>1, <3>2
  <2> QED BY <2>1 DEF SessionInv
<1>15. SenderInv(k)'
  BY <1>3, <1>5 DEF SenderInv
<1>16. TargetInv(k)'
  BY <1>1, <1>3, <1>5, <1>10 DEF TargetInv
<1>17. \A u \in LinkThread : /\ Writing(u)' = Writing(u) /\ (Writing(u) => senders'[u] = senders[u])
                             /\ (Writing(u) => senders[u].e \in LinkConn)
  BY <1>1, <1>3, <1>5 DEF Writing, LocalType, Sender, LinkConn
<1>18. WriteInv'
  <2>1. ASSUME NEW u \in LinkThread, NEW c \in LinkConn, Writing(u)', senders'[u].e = c
        PROVE  /\ entries'[c].tx = u /\ entries'[c].ctr = senders'[u].ctr + 1
               /\ sealed_frames'[c][senders'[u].ctr + 1] = <<u, senders'[u].size>>
    <3>1. Writing(u) /\ senders'[u] = senders[u]
      BY <1>17, <2>1
    <3>2. /\ entries[c].tx = u /\ entries[c].ctr = senders[u].ctr + 1
          /\ sealed_frames[c][senders[u].ctr + 1] = <<u, senders[u].size>>
      BY <2>1, <3>1 DEF WriteInv
    <3> QED BY <1>1, <1>6, <3>1, <3>2
  <2> QED BY <2>1 DEF WriteInv
<1>19. FrameInv'
  BY <1>1, FrameKept
<1>20. ASSUME NEW c \in LinkConn, c \notin mixed, handlers[c].at # "gone" PROVE OrderedInv(k, c)'
  BY <1>1, <1>6, <1>17, <1>20, OrderKept DEF StreamInv
<1>21. StreamInv(k)'
  BY <1>1, <1>20 DEF StreamInv
<1>22. HoldInv(k)'
  BY <1>1, HoldKept DEF HoldInv, Attended
<1> QED BY <1>7, <1>8, <1>9, <1>11, <1>14, <1>15, <1>16, <1>18, <1>19, <1>21, <1>22

\* A returning call unlocks the session, gives up its reference, and frees a session
\* that is closed and has no other.
LEMMA CallReturns ==
    ASSUME NEW k, LinkConstants(k), LinkInv(k), NEW t \in LinkThread, senders[t].at # "idle",
           \A c \in LinkConn : senders[t].e = c => entries[c].tx \in {0, t},
           UNCHANGED <<sockets, registry, known_keys, dialled, sealed_frames>>,
           senders' = [senders EXCEPT ![t] = Link(k)!Idle],
           entries' = IF senders[t].e = 0 THEN entries ELSE Link(k)!Release(senders[t].e)
    PROVE  /\ LocalType(k)' /\ SocketInv(k)' /\ PublishInv(k)' /\ UnusedInv(k)'
           /\ SessionInv(k)' /\ CounterInv' /\ SenderInv(k)' /\ TargetInv(k)' /\ WriteInv' /\ KnownInv(k)' /\ PinInv(k)'
           /\ \A c \in LinkConn : entries'[c].ctr = entries[c].ctr
           /\ \A u \in LinkThread : /\ Writing(u)' <=> Writing(u) /\ u # t
                                    /\ u # t => senders'[u] = senders[u]
           /\ \A u \in LinkThread : Writing(u) /\ u # t /\ senders[t].at \in {"head", "rest"} => senders[u].e # senders[t].e
<1> USE DEF LinkInv
<1>0. PICK b \in 0 .. LinkConns : b = senders[t].e
  BY DEF LocalType, Sender
<1>1. \A u \in LinkThread : senders'[u] = IF u = t THEN [at |-> "idle", fd |-> 0, e |-> 0, ctr |-> 0, size |-> 0]
                                          ELSE senders[u]
  BY DEF LocalType, Link!Idle
<1> DEFINE z == entries[b].closing /\ entries[b].refs = 1
<1>2. /\ b = 0 => entries' = entries
      /\ b # 0 => entries' = [entries EXCEPT ![b].refs = @ - 1, ![b].tx = 0, ![b].freed = z]
  BY <1>0 DEF Link!Release
<1>22. z \in BOOLEAN /\ (z <=> entries[b].closing /\ entries[b].refs = 1)
  OBVIOUS
<1> HIDE DEF z
<1>3. b # 0 => b \in LinkConn
  BY DEF LinkConn, LinkConstants
<1>4. \A c \in LinkConn : t \in UsersOf(c) <=> c = b
  BY <1>0 DEF UsersOf
<1>5. \A c \in LinkConn : IsFiniteSet(UsersOf(c)) /\ Cardinality(UsersOf(c)) \in Nat
  BY FS_Subset, FS_CardinalityType DEF UsersOf, LinkConstants
<1>6. \A c \in LinkConn : UsersOf(c)' = IF c = b THEN UsersOf(c) \ {t} ELSE UsersOf(c)
  BY <1>1, <1>4 DEF UsersOf, LinkConn
<1>7. b # 0 => /\ entries[b].refs = Cardinality(UsersOf(b)) /\ entries[b].refs > 0 /\ t \in UsersOf(b)
               /\ Cardinality(UsersOf(b) \ {t}) = entries[b].refs - 1
  <2>1. SUFFICES ASSUME b # 0
                 PROVE /\ entries[b].refs = Cardinality(UsersOf(b)) /\ entries[b].refs > 0 /\ t \in UsersOf(b)
                       /\ Cardinality(UsersOf(b) \ {t}) = entries[b].refs - 1
    OBVIOUS
  <2>2. t \in UsersOf(b) /\ IsFiniteSet(UsersOf(b)) /\ Cardinality(UsersOf(b)) \in Nat
    BY <1>3, <1>4, <1>5, <2>1
  <2>3. entries[b].refs = Cardinality(UsersOf(b))
    BY <1>3, <2>1 DEF SessionInv
  <2>4. Cardinality(UsersOf(b) \ {t}) = Cardinality(UsersOf(b)) - 1
    BY <2>2, FS_RemoveElement
  <2>5. Cardinality(UsersOf(b)) # 0
    BY <2>2, FS_EmptySet
  <2> QED BY <2>2, <2>3, <2>4, <2>5
<1>23. /\ \A c \in LinkConn : entries[c] \in Session(k)
       /\ b # 0 => \A c \in LinkConn :
            entries'[c] = IF c = b THEN [entries[b] EXCEPT !.refs = @ - 1, !.tx = 0, !.freed = z] ELSE entries[c]
  <2>1. entries \in [LinkConn -> Session(k)]
    BY DEF LocalType
  <2> QED BY <1>2, <1>3, <2>1
<1>8. \A c \in LinkConn : /\ c # b => entries'[c] = entries[c]
                          /\ entries'[c].closing = entries[c].closing
                          /\ entries'[c].ctr = entries[c].ctr /\ entries'[c].peer = entries[c].peer
  <2>1. CASE b = 0
    BY <1>2, <2>1
  <2>2. ASSUME b # 0, NEW c \in LinkConn, c # b PROVE entries'[c] = entries[c]
    BY <1>23, <2>2
  <2>3. ASSUME b # 0
        PROVE  /\ entries'[b].closing = entries[b].closing
               /\ entries'[b].ctr = entries[b].ctr /\ entries'[b].peer = entries[b].peer
    BY <1>3, <1>23, <2>3 DEF Session
  <2> QED BY <2>1, <2>2, <2>3
<1>9. b # 0 => /\ entries'[b].refs = entries[b].refs - 1 /\ entries'[b].tx = 0
               /\ entries'[b].freed = z
  BY <1>3, <1>23 DEF Session
<1>10. LocalType(k)'
  <2>1. entries \in [LinkConn -> Session(k)] /\ senders \in [LinkThread -> Sender(k)]
    BY DEF LocalType
  <2>2. [at |-> "idle", fd |-> 0, e |-> 0, ctr |-> 0, size |-> 0] \in Sender(k)
    BY DEF Sender, LinkConstants
  <2>3. b # 0 => [entries[b] EXCEPT !.refs = @ - 1, !.tx = 0, !.freed = z] \in Session(k)
    <3>1. SUFFICES ASSUME b # 0 PROVE [entries[b] EXCEPT !.refs = @ - 1, !.tx = 0, !.freed = z] \in Session(k)
      OBVIOUS
    <3>2. entries[b] \in Session(k)
      BY <1>3, <2>1, <3>1
    <3>4. entries[b].refs - 1 \in Nat
      BY <1>7, <3>1, <3>2 DEF Session
    <3> QED BY <1>22, <3>2, <3>4 DEF Session
  <2>4. entries' \in [LinkConn -> Session(k)]
    BY <1>2, <1>3, <2>1, <2>3
  <2>5. senders' \in [LinkThread -> Sender(k)]
    BY <2>1, <2>2 DEF Link!Idle
  <2> QED BY <2>4, <2>5 DEF LocalType
<1>11. SocketInv(k)' /\ PublishInv(k)' /\ KnownInv(k)'
  BY DEF SocketInv, PublishInv, KnownInv
<1>12. UnusedInv(k)'
  <2>1. \A c \in LinkConn : c # b => Unopened(c)' = Unopened(c)
    BY <1>8 DEF Unopened
  <2>2. b # 0 => ~Unopened(b)
    BY <1>7 DEF Unopened
  <2>3. \A c \in LinkConn : c # 0
    BY DEF LinkConn
  <2> QED BY <1>8, <2>1, <2>2, <2>3 DEF UnusedInv
<1>13. SessionInv(k)'
  <2>1. ASSUME NEW c \in LinkConn
        PROVE  /\ entries'[c].refs = Cardinality(UsersOf(c)') /\ (entries'[c].freed => UsersOf(c)' = {})
               /\ (entries'[c].freed \/ entries'[c].closing => \A g \in Kind[k].fd : registry'[g] # c)
               /\ (entries'[c].closing /\ UsersOf(c)' = {} => entries'[c].freed)
    <3>1. CASE c # b
      BY <1>6, <1>8, <3>1 DEF SessionInv
    <3>2. CASE c = b
      <4>1. b # 0
        BY <3>2 DEF LinkConn
      <4>2. /\ entries[b].closing => \A g \in Kind[k].fd : registry[g] # b
            /\ UsersOf(b)' = UsersOf(b) \ {t} /\ entries'[b].closing = entries[b].closing
        BY <1>6, <1>8, <3>2 DEF SessionInv
      <4>3. UsersOf(b) \ {t} = {} <=> entries[b].refs = 1
        <5>1. IsFiniteSet(UsersOf(b) \ {t})
          BY <1>5, <3>2, FS_Subset
        <5>2. entries[b].refs \in Nat /\ Cardinality(UsersOf(b) \ {t}) = entries[b].refs - 1
          BY <1>5, <1>7, <3>2, <4>1
        <5> QED BY <5>1, <5>2, FS_EmptySet
      <4>4. entries'[b].freed <=> entries[b].closing /\ entries[b].refs = 1
        BY <1>9, <1>22, <4>1
      <4> QED BY <1>7, <1>9, <3>2, <4>1, <4>2, <4>3, <4>4
    <3> QED BY <3>1, <3>2
  <2> QED BY <2>1 DEF SessionInv
<1>14. CounterInv' /\ PinInv(k)'
  BY <1>8 DEF CounterInv, PinInv
<1>15. SenderInv(k)'
  BY <1>1 DEF SenderInv
<1>16. TargetInv(k)'
  BY <1>1 DEF TargetInv
<1>17. \A u \in LinkThread : /\ Writing(u)' <=> Writing(u) /\ u # t
                             /\ u # t => senders'[u] = senders[u]
  BY <1>1 DEF Writing
<1>18. ASSUME NEW u \in LinkThread, NEW c \in LinkConn, Writing(u), senders[u].e = c, u # t, senders[t].e = c,
              senders[t].at \in {"head", "rest"}
       PROVE  FALSE
  <2>1. Writing(t)
    BY <1>18 DEF Writing, LinkConn
  <2> QED BY <1>18, <2>1 DEF WriteInv
<1>19. ASSUME NEW u \in LinkThread, NEW c \in LinkConn, Writing(u), u # t, senders[u].e = c PROVE c # b
  <2>1. entries[c].tx = u
    BY <1>19 DEF WriteInv
  <2> QED BY <1>0, <1>19, <2>1 DEF LinkConstants
<1>20. WriteInv'
  <2>1. ASSUME NEW u \in LinkThread, NEW c \in LinkConn, Writing(u)', senders'[u].e = c
        PROVE  /\ entries'[c].tx = u /\ entries'[c].ctr = senders'[u].ctr + 1
               /\ sealed_frames'[c][senders'[u].ctr + 1] = <<u, senders'[u].size>>
    <3>1. Writing(u) /\ u # t /\ senders'[u] = senders[u]
      BY <1>17, <2>1
    <3>2. entries'[c] = entries[c]
      BY <1>8, <1>19, <2>1, <3>1
    <3>3. /\ entries[c].tx = u /\ entries[c].ctr = senders[u].ctr + 1
          /\ sealed_frames[c][senders[u].ctr + 1] = <<u, senders[u].size>>
      BY <2>1, <3>1 DEF WriteInv
    <3> QED BY <3>1, <3>2, <3>3
  <2> QED BY <2>1 DEF WriteInv
<1>21. \A u \in LinkThread : Writing(u) /\ u # t /\ senders[t].at \in {"head", "rest"} => senders[u].e # senders[t].e
  <2>1. \A u \in LinkThread : Writing(u) => senders[u].e \in LinkConn
    BY DEF Writing, LocalType, Sender, LinkConn, LinkConstants
  <2> QED BY <1>18, <2>1
<1> QED BY <1>8, <1>10, <1>11, <1>12, <1>13, <1>14, <1>15, <1>16, <1>17, <1>20, <1>21

\* What was sealed stays sealed as more frames are.
LEMMA SealedGrows ==
    ASSUME NEW c \in LinkConn, NEW y, sealed_frames \in [LinkConn -> Seq(SealedFrame)], y \in SealedFrame,
           sealed_frames' = [sealed_frames EXCEPT ![c] = Append(@, y)]
    PROVE  /\ \A d \in LinkConn : /\ Len(sealed_frames'[d]) >= Len(sealed_frames[d])
                                  /\ Len(sealed_frames'[d]) \in Nat
                                  /\ \A i \in 1 .. Len(sealed_frames[d]) : sealed_frames'[d][i] = sealed_frames[d][i]
                                  /\ d # c => sealed_frames'[d] = sealed_frames[d]
           /\ sealed_frames'[c] = Append(sealed_frames[c], y)
           /\ sealed_frames' \in [LinkConn -> Seq(SealedFrame)]
<1>1. sealed_frames'[c] = Append(sealed_frames[c], y) /\ \A d \in LinkConn : d # c => sealed_frames'[d] = sealed_frames[d]
  OBVIOUS
<1>2. Append(sealed_frames[c], y) \in Seq(SealedFrame) /\ \A d \in LinkConn : sealed_frames[d] \in Seq(SealedFrame)
  OBVIOUS
<1>3. \A d \in LinkConn : Len(sealed_frames[d]) \in Nat
  BY <1>2
<1>4. /\ Len(Append(sealed_frames[c], y)) = Len(sealed_frames[c]) + 1
      /\ \A i \in 1 .. Len(sealed_frames[c]) : Append(sealed_frames[c], y)[i] = sealed_frames[c][i]
  BY <1>2
<1> QED BY <1>1, <1>2, <1>3, <1>4

\* The lock's holder seals the next frame; one that is too large gives the lock back.
LEMMA WriteHeadStep ==
    ASSUME NEW k, LinkConstants(k), LinkInv(k), NEW t \in LinkThread, Link(k)!Seal(t) PROVE LinkInv(k)'
<1> USE DEF LinkInv
<1>0. PICK b \in LinkConn, n \in Nat : b = senders[t].e /\ n = senders[t].size
  BY DEF Link!Seal, LocalType, Sender, SenderInv, LinkConn, LinkConstants
<1>1. /\ senders[t].at = "lock" /\ senders[t].e = b /\ senders[t].size = n /\ entries[b].tx = 0
      /\ UNCHANGED <<sockets, registry, known_keys, streams, handlers, places, buffered, dialled, taken_frames, mixed>>
  BY <1>0 DEF Link!Seal
<1>2. RemoteType' /\ FreshInv'
  BY <1>1 DEF RemoteType, FreshInv
<1>3. HoldInv(k)'
  BY <1>1, HoldKept DEF HoldInv, Attended
<1>4. \A u \in LinkThread : Writing(u) => senders[u].e \in LinkConn
  BY DEF Writing, LocalType, Sender, LinkConn
<1>5. \A u \in LinkThread : Writing(u) => senders[u].e # b
  BY <1>1 DEF WriteInv, LinkConstants
<1>6. CASE ~Link(k)!FrameOk(n)
  <2>1. /\ senders' = [senders EXCEPT ![t] = Link(k)!Idle] /\ sealed_frames' = sealed_frames
        /\ entries' = Link(k)!Release(senders[t].e)
    BY <1>0, <1>6 DEF Link!Seal
  <2>2. senders[t].at # "idle" /\ \A c \in LinkConn : senders[t].e = c => entries[c].tx \in {0, t}
    BY <1>1
  <2>3. entries' = IF senders[t].e = 0 THEN entries ELSE Link(k)!Release(senders[t].e)
    BY <1>1, <2>1 DEF LinkConn
  <2>4. /\ LocalType(k)' /\ SocketInv(k)' /\ PublishInv(k)' /\ UnusedInv(k)'
        /\ SessionInv(k)' /\ CounterInv' /\ SenderInv(k)' /\ TargetInv(k)' /\ WriteInv' /\ KnownInv(k)' /\ PinInv(k)'
        /\ \A c \in LinkConn : entries'[c].ctr = entries[c].ctr
        /\ \A u \in LinkThread : /\ Writing(u)' <=> Writing(u) /\ u # t
                                 /\ u # t => senders'[u] = senders[u]
    BY <1>1, <2>1, <2>2, <2>3, CallReturns
  <2>5. ~Writing(t)
    BY <1>1 DEF Writing
  <2>6. FrameInv'
    BY <1>1, <2>1, FrameKept
  <2>7. ASSUME NEW c \in LinkConn, c \notin mixed, handlers[c].at # "gone" PROVE OrderedInv(k, c)'
    <3>1. OrderedInv(k, c)
      BY <2>7 DEF StreamInv
    <3>2. \A u \in LinkThread : /\ (Writing(u)' /\ senders'[u].e = c) <=> (Writing(u) /\ senders[u].e = c)
                                /\ Writing(u) /\ senders[u].e = c =>
                                     senders'[u].ctr = senders[u].ctr /\ senders'[u].at = senders[u].at
      BY <2>4, <2>5
    <3> QED BY <1>1, <2>4, <3>1, <3>2, OrderKept
  <2>8. StreamInv(k)'
    BY <1>1, <2>7 DEF StreamInv
  <2> QED BY <1>2, <1>3, <2>4, <2>6, <2>8
<1>7. CASE Link(k)!FrameOk(n)
  <2>1. /\ entries' = [entries EXCEPT ![b].tx = t, ![b].ctr = @ + 1]
        /\ sealed_frames' = [sealed_frames EXCEPT ![b] = Append(@, <<t, n>>)]
        /\ senders' = [senders EXCEPT ![t].at = "head", ![t].ctr = entries[b].ctr]
    BY <1>0, <1>7 DEF Link!Seal
  <2>2. <<t, n>> \in SealedFrame /\ sealed_frames \in [LinkConn -> Seq(SealedFrame)]
    BY DEF SealedFrame, LocalType
  <2>3. /\ \A d \in LinkConn : /\ Len(sealed_frames'[d]) >= Len(sealed_frames[d])
                               /\ Len(sealed_frames'[d]) \in Nat
                               /\ \A i \in 1 .. Len(sealed_frames[d]) : sealed_frames'[d][i] = sealed_frames[d][i]
                               /\ d # b => sealed_frames'[d] = sealed_frames[d]
        /\ sealed_frames'[b] = Append(sealed_frames[b], <<t, n>>)
        /\ sealed_frames' \in [LinkConn -> Seq(SealedFrame)]
    BY <2>1, <2>2, SealedGrows
  <2>4. \A c \in LinkConn : /\ c # b => entries'[c] = entries[c]
                            /\ entries'[c].refs = entries[c].refs /\ entries'[c].closing = entries[c].closing
                            /\ entries'[c].freed = entries[c].freed /\ entries'[c].peer = entries[c].peer
    BY <2>1 DEF LocalType, Session
  <2>5. entries'[b].tx = t /\ entries'[b].ctr = entries[b].ctr + 1 /\ entries[b].ctr \in Nat
    BY <2>1 DEF LocalType, Session
  <2>6. \A u \in LinkThread : /\ u # t => senders'[u] = senders[u]
                              /\ senders'[u].e = senders[u].e /\ senders'[u].fd = senders[u].fd
                              /\ senders'[u].size = senders[u].size
    BY <2>1 DEF LocalType, Sender
  <2>7. senders'[t].at = "head" /\ senders'[t].ctr = entries[b].ctr
    BY <2>1 DEF LocalType, Sender
  <2>8. \A u \in LinkThread : Writing(u)' <=> Writing(u) \/ u = t
    BY <1>1, <2>6, <2>7 DEF Writing, LinkConn
  <2>9. LocalType(k)'
    <3>1. entries \in [LinkConn -> Session(k)] /\ senders \in [LinkThread -> Sender(k)]
      BY DEF LocalType
    <3>2. [entries[b] EXCEPT !.tx = t, !.ctr = @ + 1] \in Session(k)
      <4>1. entries[b] \in Session(k) /\ t \in LinkThread \cup {0} /\ entries[b].ctr + 1 \in Nat
        BY <2>5, <3>1
      <4> QED BY <4>1 DEF Session
    <3>3. [senders[t] EXCEPT !.at = "head", !.ctr = entries[b].ctr] \in Sender(k)
      BY <2>5, <3>1 DEF Sender
    <3>4. entries' \in [LinkConn -> Session(k)] /\ senders' \in [LinkThread -> Sender(k)]
      BY <2>1, <3>1, <3>2, <3>3
    <3> QED BY <1>1, <2>3, <3>4 DEF LocalType
  <2>10. SocketInv(k)' /\ PublishInv(k)' /\ KnownInv(k)'
    BY <1>1 DEF SocketInv, PublishInv, KnownInv
  <2>11. PinInv(k)'
    BY <1>1, <2>4 DEF PinInv
  <2>12. UnusedInv(k)'
    <3>1. \A c \in LinkConn : c # b => Unopened(c)' = Unopened(c)
      BY <2>4 DEF Unopened
    <3>2. ~Unopened(b)
      BY <1>1, NoUsers DEF Unopened
    <3> QED BY <1>1, <2>4, <3>1, <3>2 DEF UnusedInv
  <2>13. \A c \in LinkConn : UsersOf(c)' = UsersOf(c)
    BY <1>1, <2>6, <2>7 DEF UsersOf
  <2>14. SessionInv(k)'
    BY <1>1, <2>4, <2>13 DEF SessionInv
  <2>15. Len(sealed_frames[b]) = entries[b].ctr /\ Len(sealed_frames'[b]) = entries[b].ctr + 1
         /\ sealed_frames'[b][entries[b].ctr + 1] = <<t, n>>
    <3>1. sealed_frames[b] \in Seq(SealedFrame) /\ Len(sealed_frames[b]) = entries[b].ctr
      BY <2>2 DEF CounterInv
    <3> QED BY <2>3, <3>1
  <2>16. CounterInv'
    BY <2>3, <2>4, <2>5, <2>15 DEF CounterInv
  <2>17. SenderInv(k)'
    BY <1>1, <2>6, <2>7 DEF SenderInv, LinkConn
  <2>18. TargetInv(k)'
    BY <1>1, <2>6 DEF TargetInv
  <2>19. WriteInv'
    <3>1. ASSUME NEW u \in LinkThread, NEW c \in LinkConn, Writing(u)', senders'[u].e = c
          PROVE  /\ entries'[c].tx = u /\ entries'[c].ctr = senders'[u].ctr + 1
                 /\ sealed_frames'[c][senders'[u].ctr + 1] = <<u, senders'[u].size>>
      <4>1. CASE u = t
        BY <1>1, <2>5, <2>6, <2>7, <2>15, <3>1, <4>1
      <4>2. CASE u # t
        <5>1. Writing(u) /\ senders'[u] = senders[u] /\ c # b
          BY <1>5, <2>6, <2>8, <3>1, <4>2
        <5>2. entries'[c] = entries[c] /\ sealed_frames'[c] = sealed_frames[c]
          BY <2>3, <2>4, <5>1
        <5>3. /\ entries[c].tx = u /\ entries[c].ctr = senders[u].ctr + 1
              /\ sealed_frames[c][senders[u].ctr + 1] = <<u, senders[u].size>>
          BY <3>1, <5>1 DEF WriteInv
        <5> QED BY <5>1, <5>2, <5>3
      <4> QED BY <4>1, <4>2
    <3> QED BY <3>1 DEF WriteInv
  <2>20. FrameInv'
    <3>1. ASSUME NEW x \in Piece, Sealed(x) PROVE Sealed(x)'
      <4>1. SUFFICES ASSUME x.key # 0
                     PROVE  x.ctr < Len(sealed_frames'[x.key]) /\ sealed_frames'[x.key][x.ctr + 1] = <<x.by, x.size>>
        BY DEF Sealed
      <4>2. x.key \in LinkConn /\ x.ctr \in Nat
        BY <4>1 DEF Piece, LinkConn, LinkConstants
      <4>3. x.ctr < Len(sealed_frames[x.key]) /\ sealed_frames[x.key][x.ctr + 1] = <<x.by, x.size>>
        BY <3>1, <4>1 DEF Sealed
      <4>4. Len(sealed_frames[x.key]) \in Nat
        BY <2>2, <4>2
      <4>5. x.ctr + 1 \in 1 .. Len(sealed_frames[x.key])
        BY <4>2, <4>3, <4>4
      <4> QED BY <2>3, <4>2, <4>3, <4>4, <4>5
    <3>2. ASSUME NEW c \in LinkConn, NEW i \in 1 .. Len(streams[c]) PROVE Sealed(streams[c][i])'
      <4>1. PICK x : x = streams[c][i]
        OBVIOUS
      <4>2. x \in Piece /\ Sealed(x)
        BY <4>1 DEF FrameInv, RemoteType
      <4> QED BY <1>1, <3>1, <4>1, <4>2
    <3>3. ASSUME NEW c \in LinkConn, handlers[c].at = "body" PROVE Sealed(handlers[c].head)'
      <4>1. PICK x : x = handlers[c].head
        OBVIOUS
      <4>2. Sealed(x) /\ x.part = "head" /\ x \in Piece \cup {NoPiece}
        BY <3>3, <4>1 DEF FrameInv, RemoteType, Handler
      <4>3. x \in Piece
        BY <4>2 DEF NoPiece
      <4> QED BY <1>1, <3>1, <4>1, <4>2, <4>3
    <3>4. ASSUME NEW c \in LinkConn
          PROVE  /\ Len(taken_frames[c]) <= Len(sealed_frames'[c])
                 /\ \A i \in 1 .. Len(taken_frames[c]) : taken_frames[c][i] = sealed_frames'[c][i]
      <4>1. Len(taken_frames[c]) <= Len(sealed_frames[c]) /\ Len(taken_frames[c]) \in Nat /\ Len(sealed_frames[c]) \in Nat
        BY <2>2 DEF FrameInv, RemoteType
      <4> QED BY <2>3, <4>1 DEF FrameInv
    <3> QED BY <1>1, <3>2, <3>3, <3>4 DEF FrameInv
  <2>21. ASSUME NEW c \in LinkConn, c \notin mixed, handlers[c].at # "gone", c # b PROVE OrderedInv(k, c)'
    BY <1>1, <2>4, <2>6, <2>8, <2>21, OrderKept DEF StreamInv
  <2>22. ASSUME b \notin mixed, handlers[b].at # "gone" PROVE OrderedInv(k, b)'
    <3>1. OrderedInv(k, b)
      BY <2>22 DEF StreamInv
    <3>2. End(b)' = End(b) /\ \A i : AfterPiece(b, i)' = AfterPiece(b, i)
      BY <1>1 DEF End, AfterPiece, After
    <3>3. \A f \in Kind[k].fd : sockets[f].conn = b => End(b) = <<entries[b].ctr, "head">>
      BY <1>5, <3>1 DEF OrderedInv
    <3>4. \A u \in LinkThread : Writing(u)' /\ senders'[u].e = b => u = t
      BY <1>5, <2>6, <2>8
    <3>5. Writing(t)' /\ senders'[t].e = b
      BY <1>1, <2>6, <2>8
    <3>6. \A f \in Kind[k].fd : sockets'[f].conn = b =>
            /\ \A u \in LinkThread : Writing(u)' /\ senders'[u].e = b
                                     => End(b) = <<senders'[u].ctr, senders'[u].at>>
            /\ (\A u \in LinkThread : ~(Writing(u)' /\ senders'[u].e = b))
               => End(b) = <<entries'[b].ctr, "head">>
      BY <1>1, <2>7, <3>3, <3>4, <3>5
    <3> QED BY <1>1, <3>1, <3>2, <3>6 DEF OrderedInv
  <2>23. StreamInv(k)'
    BY <1>1, <2>21, <2>22 DEF StreamInv
  <2> QED BY <1>2, <1>3, <2>9, <2>10, <2>11, <2>12, <2>14, <2>16, <2>17, <2>18, <2>19, <2>20, <2>23
<1> QED BY <1>6, <1>7

\* A chunk of a sealed frame, written to a connection that has been opened.
LEMMA ChunkAdded ==
    ASSUME NEW k, LinkInv(k), NEW c \in LinkConn, NEW x \in Piece, Sealed(x), c < dialled,
           streams' = [streams EXCEPT ![c] = Append(@, x)],
           UNCHANGED <<sealed_frames, taken_frames, handlers, places, buffered, dialled>>
    PROVE  /\ RemoteType' /\ FreshInv' /\ FrameInv'
           /\ \A d \in LinkConn : d # c => streams'[d] = streams[d]
           /\ Len(streams'[c]) = Len(streams[c]) + 1 /\ Len(streams[c]) \in Nat
           /\ streams'[c][Len(streams[c]) + 1] = x
           /\ \A i \in 1 .. Len(streams[c]) : streams'[c][i] = streams[c][i]
<1> USE DEF LinkInv
<1>1. streams \in [LinkConn -> Seq(Piece)]
  BY DEF RemoteType
<1>2. streams[c] \in Seq(Piece) /\ Append(streams[c], x) \in Seq(Piece)
  BY <1>1
<1>3. streams'[c] = Append(streams[c], x) /\ \A d \in LinkConn : d # c => streams'[d] = streams[d]
  BY <1>1
<1>4. /\ Len(streams'[c]) = Len(streams[c]) + 1 /\ Len(streams[c]) \in Nat
      /\ streams'[c][Len(streams[c]) + 1] = x
      /\ \A i \in 1 .. Len(streams[c]) : streams'[c][i] = streams[c][i]
  BY <1>2, <1>3
<1>5. RemoteType'
  <2>1. streams' \in [LinkConn -> Seq(Piece)]
    BY <1>1, <1>2
  <2> QED BY <2>1 DEF RemoteType
<1>6. FreshInv'
  <2>1. ~(c >= dialled)
    BY DEF LinkConn, LocalType
  <2> QED BY <1>3, <2>1 DEF FreshInv
<1>7. \A y : Sealed(y)' = Sealed(y)
  BY DEF Sealed
<1>8. ASSUME NEW d \in LinkConn, NEW i \in 1 .. Len(streams'[d]) PROVE Sealed(streams'[d][i])
  <2>1. CASE d # c
    BY <1>3, <2>1 DEF FrameInv
  <2>2. CASE d = c /\ i \in 1 .. Len(streams[c])
    BY <1>4, <2>2 DEF FrameInv
  <2>3. CASE d = c /\ i = Len(streams[c]) + 1
    BY <1>4, <2>3
  <2>4. d = c => i \in 1 .. Len(streams[c]) \/ i = Len(streams[c]) + 1
    BY <1>4
  <2> QED BY <2>1, <2>2, <2>3, <2>4
<1>9. FrameInv'
  BY <1>7, <1>8 DEF FrameInv
<1> QED BY <1>3, <1>4, <1>5, <1>6, <1>9

\* The streams that a call does not write on are as they were; a chunk written for
\* another session makes its connection a mixed one.
LEMMA StreamsKept ==
    ASSUME NEW k, LinkInv(k), NEW t \in LinkThread, NEW c \in 0 .. LinkConns, c = sockets[senders[t].fd].conn,
           UNCHANGED <<sockets, handlers>>, mixed \subseteq mixed',
           \A d \in LinkConn : d # c => streams'[d] = streams[d],
           \A d \in LinkConn : entries'[d].ctr = entries[d].ctr,
           \A u \in LinkThread : u # t => senders'[u] = senders[u],
           Writing(t)' => Writing(t) /\ senders'[t].e = senders[t].e,
           c # 0 /\ c \notin mixed' /\ handlers[c].at # "gone" => OrderedInv(k, c)'
    PROVE  StreamInv(k)'
<1> USE DEF LinkInv
<1>1. ASSUME NEW d \in LinkConn, d \notin mixed', handlers[d].at # "gone", d # c PROVE OrderedInv(k, d)'
  <2>1. OrderedInv(k, d)
    BY <1>1 DEF StreamInv
  <2>2. ASSUME NEW f \in Kind[k].fd, sockets[f].conn = d PROVE senders[t].e # d
    <3>1. SUFFICES ASSUME senders[t].e = d PROVE FALSE
      OBVIOUS
    <3>2. senders[t].fd = f
      BY <2>2, <3>1 DEF TargetInv, LinkConn
    <3> QED BY <1>1, <2>2, <3>2
  <2>3. ASSUME NEW u \in LinkThread, u # t
        PROVE  /\ (Writing(u)' /\ senders'[u].e = d) <=> (Writing(u) /\ senders[u].e = d)
               /\ senders'[u].ctr = senders[u].ctr /\ senders'[u].at = senders[u].at
    BY <2>3 DEF Writing
  <2>4. ASSUME NEW f \in Kind[k].fd, sockets[f].conn = d
        PROVE  ~(Writing(t)' /\ senders'[t].e = d) /\ ~(Writing(t) /\ senders[t].e = d)
    BY <2>2, <2>4
  <2>5. (\E f \in Kind[k].fd : sockets[f].conn = d) =>
           /\ entries'[d].ctr = entries[d].ctr
           /\ \A u \in LinkThread : /\ (Writing(u)' /\ senders'[u].e = d) <=> (Writing(u) /\ senders[u].e = d)
                                    /\ Writing(u) /\ senders[u].e = d =>
                                         senders'[u].ctr = senders[u].ctr /\ senders'[u].at = senders[u].at
    BY <2>3, <2>4
  <2> QED BY <1>1, <2>1, <2>5, OrderKept
<1>2. \A d \in LinkConn : d # 0
  BY DEF LinkConn
<1> QED BY <1>1, <1>2 DEF StreamInv

\* A chunk that continues the frame of the connection's own session leaves it in order.
LEMMA OrderWritten ==
    ASSUME NEW k, LinkInv(k), NEW t \in LinkThread, NEW c \in LinkConn, NEW f \in Kind[k].fd, sockets[f].conn = c,
           Writing(t), senders[t].e = c, c \notin mixed, handlers[c].at # "gone",
           UNCHANGED <<sockets, handlers>>, entries'[c].ctr = entries[c].ctr,
           NEW x, x.key = c, x.ctr = senders[t].ctr, x.part = senders[t].at,
           Len(streams'[c]) = Len(streams[c]) + 1, Len(streams[c]) \in Nat, streams'[c][Len(streams[c]) + 1] = x,
           \A i \in 1 .. Len(streams[c]) : streams'[c][i] = streams[c][i],
           \A u \in LinkThread : u # t => senders'[u] = senders[u],
           \/ /\ senders[t].at = "head" /\ Writing(t)' /\ senders'[t].e = c
              /\ senders'[t].at = "rest" /\ senders'[t].ctr = senders[t].ctr
           \/ senders[t].at = "rest" /\ ~Writing(t)'
    PROVE  OrderedInv(k, c)'
<1> USE DEF LinkInv
<1>1. OrderedInv(k, c)
  BY DEF StreamInv
<1>2. End(c) = <<senders[t].ctr, senders[t].at>>
  BY <1>1 DEF OrderedInv
<1>3. entries[c].tx = t /\ entries[c].ctr = senders[t].ctr + 1
  BY DEF WriteInv
<1>4. ASSUME NEW u \in LinkThread, Writing(u), senders[u].e = c PROVE u = t
  BY <1>3, <1>4 DEF WriteInv
<1>5. \A i \in 0 .. Len(streams[c]) : AfterPiece(c, i)' = AfterPiece(c, i)
  BY DEF AfterPiece
<1>6. End(c)' = After(x)
  BY DEF End, AfterPiece
<1>7. \A i \in 1 .. Len(streams'[c]) :
        streams'[c][i].key = c /\ <<streams'[c][i].ctr, streams'[c][i].part>> = AfterPiece(c, i - 1)'
  <2>1. ASSUME NEW i \in 1 .. Len(streams'[c])
        PROVE  streams'[c][i].key = c /\ <<streams'[c][i].ctr, streams'[c][i].part>> = AfterPiece(c, i - 1)'
    <3>1. i - 1 \in 0 .. Len(streams[c])
      OBVIOUS
    <3>2. PICK j \in 0 .. Len(streams[c]) : j = i - 1
      BY <3>1
    <3>3. AfterPiece(c, j)' = AfterPiece(c, j)
      BY <1>5, <3>2
    <3>4. CASE i \in 1 .. Len(streams[c])
      BY <1>1, <3>2, <3>3, <3>4 DEF OrderedInv
    <3>5. CASE i = Len(streams[c]) + 1
      <4>1. j = Len(streams[c])
        BY <3>2, <3>5
      <4> QED BY <1>2, <3>2, <3>3, <3>5, <4>1 DEF End
    <3> QED BY <3>4, <3>5
  <2> QED BY <2>1
<1>8. handlers'[c].at = "body" => handlers'[c].head.key = c /\ handlers'[c].head.ctr = handlers'[c].rx
  BY <1>1 DEF OrderedInv
<1>9. ASSUME NEW u \in LinkThread, Writing(u)', senders'[u].e = c PROVE u = t
  <2>1. SUFFICES ASSUME u # t PROVE FALSE
    OBVIOUS
  <2>2. Writing(u) /\ senders[u].e = c
    BY <1>9, <2>1 DEF Writing
  <2> QED BY <1>4, <2>1, <2>2
<1>10. CASE senders[t].at = "head" /\ Writing(t)' /\ senders'[t].e = c
            /\ senders'[t].at = "rest" /\ senders'[t].ctr = senders[t].ctr
  <2>1. End(c)' = <<senders'[t].ctr, senders'[t].at>>
    BY <1>6, <1>10 DEF After
  <2> QED BY <1>7, <1>8, <1>9, <1>10, <2>1 DEF OrderedInv
<1>11. CASE senders[t].at = "rest" /\ ~Writing(t)'
  <2>1. End(c)' = <<entries'[c].ctr, "head">>
    BY <1>3, <1>6, <1>11 DEF After
  <2>2. \A u \in LinkThread : ~(Writing(u)' /\ senders'[u].e = c)
    BY <1>9, <1>11
  <2> QED BY <1>7, <1>8, <2>1, <2>2 DEF OrderedInv
<1> QED BY <1>10, <1>11

\* What a call writes is a part of a frame it sealed, or of a plain one.
LEMMA ChunkSealed ==
    ASSUME NEW k, LinkConstants(k), LinkInv(k), NEW t \in LinkThread, senders[t].at \in {"head", "rest"},
           NEW p \in {"head", "rest", "torn"},
           NEW x, x = [key |-> senders[t].e, ctr |-> senders[t].ctr, size |-> senders[t].size, part |-> p, by |-> t]
    PROVE  x \in Piece /\ Sealed(x)
<1> USE DEF LinkInv
<1>1. senders[t] \in Sender(k)
  BY DEF LocalType
<1>2. x \in Piece
  BY <1>1 DEF Piece, Sender
<1>3. ASSUME NEW c \in LinkConn, senders[t].e = c
      PROVE  senders[t].ctr < Len(sealed_frames[c]) /\ sealed_frames[c][senders[t].ctr + 1] = <<t, senders[t].size>>
  <2>1. Writing(t)
    BY <1>3 DEF Writing, LinkConn
  <2>2. entries[c].ctr = senders[t].ctr + 1 /\ sealed_frames[c][senders[t].ctr + 1] = <<t, senders[t].size>>
    BY <1>3, <2>1 DEF WriteInv
  <2>3. senders[t].ctr \in Nat
    BY <1>1 DEF Sender
  <2>4. entries[c].ctr = Len(sealed_frames[c])
    BY DEF CounterInv
  <2> QED BY <2>2, <2>3, <2>4
<1>4. senders[t].e # 0 => senders[t].e \in LinkConn
  BY <1>1 DEF Sender, LinkConn, LinkConstants
<1> QED BY <1>2, <1>3, <1>4 DEF Sealed

\* lmb_write_full of a header, or of the rest of the frame.
LEMMA WriteStep ==
    ASSUME NEW k, LinkConstants(k), LinkInv(k), NEW t \in LinkThread, Link(k)!Write(t) PROVE LinkInv(k)'
<1> USE DEF LinkInv
<1>0. PICK f \in Kind[k].fd : f = senders[t].fd
  BY DEF Link!Write, SenderInv
<1>1. PICK c \in LinkConn : c = sockets[f].conn
  <2>1. sockets[f] \in Socket /\ sockets[f].conn # 0
    BY <1>0 DEF LocalType, Link!Write
  <2> QED BY <2>1 DEF Socket
<1>2. PICK x : x = [key |-> senders[t].e, ctr |-> senders[t].ctr, size |-> senders[t].size, part |-> senders[t].at,
                    by |-> t]
  OBVIOUS
<1>3. /\ senders[t].at \in {"head", "rest"} /\ handlers[c].at # "gone"
      /\ streams' = [streams EXCEPT ![c] = Append(@, x)]
      /\ mixed' = IF senders[t].e # c THEN mixed \cup {c} ELSE mixed
      /\ UNCHANGED <<sockets, registry, known_keys, handlers, places, buffered, dialled, sealed_frames, taken_frames>>
  BY <1>0, <1>1, <1>2 DEF Link!Write, Link!Chunk, Link!Foreign
<1>4. x \in Piece /\ Sealed(x)
  BY <1>2, <1>3, ChunkSealed
<1>5. c < dialled
  BY <1>1 DEF SocketInv
<1>6. /\ RemoteType' /\ FreshInv' /\ FrameInv'
      /\ \A d \in LinkConn : d # c => streams'[d] = streams[d]
      /\ Len(streams'[c]) = Len(streams[c]) + 1 /\ Len(streams[c]) \in Nat
      /\ streams'[c][Len(streams[c]) + 1] = x
      /\ \A i \in 1 .. Len(streams[c]) : streams'[c][i] = streams[c][i]
  BY <1>3, <1>4, <1>5, ChunkAdded
<1>7. HoldInv(k)'
  BY <1>3, HoldKept DEF HoldInv, Attended
<1>8. ASSUME \A d \in LinkConn : entries'[d].ctr = entries[d].ctr,
             \A u \in LinkThread : u # t => senders'[u] = senders[u],
             \/ /\ senders[t].at = "head" /\ senders'[t].e = senders[t].e
                /\ senders'[t].at = "rest" /\ senders'[t].ctr = senders[t].ctr
             \/ senders[t].at = "rest" /\ ~Writing(t)'
      PROVE  StreamInv(k)'
  <2>1. ASSUME c \notin mixed' PROVE OrderedInv(k, c)'
    <3>1. senders[t].e = c /\ c \notin mixed
      BY <1>3, <2>1
    <3>2. Writing(t) /\ (senders[t].at = "head" => Writing(t)' /\ senders'[t].e = c)
      BY <1>3, <1>8, <3>1 DEF Writing, LinkConn
    <3>3. x.key = c /\ x.ctr = senders[t].ctr /\ x.part = senders[t].at
      BY <1>2, <3>1
    <3>4. /\ UNCHANGED <<sockets, handlers>> /\ sockets[f].conn = c /\ handlers[c].at # "gone"
          /\ entries'[c].ctr = entries[c].ctr
      BY <1>1, <1>3, <1>8
    <3>5. /\ Len(streams'[c]) = Len(streams[c]) + 1 /\ Len(streams[c]) \in Nat
          /\ streams'[c][Len(streams[c]) + 1] = x
          /\ \A i \in 1 .. Len(streams[c]) : streams'[c][i] = streams[c][i]
      BY <1>6
    <3>6. /\ \A u \in LinkThread : u # t => senders'[u] = senders[u]
          /\ \/ /\ senders[t].at = "head" /\ Writing(t)' /\ senders'[t].e = c
                /\ senders'[t].at = "rest" /\ senders'[t].ctr = senders[t].ctr
             \/ senders[t].at = "rest" /\ ~Writing(t)'
      BY <1>8, <3>1, <3>2
    <3> QED BY <3>1, <3>2, <3>3, <3>4, <3>5, <3>6, OrderWritten, Zenon
  <2>2. Writing(t)' => Writing(t) /\ senders'[t].e = senders[t].e
    BY <1>3, <1>8 DEF Writing
  <2>3. mixed \subseteq mixed' /\ c \in 0 .. LinkConns
    BY <1>3 DEF LinkConn
  <2> QED BY <1>0, <1>1, <1>3, <1>6, <1>8, <2>1, <2>2, <2>3, StreamsKept
<1>9. CASE senders[t].at = "rest"
  <2>1. /\ senders' = [senders EXCEPT ![t] = Link(k)!Idle]
        /\ entries' = IF senders[t].e = 0 THEN entries ELSE Link(k)!Release(senders[t].e)
    BY <1>9 DEF Link!Write, Link!Return
  <2>2. \A d \in LinkConn : senders[t].e = d => entries[d].tx \in {0, t}
    BY <1>3 DEF WriteInv, Writing, LinkConn
  <2>3. /\ LocalType(k)' /\ SocketInv(k)' /\ PublishInv(k)' /\ UnusedInv(k)'
        /\ SessionInv(k)' /\ CounterInv' /\ SenderInv(k)' /\ TargetInv(k)' /\ WriteInv' /\ KnownInv(k)' /\ PinInv(k)'
        /\ \A d \in LinkConn : entries'[d].ctr = entries[d].ctr
        /\ \A u \in LinkThread : /\ Writing(u)' <=> Writing(u) /\ u # t
                                 /\ u # t => senders'[u] = senders[u]
    BY <1>3, <1>9, <2>1, <2>2, CallReturns
  <2>4. StreamInv(k)'
    BY <1>8, <1>9, <2>3
  <2> QED BY <1>6, <1>7, <2>3, <2>4
<1>10. CASE senders[t].at = "head"
  <2>1. senders' = [senders EXCEPT ![t].at = "rest"] /\ entries' = entries
    BY <1>10 DEF Link!Write
  <2>2. senders \in [LinkThread -> Sender(k)]
    BY DEF LocalType
  <2>3. [senders[t] EXCEPT !.at = "rest"] \in Sender(k)
    BY <2>2 DEF Sender
  <2>4. \A u \in LinkThread : u # t => senders'[u] = senders[u]
    BY <2>1, <2>2
  <2>5. /\ senders'[t].at = "rest" /\ senders'[t].e = senders[t].e /\ senders'[t].fd = senders[t].fd
        /\ senders'[t].ctr = senders[t].ctr /\ senders'[t].size = senders[t].size
    BY <2>1, <2>2 DEF Sender
  <2>6. LocalType(k)'
    <3>1. senders' \in [LinkThread -> Sender(k)]
      BY <2>1, <2>2, <2>3
    <3> QED BY <1>3, <2>1, <3>1 DEF LocalType
  <2>7. SocketInv(k)' /\ PublishInv(k)' /\ KnownInv(k)' /\ PinInv(k)' /\ CounterInv'
    BY <1>3, <2>1 DEF SocketInv, PublishInv, KnownInv, PinInv, CounterInv
  <2>8. UnusedInv(k)'
    <3>1. \A d \in LinkConn : Unopened(d)' = Unopened(d)
      BY <2>1 DEF Unopened
    <3> QED BY <1>3, <2>1, <3>1 DEF UnusedInv
  <2>9. \A d \in LinkConn : UsersOf(d)' = UsersOf(d)
    BY <1>10, <2>4, <2>5 DEF UsersOf
  <2>10. SessionInv(k)'
    BY <1>3, <2>1, <2>9 DEF SessionInv
  <2>11. SenderInv(k)'
    BY <1>10, <2>4, <2>5 DEF SenderInv
  <2>12. TargetInv(k)'
    BY <1>3, <2>4, <2>5 DEF TargetInv
  <2>13. \A u \in LinkThread : Writing(u)' <=> Writing(u)
    BY <1>10, <2>4, <2>5 DEF Writing
  <2>14. \A u \in LinkThread : /\ senders'[u].e = senders[u].e /\ senders'[u].ctr = senders[u].ctr
                               /\ senders'[u].size = senders[u].size
    BY <2>4, <2>5
  <2>15. WriteInv'
    <3>1. ASSUME NEW u \in LinkThread, NEW d \in LinkConn, Writing(u)', senders'[u].e = d
          PROVE  /\ entries[d].tx = u /\ entries[d].ctr = senders[u].ctr + 1
                 /\ sealed_frames[d][senders[u].ctr + 1] = <<u, senders[u].size>>
      <4>1. Writing(u) /\ senders[u].e = d
        BY <2>13, <2>14, <3>1
      <4> QED BY <4>1 DEF WriteInv
    <3>2. ASSUME NEW u \in LinkThread, NEW d \in LinkConn, Writing(u)', senders'[u].e = d
          PROVE  /\ entries'[d].tx = u /\ entries'[d].ctr = senders'[u].ctr + 1
                 /\ sealed_frames'[d][senders'[u].ctr + 1] = <<u, senders'[u].size>>
      <4>1. /\ entries[d].tx = u /\ entries[d].ctr = senders[u].ctr + 1
            /\ sealed_frames[d][senders[u].ctr + 1] = <<u, senders[u].size>>
        BY <3>1, <3>2
      <4>2. senders'[u].ctr = senders[u].ctr /\ senders'[u].size = senders[u].size
        BY <2>14
      <4>3. entries' = entries /\ sealed_frames' = sealed_frames
        BY <1>3, <2>1
      <4> QED BY <4>1, <4>2, <4>3
    <3> QED BY <3>2 DEF WriteInv
  <2>16. StreamInv(k)'
    BY <1>8, <1>10, <2>1, <2>4, <2>5
  <2> QED BY <1>6, <1>7, <2>6, <2>7, <2>8, <2>10, <2>11, <2>12, <2>15, <2>16
<1> QED BY <1>3, <1>9, <1>10

\* A write that fails, or stops halfway, cuts the frame: the call returns all the same.
LEMMA WriteFailsStep ==
    ASSUME NEW k, LinkConstants(k), LinkInv(k), NEW t \in LinkThread, Link(k)!WriteFails(t) PROVE LinkInv(k)'
<1> USE DEF LinkInv
<1>0. PICK f \in Kind[k].fd : f = senders[t].fd
  BY DEF Link!WriteFails, SenderInv
<1>1. PICK c \in 0 .. LinkConns : c = sockets[f].conn
  <2>1. sockets[f] \in Socket
    BY DEF LocalType
  <2> QED BY <2>1 DEF Socket, LinkConn, LinkConstants
<1>2. PICK x : x = [key |-> senders[t].e, ctr |-> senders[t].ctr, size |-> senders[t].size, part |-> "torn", by |-> t]
  OBVIOUS
<1>3. /\ senders[t].at \in {"head", "rest"}
      /\ \/ streams' = streams
         \/ c # 0 /\ streams' = [streams EXCEPT ![c] = Append(@, x)]
      /\ mixed' = mixed \cup ({c, senders[t].e} \ {0})
      /\ UNCHANGED <<sockets, registry, known_keys, handlers, places, buffered, dialled, sealed_frames, taken_frames>>
      /\ senders' = [senders EXCEPT ![t] = Link(k)!Idle]
      /\ entries' = IF senders[t].e = 0 THEN entries ELSE Link(k)!Release(senders[t].e)
  BY <1>0, <1>1, <1>2 DEF Link!WriteFails, Link!Chunk, Link!Return
<1>4. x \in Piece /\ Sealed(x)
  BY <1>2, <1>3, ChunkSealed
<1>5. \A d \in LinkConn : senders[t].e = d => entries[d].tx \in {0, t}
  BY <1>3 DEF WriteInv, Writing, LinkConn
<1>6. /\ LocalType(k)' /\ SocketInv(k)' /\ PublishInv(k)' /\ UnusedInv(k)'
      /\ SessionInv(k)' /\ CounterInv' /\ SenderInv(k)' /\ TargetInv(k)' /\ WriteInv' /\ KnownInv(k)' /\ PinInv(k)'
      /\ \A d \in LinkConn : entries'[d].ctr = entries[d].ctr
      /\ \A u \in LinkThread : /\ Writing(u)' <=> Writing(u) /\ u # t
                               /\ u # t => senders'[u] = senders[u]
  BY <1>3, <1>5, CallReturns
<1>7. HoldInv(k)'
  BY <1>3, HoldKept DEF HoldInv, Attended
<1>8. RemoteType' /\ FreshInv' /\ FrameInv' /\ \A d \in LinkConn : d # c => streams'[d] = streams[d]
  <2>1. CASE streams' = streams
    <3>1. FrameInv'
      BY <1>3, <2>1, FrameKept
    <3> QED BY <1>3, <2>1, <3>1 DEF RemoteType, FreshInv
  <2>2. CASE c # 0 /\ streams' = [streams EXCEPT ![c] = Append(@, x)]
    <3>1. c \in LinkConn /\ c < dialled
      BY <1>1, <2>2 DEF SocketInv, LinkConn, LinkConstants
    <3> QED BY <1>3, <1>4, <2>2, <3>1, ChunkAdded
  <2> QED BY <1>3, <2>1, <2>2
<1>9. StreamInv(k)'
  <2>1. mixed \subseteq mixed' /\ ~(c # 0 /\ c \notin mixed') /\ ~Writing(t)'
    BY <1>3, <1>6
  <2>2. c = sockets[senders[t].fd].conn /\ UNCHANGED <<sockets, handlers>>
    BY <1>0, <1>1, <1>3
  <2>3. Writing(t)' => Writing(t) /\ senders'[t].e = senders[t].e
    BY <2>1
  <2>4. c # 0 /\ c \notin mixed' /\ handlers[c].at # "gone" => OrderedInv(k, c)'
    BY <2>1
  <2>5. \A u \in LinkThread : u # t => senders'[u] = senders[u]
    BY <1>6
  <2>6. mixed \subseteq mixed'
    BY <2>1
  <2> QED BY <1>6, <1>8, <2>2, <2>3, <2>4, <2>5, <2>6, StreamsKept
<1> QED BY <1>6, <1>7, <1>8, <1>9

\* The bytes of one handler's frame, counted one by one.
LEMMA Bytes ==
    ASSUME NEW c, NEW n \in Nat
    PROVE  IsFiniteSet({c} \X (1 .. n)) /\ Cardinality({c} \X (1 .. n)) = n
<1>1. IsFiniteSet(1 .. n) /\ Cardinality(1 .. n) = n
  BY FS_Interval
<1>2. IsFiniteSet({c}) /\ Cardinality({c}) = 1
  BY FS_Singleton
<1>3. 1 * n = n
  OBVIOUS
<1> QED BY <1>1, <1>2, <1>3, FS_Product

\* A handler that enters, leaves, reserves or frees moves the two counters by its own part.
LEMMA HoldMoves ==
    ASSUME NEW k, LinkConstants(k), RemoteType, HoldInv(k), NEW c \in LinkConn, NEW y \in Handler,
           handlers' = [handlers EXCEPT ![c] = y],
           y.at \notin {"body", "hold"} => y.head = NoPiece,
           places' = places + (IF y.at \in Attended THEN 1 ELSE 0) - (IF handlers[c].at \in Attended THEN 1 ELSE 0),
           buffered' = buffered + y.head.size - handlers[c].head.size,
           places' <= Kind[k].gate, buffered' <= LinkBudget
    PROVE  HoldInv(k)' /\ places' \in Int /\ buffered' \in Int
<1> DEFINE n(d) == handlers[d].head.size
           Bits(S) == UNION {{d} \X (1 .. n(d)) : d \in S}
           Rest == Bits(LinkConn \ {c})
           m == y.head.size
<1>1. \A d \in LinkConn : handlers'[d] = IF d = c THEN y ELSE handlers[d]
  BY DEF RemoteType
<1>2. \A h \in Handler : h.head.size \in Nat
  BY DEF Handler, Piece, NoPiece
<1>3. \A d \in LinkConn : n(d) \in Nat
  BY <1>2 DEF RemoteType
<1>4. m \in Nat
  BY <1>2
<1>5. IsFiniteSet(LinkConn) /\ IsFiniteSet(LinkConn \ {c})
  <2>1. 1 \in Int /\ LinkConns \in Int
    BY DEF LinkConstants
  <2>2. IsFiniteSet(LinkConn)
    BY <2>1, FS_Interval DEF LinkConn
  <2> QED BY <2>2, FS_Subset
<1>6. IsFiniteSet(Rest)
  <2> DEFINE g == [d \in LinkConn \ {c} |-> {d} \X (1 .. n(d))]
             T == {{d} \X (1 .. n(d)) : d \in LinkConn \ {c}}
  <2>1. g \in Surjection(LinkConn \ {c}, T)
    BY DEF Surjection
  <2>2. IsFiniteSet(T)
    BY ONLY <1>5, <2>1, FS_Surjection
  <2>3. \A u \in T : IsFiniteSet(u)
    <3> SUFFICES ASSUME NEW d \in LinkConn PROVE IsFiniteSet({d} \X (1 .. n(d)))
      OBVIOUS
    <3>1. n(d) \in Nat
      BY <1>3
    <3> HIDE DEF n
    <3> QED BY <3>1, Bytes
  <2> QED BY <2>2, <2>3, FS_UNION
<1>7. Link(k)!Held = Rest \cup ({c} \X (1 .. n(c))) /\ Rest \cap ({c} \X (1 .. n(c))) = {}
  BY DEF Link!Held, Link!Conn, LinkConn
<1>8. Link(k)!Held' = Rest \cup ({c} \X (1 .. m)) /\ Rest \cap ({c} \X (1 .. m)) = {}
  <2>1. Link(k)!Held' = UNION {{d} \X (1 .. handlers'[d].head.size) : d \in LinkConn}
    BY DEF Link!Held, Link!Conn, LinkConn
  <2>2. \A d \in LinkConn : d # c => handlers'[d].head.size = n(d)
    BY <1>1
  <2>3. handlers'[c].head.size = m
    BY <1>1
  <2> HIDE DEF n, m
  <2> QED BY <2>1, <2>2, <2>3
<1> HIDE DEF n, m, Rest
<1>9. \A j \in Nat : Rest \cap ({c} \X (1 .. j)) = {} =>
        Cardinality(Rest \cup ({c} \X (1 .. j))) = Cardinality(Rest) + j
  <2>1. SUFFICES ASSUME NEW j \in Nat, Rest \cap ({c} \X (1 .. j)) = {}
                 PROVE  Cardinality(Rest \cup ({c} \X (1 .. j))) = Cardinality(Rest) + j
    OBVIOUS
  <2>2. IsFiniteSet({c} \X (1 .. j)) /\ Cardinality({c} \X (1 .. j)) = j
    BY Bytes
  <2>3. Cardinality(Rest \cup ({c} \X (1 .. j))) =
           Cardinality(Rest) + Cardinality({c} \X (1 .. j)) - Cardinality(Rest \cap ({c} \X (1 .. j)))
    BY <1>6, <2>2, FS_Union
  <2>4. Cardinality(Rest \cap ({c} \X (1 .. j))) = 0
    BY <2>1, FS_EmptySet
  <2>5. Cardinality(Rest) \in Nat
    BY <1>6, FS_CardinalityType
  <2> QED BY <2>2, <2>3, <2>4, <2>5
<1>10. Cardinality(Link(k)!Held) = Cardinality(Rest) + n(c) /\ Cardinality(Link(k)!Held') = Cardinality(Rest) + m
  BY <1>3, <1>4, <1>7, <1>8, <1>9
<1>11. buffered = Cardinality(Link(k)!Held) /\ buffered' = buffered + m - n(c) /\ Cardinality(Rest) \in Nat
  <2>1. Cardinality(Rest) \in Nat
    BY <1>6, FS_CardinalityType
  <2> QED BY <2>1 DEF HoldInv, n, m
<1>12. buffered' = Cardinality(Link(k)!Held')
  BY <1>3, <1>4, <1>10, <1>11
<1> DEFINE A == {d \in LinkConn \ {c} : handlers[d].at \in Attended}
<1>13. IsFiniteSet(A) /\ c \notin A
  BY <1>5, FS_Subset
<1>14. /\ Link(k)!Serving = IF handlers[c].at \in Attended THEN A \cup {c} ELSE A
       /\ Link(k)!Serving' = IF y.at \in Attended THEN A \cup {c} ELSE A
  BY <1>1 DEF Link!Serving, Link!Conn, LinkConn, Attended
<1>15. Cardinality(A \cup {c}) = Cardinality(A) + 1 /\ Cardinality(A) \in Nat
  BY <1>13, FS_AddElement, FS_CardinalityType
<1>16. places' = Cardinality(Link(k)!Serving')
  BY <1>14, <1>15 DEF HoldInv
<1>17. \A d \in LinkConn : handlers'[d].at \notin {"body", "hold"} => handlers'[d].head = NoPiece
  BY <1>1 DEF HoldInv
<1> HIDE DEF A
<1>18. places' \in Int /\ buffered' \in Int
  BY <1>4, <1>10, <1>11, <1>12, <1>14, <1>15, <1>16
<1> QED BY <1>12, <1>16, <1>17, <1>18 DEF HoldInv

\* Only one handler moves: the calls, and what the others read and hold, stay.
LEMMA HandlerMoves ==
    ASSUME NEW k, LinkConstants(k), LinkInv(k), NEW c \in LinkConn, NEW y \in Handler,
           handlers' = [handlers EXCEPT ![c] = y], handlers[c].at # "none", y.at # "none",
           UNCHANGED <<sockets, registry, entries, senders, known_keys, dialled, sealed_frames, mixed>>,
           \A d \in LinkConn : d # c => streams'[d] = streams[d] /\ taken_frames'[d] = taken_frames[d],
           streams' \in [LinkConn -> Seq(Piece)], taken_frames' \in [LinkConn -> Seq(SealedFrame)],
           \A i \in 1 .. Len(streams'[c]) : Sealed(streams'[c][i]),
           y.at = "body" => Sealed(y.head) /\ y.head.part = "head",
           y.at \in {"backlog", "shake"} => y.rx = 0,
           y.at # "gone" => Len(taken_frames'[c]) = y.rx,
           Len(taken_frames'[c]) <= Len(sealed_frames[c]),
           \A i \in 1 .. Len(taken_frames'[c]) : taken_frames'[c][i] = sealed_frames[c][i],
           c \notin mixed /\ y.at # "gone" => OrderedInv(k, c)',
           y.at \notin {"body", "hold"} => y.head = NoPiece,
           places' = places + (IF y.at \in Attended THEN 1 ELSE 0) - (IF handlers[c].at \in Attended THEN 1 ELSE 0),
           buffered' = buffered + y.head.size - handlers[c].head.size,
           places' <= Kind[k].gate, buffered' <= LinkBudget
    PROVE  LinkInv(k)'
<1> USE DEF LinkInv
<1>1. \A d \in LinkConn : handlers'[d] = IF d = c THEN y ELSE handlers[d]
  BY DEF RemoteType
<1>2. HoldInv(k)' /\ places' \in Int /\ buffered' \in Int
  BY HoldMoves
<1>3. LocalType(k)'
  BY DEF LocalType
<1>4. RemoteType'
  BY <1>2 DEF RemoteType
<1>5. SocketInv(k)' /\ PublishInv(k)' /\ CounterInv' /\ SenderInv(k)' /\ TargetInv(k)' /\ KnownInv(k)' /\ PinInv(k)'
  BY DEF SocketInv, PublishInv, CounterInv, SenderInv, TargetInv, KnownInv, PinInv
<1>6. UnusedInv(k)'
  BY DEF UnusedInv, Unopened
<1>7. SessionInv(k)'
  <2>1. \A d \in LinkConn : UsersOf(d)' = UsersOf(d)
    BY DEF UsersOf
  <2> QED BY <2>1 DEF SessionInv
<1>8. WriteInv'
  BY DEF WriteInv, Writing
<1>9. FreshInv'
  <2>1. ~(c >= dialled)
    BY DEF FreshInv
  <2>2. ASSUME NEW d \in LinkConn
        PROVE  (handlers'[d].at = "none" <=> d >= dialled) /\ (d >= dialled => streams'[d] = <<>>)
    <3>1. CASE d = c
      BY <1>1, <2>1, <3>1
    <3>2. CASE d # c
      BY <1>1, <3>2 DEF FreshInv
    <3> QED BY <3>1, <3>2
  <2> QED BY <2>2 DEF FreshInv
<1>10. \A x : Sealed(x)' = Sealed(x)
  BY DEF Sealed
<1>11. \A d \in LinkConn : \A i \in 1 .. Len(streams'[d]) : Sealed(streams'[d][i])
  BY DEF FrameInv
<1>12. FrameInv'
  <2>1. ASSUME NEW d \in LinkConn, d # c
        PROVE  /\ handlers'[d] = handlers[d] /\ taken_frames'[d] = taken_frames[d]
    BY <1>1, <2>1
  <2>2. handlers'[c] = y
    BY <1>1
  <2>3. ASSUME NEW d \in LinkConn
        PROVE  /\ handlers'[d].at = "body" => Sealed(handlers'[d].head) /\ handlers'[d].head.part = "head"
               /\ handlers'[d].at \in {"none", "backlog", "shake"} => handlers'[d].rx = 0
               /\ handlers'[d].at # "gone" => Len(taken_frames'[d]) = handlers'[d].rx
               /\ Len(taken_frames'[d]) <= Len(sealed_frames[d])
               /\ \A i \in 1 .. Len(taken_frames'[d]) : taken_frames'[d][i] = sealed_frames[d][i]
    BY <2>1, <2>2 DEF FrameInv
  <2> QED BY <1>10, <1>11, <2>3 DEF FrameInv
<1>13. ASSUME NEW d \in LinkConn, d \notin mixed, handlers'[d].at # "gone" PROVE OrderedInv(k, d)'
  <2>1. CASE d = c
    BY <1>1, <1>13, <2>1
  <2>2. CASE d # c
    <3>1. OrderedInv(k, d) /\ handlers'[d] = handlers[d] /\ streams'[d] = streams[d]
      BY <1>1, <1>13, <2>2 DEF StreamInv
    <3>2. \A u \in LinkThread : Writing(u)' <=> Writing(u)
      BY DEF Writing
    <3> QED BY <3>1, <3>2, OrderKept
  <2> QED BY <2>1, <2>2
<1>14. StreamInv(k)'
  BY <1>13 DEF StreamInv
<1> QED BY <1>2, <1>3, <1>4, <1>5, <1>6, <1>7, <1>8, <1>9, <1>12, <1>14

\* accept and the gate: the handler starts, or the connection is closed at once.
LEMMA AcceptedStep ==
    ASSUME NEW k, LinkConstants(k), LinkInv(k), NEW c \in LinkConn, Link(k)!Accept(c) PROVE LinkInv(k)'
<1> USE DEF LinkInv
<1>1. /\ handlers[c].at = "backlog" /\ handlers[c].rx = 0 /\ handlers[c].head = NoPiece
      /\ Len(taken_frames[c]) = 0
      /\ UNCHANGED <<sockets, registry, entries, senders, known_keys, dialled, sealed_frames, mixed, streams,
                     buffered, taken_frames>>
  BY DEF Link!Accept, Link!local, FrameInv, HoldInv
<1>2. PICK goes \in {"shake", "gone"} :
        /\ handlers' = [handlers EXCEPT ![c].at = goes]
        /\ goes = "shake" => places < Kind[k].gate /\ places' = places + 1
        /\ goes = "gone" => places' = places
  BY DEF Link!Accept, Link!GateOpen
<1> DEFINE y == [handlers[c] EXCEPT !.at = goes]
<1>3. handlers[c] \in Handler /\ handlers \in [LinkConn -> Handler]
  BY DEF RemoteType
<1>4. y \in Handler /\ y.at = goes /\ y.rx = 0 /\ y.head = NoPiece /\ handlers' = [handlers EXCEPT ![c] = y]
  BY <1>1, <1>2, <1>3 DEF Handler
<1> HIDE DEF y
<1>5. places' = places + (IF y.at \in Attended THEN 1 ELSE 0) - (IF handlers[c].at \in Attended THEN 1 ELSE 0)
  BY <1>1, <1>2, <1>4 DEF Attended, RemoteType
<1>6. buffered' = buffered + y.head.size - handlers[c].head.size
  BY <1>1, <1>4 DEF NoPiece, RemoteType
<1>7. places' <= Kind[k].gate /\ buffered' <= LinkBudget
  BY <1>1, <1>2 DEF HoldInv, RemoteType, LinkConstants
<1>8. c \notin mixed /\ y.at # "gone" => OrderedInv(k, c)'
  <2>1. handlers'[c] = y
    BY <1>3, <1>4
  <2>2. \A u \in LinkThread : Writing(u)' <=> Writing(u)
    BY <1>1 DEF Writing
  <2> QED BY <1>1, <1>2, <1>4, <2>1, <2>2, OrderKept DEF StreamInv
<1>9. streams' \in [LinkConn -> Seq(Piece)] /\ taken_frames' \in [LinkConn -> Seq(SealedFrame)]
  BY <1>1 DEF RemoteType
<1>10. /\ \A i \in 1 .. Len(streams'[c]) : Sealed(streams'[c][i])
       /\ Len(taken_frames'[c]) <= Len(sealed_frames[c])
       /\ \A i \in 1 .. Len(taken_frames'[c]) : taken_frames'[c][i] = sealed_frames[c][i]
  BY <1>1 DEF FrameInv
<1>11. /\ y.at = "body" => Sealed(y.head) /\ y.head.part = "head"
       /\ y.at \in {"backlog", "shake"} => y.rx = 0
       /\ y.at # "gone" => Len(taken_frames'[c]) = y.rx
       /\ y.at # "none" /\ handlers[c].at # "none"
       /\ y.at \notin {"body", "hold"} => y.head = NoPiece
  BY <1>1, <1>2, <1>4
<1>12. \A d \in LinkConn : d # c => streams'[d] = streams[d] /\ taken_frames'[d] = taken_frames[d]
  BY <1>1
<1>13. UNCHANGED <<sockets, registry, entries, senders, known_keys, dialled, sealed_frames, mixed>>
  BY <1>1
<1>14. y \in Handler /\ handlers' = [handlers EXCEPT ![c] = y]
  BY <1>4
<1> QED BY <1>5, <1>6, <1>7, <1>8, <1>9, <1>10, <1>11, <1>12, <1>13, <1>14, HandlerMoves

\* The handler leaves, whatever it was reading, and what it held is freed.
LEMMA EndsStep ==
    ASSUME NEW k, LinkConstants(k), LinkInv(k), NEW c \in LinkConn, handlers[c].at \in Attended, Link(k)!Ends(c),
           UNCHANGED <<sockets, registry, entries, senders, known_keys, dialled, sealed_frames, mixed, taken_frames>>,
           streams' \in [LinkConn -> Seq(Piece)], \A d \in LinkConn : d # c => streams'[d] = streams[d],
           \A i \in 1 .. Len(streams'[c]) : Sealed(streams'[c][i])
    PROVE  LinkInv(k)'
<1> USE DEF LinkInv
<1> DEFINE y == [at |-> "gone", rx |-> 0, head |-> NoPiece]
<1>1. /\ y \in Handler /\ y.at = "gone" /\ y.head = NoPiece /\ y.head.size = 0
      /\ handlers' = [handlers EXCEPT ![c] = y]
      /\ places' = places - 1 /\ buffered' = buffered - handlers[c].head.size
  BY DEF Handler, NoPiece, Link!Ends, Link!NoHead
<1> HIDE DEF y
<1>2. handlers[c].head.size \in Nat
  BY DEF RemoteType, Handler, Piece, NoPiece
<1>3. places' = places + (IF y.at \in Attended THEN 1 ELSE 0) - (IF handlers[c].at \in Attended THEN 1 ELSE 0)
  BY <1>1 DEF Attended, RemoteType
<1>4. buffered' = buffered + y.head.size - handlers[c].head.size
  BY <1>1, <1>2 DEF RemoteType
<1>5. places' <= Kind[k].gate /\ buffered' <= LinkBudget
  BY <1>1, <1>2 DEF HoldInv, RemoteType, LinkConstants
<1>6. taken_frames' \in [LinkConn -> Seq(SealedFrame)]
  BY DEF RemoteType
<1>7. /\ Len(taken_frames'[c]) <= Len(sealed_frames[c])
      /\ \A i \in 1 .. Len(taken_frames'[c]) : taken_frames'[c][i] = sealed_frames[c][i]
  BY DEF FrameInv
<1>8. /\ y.at = "body" => Sealed(y.head) /\ y.head.part = "head"
      /\ y.at \in {"backlog", "shake"} => y.rx = 0
      /\ y.at # "gone" => Len(taken_frames'[c]) = y.rx
      /\ y.at # "none" /\ handlers[c].at # "none"
      /\ y.at \notin {"body", "hold"} => y.head = NoPiece
      /\ c \notin mixed /\ y.at # "gone" => OrderedInv(k, c)'
  BY <1>1 DEF Attended
<1>9. y \in Handler /\ handlers' = [handlers EXCEPT ![c] = y]
  BY <1>1
<1>10. \A d \in LinkConn : d # c => streams'[d] = streams[d] /\ taken_frames'[d] = taken_frames[d]
  OBVIOUS
<1> QED BY <1>3, <1>4, <1>5, <1>6, <1>7, <1>8, <1>9, <1>10, HandlerMoves

\* End of stream, a spoilt handshake or a deadline.
LEMMA HangupStep ==
    ASSUME NEW k, LinkConstants(k), LinkInv(k), NEW c \in LinkConn, Link(k)!Hangup(c) PROVE LinkInv(k)'
<1> USE DEF LinkInv
<1>1. /\ handlers[c].at \in Attended /\ Link(k)!Ends(c)
      /\ UNCHANGED <<sockets, registry, entries, senders, known_keys, dialled, sealed_frames, mixed, taken_frames, streams>>
  BY DEF Link!Hangup, Link!local, Attended
<1>2. streams' \in [LinkConn -> Seq(Piece)]
  BY <1>1 DEF RemoteType
<1>3. \A i \in 1 .. Len(streams'[c]) : Sealed(streams'[c][i])
  BY <1>1 DEF FrameInv
<1> QED BY <1>1, <1>2, <1>3, EndsStep

\* lmb_msg_free after the request has been served.
LEMMA FreeStep ==
    ASSUME NEW k, LinkConstants(k), LinkInv(k), NEW c \in LinkConn, Link(k)!Free(c) PROVE LinkInv(k)'
<1> USE DEF LinkInv
<1>1. /\ handlers[c].at = "hold"
      /\ handlers' = [handlers EXCEPT ![c].at = "read", ![c].head = NoPiece]
      /\ buffered' = buffered - handlers[c].head.size
      /\ UNCHANGED <<sockets, registry, entries, senders, known_keys, dialled, sealed_frames, mixed, streams,
                     places, taken_frames>>
  BY DEF Link!Free, Link!local, Link!NoHead, NoPiece
<1> DEFINE y == [handlers[c] EXCEPT !.at = "read", !.head = NoPiece]
<1>2. handlers[c] \in Handler /\ handlers \in [LinkConn -> Handler]
  BY DEF RemoteType
<1>3. /\ y \in Handler /\ y.at = "read" /\ y.rx = handlers[c].rx /\ y.head = NoPiece
      /\ handlers' = [handlers EXCEPT ![c] = y]
  BY <1>1, <1>2 DEF Handler
<1> HIDE DEF y
<1>4. y.head.size = 0 /\ handlers[c].head.size \in Nat
  BY <1>2, <1>3 DEF NoPiece, Handler, Piece
<1>5. places' = places + (IF y.at \in Attended THEN 1 ELSE 0) - (IF handlers[c].at \in Attended THEN 1 ELSE 0)
  BY <1>1, <1>3 DEF Attended, RemoteType
<1>6. buffered' = buffered + y.head.size - handlers[c].head.size
  BY <1>1, <1>4 DEF RemoteType
<1>7. places' <= Kind[k].gate /\ buffered' <= LinkBudget
  BY <1>1, <1>4 DEF HoldInv, RemoteType, LinkConstants
<1>8. ASSUME c \notin mixed PROVE OrderedInv(k, c)'
  <2>1. OrderedInv(k, c) /\ handlers'[c] = y
    BY <1>1, <1>2, <1>3, <1>8 DEF StreamInv
  <2>2. End(c)' = End(c) /\ \A i : AfterPiece(c, i)' = AfterPiece(c, i)
    BY <1>1, <1>3, <2>1 DEF End, AfterPiece
  <2>3. \A u \in LinkThread : Writing(u)' <=> Writing(u)
    BY <1>1 DEF Writing
  <2> QED BY <1>1, <1>3, <2>1, <2>2, <2>3 DEF OrderedInv
<1>9. streams' \in [LinkConn -> Seq(Piece)] /\ taken_frames' \in [LinkConn -> Seq(SealedFrame)]
  BY <1>1 DEF RemoteType
<1>10. /\ \A i \in 1 .. Len(streams'[c]) : Sealed(streams'[c][i])
       /\ Len(taken_frames'[c]) <= Len(sealed_frames[c]) /\ Len(taken_frames'[c]) = handlers[c].rx
       /\ \A i \in 1 .. Len(taken_frames'[c]) : taken_frames'[c][i] = sealed_frames[c][i]
  BY <1>1 DEF FrameInv
<1>11. /\ y.at = "body" => Sealed(y.head) /\ y.head.part = "head"
       /\ y.at \in {"backlog", "shake"} => y.rx = 0
       /\ y.at # "gone" => Len(taken_frames'[c]) = y.rx
       /\ y.at # "none" /\ handlers[c].at # "none"
       /\ y.at \notin {"body", "hold"} => y.head = NoPiece
  BY <1>1, <1>3, <1>10
<1>12. \A d \in LinkConn : d # c => streams'[d] = streams[d] /\ taken_frames'[d] = taken_frames[d]
  BY <1>1
<1>13. UNCHANGED <<sockets, registry, entries, senders, known_keys, dialled, sealed_frames, mixed>>
  BY <1>1
<1>14. y \in Handler /\ handlers' = [handlers EXCEPT ![c] = y]
  BY <1>3
<1> QED BY <1>5, <1>6, <1>7, <1>8, <1>9, <1>10, <1>11, <1>12, <1>13, <1>14, HandlerMoves

\* The first chunk leaves the stream.
LEMMA ChunkRead ==
    ASSUME RemoteType, FrameInv, NEW c \in LinkConn, streams[c] # <<>>, streams' = [streams EXCEPT ![c] = Tail(@)]
    PROVE  /\ streams' \in [LinkConn -> Seq(Piece)] /\ \A d \in LinkConn : d # c => streams'[d] = streams[d]
           /\ Len(streams[c]) \in Nat /\ Len(streams[c]) > 0 /\ Len(streams'[c]) = Len(streams[c]) - 1
           /\ \A i \in 1 .. Len(streams'[c]) : streams'[c][i] = streams[c][i + 1] /\ Sealed(streams'[c][i])
           /\ Head(streams[c]) = streams[c][1] /\ streams[c][1] \in Piece /\ Sealed(streams[c][1])
<1>1. streams \in [LinkConn -> Seq(Piece)] /\ streams[c] \in Seq(Piece)
  BY DEF RemoteType
<1>2. /\ Tail(streams[c]) \in Seq(Piece) /\ Len(Tail(streams[c])) = Len(streams[c]) - 1
      /\ Len(streams[c]) \in Nat /\ Len(streams[c]) > 0
      /\ \A i \in 1 .. Len(streams[c]) - 1 : Tail(streams[c])[i] = streams[c][i + 1]
      /\ Head(streams[c]) = streams[c][1] /\ streams[c][1] \in Piece
  BY <1>1, EmptySeq
<1>3. streams' \in [LinkConn -> Seq(Piece)] /\ streams'[c] = Tail(streams[c])
      /\ \A d \in LinkConn : d # c => streams'[d] = streams[d]
  BY <1>1, <1>2
<1>4. \A i \in 1 .. Len(streams[c]) : Sealed(streams[c][i])
  BY DEF FrameInv
<1>5. \A i \in 1 .. Len(streams[c]) - 1 : i + 1 \in 1 .. Len(streams[c])
  BY <1>2
<1>6. Sealed(streams[c][1])
  BY <1>2, <1>4
<1>7. ASSUME NEW i \in 1 .. Len(streams'[c]) PROVE streams'[c][i] = streams[c][i + 1] /\ Sealed(streams'[c][i])
  <2>1. i \in 1 .. Len(streams[c]) - 1
    BY <1>2, <1>3
  <2>2. Sealed(streams[c][i + 1])
    BY <1>4, <1>5, <2>1
  <2>3. streams'[c][i] = streams[c][i + 1]
    BY <1>2, <1>3, <2>1
  <2> QED BY <2>2, <2>3
<1> QED BY <1>2, <1>3, <1>6, <1>7

\* A handler that takes the first chunk, and no other, expects the second next.
LEMMA OrderRead ==
    ASSUME NEW k, NEW c \in LinkConn, OrderedInv(k, c), UNCHANGED <<sockets, senders, entries>>,
           Len(streams[c]) \in Nat, Len(streams[c]) > 0, Len(streams'[c]) = Len(streams[c]) - 1,
           \A i \in 1 .. Len(streams'[c]) : streams'[c][i] = streams[c][i + 1],
           AfterPiece(c, 0)' = After(streams[c][1]),
           handlers'[c].at = "body" => handlers'[c].head.key = c /\ handlers'[c].head.ctr = handlers'[c].rx
    PROVE  OrderedInv(k, c)'
<1>1. ASSUME NEW i \in 0 .. Len(streams'[c]) PROVE AfterPiece(c, i)' = AfterPiece(c, i + 1)
  <2>1. CASE i = 0
    BY <2>1 DEF AfterPiece
  <2>2. CASE i # 0
    <3>1. i \in 1 .. Len(streams'[c]) /\ i + 1 # 0
      BY <2>2
    <3> QED BY <2>2, <3>1 DEF AfterPiece
  <2> QED BY <2>1, <2>2
<1>2. End(c)' = End(c)
  <2>1. PICK n \in Nat : n = Len(streams'[c])
    OBVIOUS
  <2>2. End(c)' = AfterPiece(c, n)'
    BY <2>1 DEF End, AfterPiece
  <2>3. AfterPiece(c, n)' = AfterPiece(c, n + 1)
    BY <1>1, <2>1
  <2>4. n + 1 = Len(streams[c])
    BY <2>1
  <2> QED BY <2>2, <2>3, <2>4 DEF End
<1>3. ASSUME NEW i \in 1 .. Len(streams'[c])
      PROVE  streams'[c][i].key = c /\ <<streams'[c][i].ctr, streams'[c][i].part>> = AfterPiece(c, i - 1)'
  <2>1. PICK j \in 0 .. Len(streams'[c]) : j = i - 1
    OBVIOUS
  <2>2. AfterPiece(c, j)' = AfterPiece(c, j + 1)
    BY <1>1
  <2>3. i + 1 \in 1 .. Len(streams[c]) /\ (i + 1) - 1 = i /\ j + 1 = i
    BY <2>1
  <2>4. streams[c][i + 1].key = c /\ <<streams[c][i + 1].ctr, streams[c][i + 1].part>> = AfterPiece(c, i)
    BY <2>3 DEF OrderedInv
  <2>5. AfterPiece(c, j)' = AfterPiece(c, i)
    BY <2>2, <2>3
  <2> QED BY <2>1, <2>4, <2>5
<1>4. \A u \in LinkThread : Writing(u)' <=> Writing(u)
  BY DEF Writing
<1> QED BY <1>2, <1>3, <1>4 DEF OrderedInv

\* lmb_secure_recv takes a header: it reserves the frame's bytes, or leaves.
LEMMA ReadHeadStep ==
    ASSUME NEW k, LinkConstants(k), LinkInv(k), NEW c \in LinkConn, Link(k)!ReadHead(c) PROVE LinkInv(k)'
<1> USE DEF LinkInv
<1>1. /\ handlers[c].at = "read" /\ streams[c] # <<>> /\ streams' = [streams EXCEPT ![c] = Tail(@)]
      /\ UNCHANGED <<sockets, registry, entries, senders, known_keys, dialled, sealed_frames, mixed, taken_frames>>
  BY DEF Link!ReadHead, Link!local
<1>2. /\ streams' \in [LinkConn -> Seq(Piece)] /\ \A d \in LinkConn : d # c => streams'[d] = streams[d]
      /\ Len(streams[c]) \in Nat /\ Len(streams[c]) > 0 /\ Len(streams'[c]) = Len(streams[c]) - 1
      /\ \A i \in 1 .. Len(streams'[c]) : streams'[c][i] = streams[c][i + 1] /\ Sealed(streams'[c][i])
      /\ Head(streams[c]) = streams[c][1] /\ streams[c][1] \in Piece /\ Sealed(streams[c][1])
  BY <1>1, ChunkRead
<1>3. PICK h \in Piece : h = streams[c][1]
  BY <1>2
<1>4. CASE Link(k)!Ends(c)
  <2>1. \A i \in 1 .. Len(streams'[c]) : Sealed(streams'[c][i])
    BY <1>2
  <2> QED BY <1>1, <1>2, <1>4, <2>1, EndsStep DEF Attended
<1>5. CASE ~Link(k)!Ends(c)
  <2>1. /\ h.part = "head" /\ Link(k)!Reserves(h.size)
        /\ handlers' = [handlers EXCEPT ![c].at = "body", ![c].head = h]
        /\ buffered' = buffered + h.size /\ places' = places
    BY <1>2, <1>3, <1>5 DEF Link!ReadHead
  <2> DEFINE y == [handlers[c] EXCEPT !.at = "body", !.head = h]
  <2>2. handlers[c] \in Handler /\ handlers \in [LinkConn -> Handler] /\ handlers[c].head = NoPiece
    BY <1>1 DEF RemoteType, HoldInv
  <2>3. /\ y \in Handler /\ y.at = "body" /\ y.rx = handlers[c].rx /\ y.head = h
        /\ handlers' = [handlers EXCEPT ![c] = y]
    BY <2>1, <2>2 DEF Handler
  <2> HIDE DEF y
  <2>4. handlers[c].head.size = 0 /\ h.size \in Nat
    BY <2>2 DEF NoPiece, Piece
  <2>5. places' = places + (IF y.at \in Attended THEN 1 ELSE 0) - (IF handlers[c].at \in Attended THEN 1 ELSE 0)
    BY <1>1, <2>1, <2>3 DEF Attended, RemoteType
  <2>6. buffered' = buffered + y.head.size - handlers[c].head.size
    BY <2>1, <2>3, <2>4 DEF RemoteType
  <2>7. places' <= Kind[k].gate /\ buffered' <= LinkBudget
    <3>1. buffered <= LinkBudget - h.size /\ LinkBudget \in Nat /\ buffered \in Int
      BY <2>1 DEF Link!Reserves, RemoteType, LinkConstants
    <3> QED BY <2>1, <2>4, <3>1 DEF HoldInv
  <2>8. ASSUME c \notin mixed PROVE OrderedInv(k, c)'
    <3>1. OrderedInv(k, c) /\ handlers'[c] = y
      BY <1>1, <2>2, <2>3, <2>8 DEF StreamInv
    <3>2. 1 \in 1 .. Len(streams[c]) /\ 1 - 1 = 0
      BY <1>2
    <3>3. h.key = c /\ <<h.ctr, h.part>> = AfterPiece(c, 0)
      BY <1>3, <3>1, <3>2 DEF OrderedInv
    <3>4. AfterPiece(c, 0) = <<handlers[c].rx, "head">>
      BY <1>1 DEF AfterPiece
    <3>5. AfterPiece(c, 0)' = <<handlers[c].rx, "rest">>
      BY <2>3, <3>1 DEF AfterPiece
    <3>6. After(streams[c][1]) = <<handlers[c].rx, "rest">> /\ h.ctr = handlers[c].rx
      BY <1>3, <2>1, <3>3, <3>4 DEF After
    <3>7. handlers'[c].at = "body" => handlers'[c].head.key = c /\ handlers'[c].head.ctr = handlers'[c].rx
      BY <2>3, <3>1, <3>3, <3>6
    <3> QED BY <1>1, <1>2, <3>1, <3>5, <3>6, <3>7, OrderRead
  <2>9. taken_frames' \in [LinkConn -> Seq(SealedFrame)]
    BY <1>1 DEF RemoteType
  <2>10. /\ \A i \in 1 .. Len(streams'[c]) : Sealed(streams'[c][i])
         /\ Len(taken_frames'[c]) <= Len(sealed_frames[c]) /\ Len(taken_frames'[c]) = handlers[c].rx
         /\ \A i \in 1 .. Len(taken_frames'[c]) : taken_frames'[c][i] = sealed_frames[c][i]
    BY <1>1, <1>2 DEF FrameInv
  <2>11. /\ y.at = "body" => Sealed(y.head) /\ y.head.part = "head"
         /\ y.at \in {"backlog", "shake"} => y.rx = 0
         /\ y.at # "gone" => Len(taken_frames'[c]) = y.rx
         /\ y.at # "none" /\ handlers[c].at # "none"
         /\ y.at \notin {"body", "hold"} => y.head = NoPiece
    BY <1>1, <1>2, <1>3, <2>1, <2>3, <2>10
  <2>12. \A d \in LinkConn : d # c => streams'[d] = streams[d] /\ taken_frames'[d] = taken_frames[d]
    BY <1>1, <1>2
  <2>13. UNCHANGED <<sockets, registry, entries, senders, known_keys, dialled, sealed_frames, mixed>>
    BY <1>1
  <2>14. y \in Handler /\ handlers' = [handlers EXCEPT ![c] = y]
    BY <2>3
  <2> QED BY <1>2, <2>5, <2>6, <2>7, <2>8, <2>9, <2>10, <2>11, <2>12, <2>13, <2>14, HandlerMoves
<1> QED BY <1>4, <1>5

\* The rest of the frame opens under the connection's own key and counter, or the handler leaves.
LEMMA ReadRestStep ==
    ASSUME NEW k, LinkConstants(k), LinkInv(k), NEW c \in LinkConn, Link(k)!ReadRest(c) PROVE LinkInv(k)'
<1> USE DEF LinkInv
<1>1. /\ handlers[c].at = "body" /\ streams[c] # <<>> /\ streams' = [streams EXCEPT ![c] = Tail(@)]
      /\ UNCHANGED <<sockets, registry, entries, senders, known_keys, dialled, sealed_frames, mixed>>
  BY DEF Link!ReadRest, Link!local
<1>2. /\ streams' \in [LinkConn -> Seq(Piece)] /\ \A d \in LinkConn : d # c => streams'[d] = streams[d]
      /\ Len(streams[c]) \in Nat /\ Len(streams[c]) > 0 /\ Len(streams'[c]) = Len(streams[c]) - 1
      /\ \A i \in 1 .. Len(streams'[c]) : streams'[c][i] = streams[c][i + 1] /\ Sealed(streams'[c][i])
      /\ Head(streams[c]) = streams[c][1] /\ streams[c][1] \in Piece /\ Sealed(streams[c][1])
  BY <1>1, ChunkRead
<1>3. PICK h \in Piece : h = streams[c][1]
  BY <1>2
<1>4. CASE Link(k)!Ends(c) /\ taken_frames' = taken_frames
  <2>1. \A i \in 1 .. Len(streams'[c]) : Sealed(streams'[c][i])
    BY <1>2
  <2> QED BY <1>1, <1>2, <1>4, <2>1, EndsStep DEF Attended
<1>5. CASE ~(Link(k)!Ends(c) /\ taken_frames' = taken_frames)
  <2>1. /\ h.part = "rest" /\ h.key = c /\ h.ctr = handlers[c].rx
        /\ handlers' = [handlers EXCEPT ![c].at = "hold", ![c].rx = @ + 1]
        /\ taken_frames' = [taken_frames EXCEPT ![c] = Append(@, <<h.by, h.size>>)]
        /\ buffered' = buffered /\ places' = places
    BY <1>2, <1>3, <1>5 DEF Link!ReadRest, Link!Opens
  <2> DEFINE y == [handlers[c] EXCEPT !.at = "hold", !.rx = @ + 1]
  <2>2. handlers[c] \in Handler /\ handlers \in [LinkConn -> Handler] /\ handlers[c].rx \in Nat
    BY <1>1 DEF RemoteType, Handler
  <2>3. /\ y \in Handler /\ y.at = "hold" /\ y.rx = handlers[c].rx + 1 /\ y.head = handlers[c].head
        /\ handlers' = [handlers EXCEPT ![c] = y]
    BY <2>1, <2>2 DEF Handler
  <2> HIDE DEF y
  <2>4. handlers[c].head.size \in Nat
    BY <2>2 DEF Handler, NoPiece, Piece
  <2>5. places' = places + (IF y.at \in Attended THEN 1 ELSE 0) - (IF handlers[c].at \in Attended THEN 1 ELSE 0)
    BY <1>1, <2>1, <2>3 DEF Attended, RemoteType
  <2>6. buffered' = buffered + y.head.size - handlers[c].head.size
    BY <2>1, <2>3, <2>4 DEF RemoteType
  <2>7. places' <= Kind[k].gate /\ buffered' <= LinkBudget
    BY <2>1 DEF HoldInv
  <2>8. ASSUME c \notin mixed PROVE OrderedInv(k, c)'
    <3>1. OrderedInv(k, c) /\ handlers'[c] = y
      BY <1>1, <2>2, <2>3, <2>8 DEF StreamInv
    <3>2. AfterPiece(c, 0)' = <<handlers[c].rx + 1, "head">>
      BY <2>3, <3>1 DEF AfterPiece
    <3>3. After(streams[c][1]) = <<handlers[c].rx + 1, "head">>
      BY <1>3, <2>1 DEF After
    <3>4. handlers'[c].at # "body"
      BY <2>3, <3>1
    <3> QED BY <1>1, <1>2, <3>1, <3>2, <3>3, <3>4, OrderRead
  <2>9. taken_frames \in [LinkConn -> Seq(SealedFrame)] /\ taken_frames[c] \in Seq(SealedFrame) /\ Len(taken_frames[c]) \in Nat
        /\ sealed_frames[c] \in Seq(SealedFrame) /\ Len(sealed_frames[c]) \in Nat
    BY DEF RemoteType, LocalType
  <2>10. <<h.by, h.size>> \in SealedFrame
    BY DEF Piece, SealedFrame
  <2>11. /\ taken_frames' \in [LinkConn -> Seq(SealedFrame)]
         /\ taken_frames'[c] = Append(taken_frames[c], <<h.by, h.size>>)
         /\ \A d \in LinkConn : d # c => taken_frames'[d] = taken_frames[d]
    BY <2>1, <2>9, <2>10
  <2>12. /\ Len(taken_frames'[c]) = Len(taken_frames[c]) + 1
         /\ taken_frames'[c][Len(taken_frames[c]) + 1] = <<h.by, h.size>>
         /\ \A i \in 1 .. Len(taken_frames[c]) : taken_frames'[c][i] = taken_frames[c][i]
    BY <2>9, <2>10, <2>11
  <2>13. Len(taken_frames[c]) = handlers[c].rx
    BY <1>1 DEF FrameInv
  <2>14. handlers[c].rx < Len(sealed_frames[c]) /\ sealed_frames[c][handlers[c].rx + 1] = <<h.by, h.size>>
    <3>1. Sealed(h) /\ c # 0
      BY <1>2, <1>3 DEF LinkConn
    <3> QED BY <2>1, <3>1 DEF Sealed
  <2>15. Len(taken_frames'[c]) <= Len(sealed_frames[c])
    BY <2>2, <2>9, <2>12, <2>13, <2>14
  <2>16. \A i \in 1 .. Len(taken_frames'[c]) : taken_frames'[c][i] = sealed_frames[c][i]
    <3>1. SUFFICES ASSUME NEW i \in 1 .. Len(taken_frames'[c]) PROVE taken_frames'[c][i] = sealed_frames[c][i]
      OBVIOUS
    <3>2. i \in 1 .. Len(taken_frames[c]) \/ i = Len(taken_frames[c]) + 1
      BY <2>9, <2>12
    <3>3. CASE i \in 1 .. Len(taken_frames[c])
      BY <2>12, <3>3 DEF FrameInv
    <3>4. CASE i = Len(taken_frames[c]) + 1
      BY <2>12, <2>13, <2>14, <3>4
    <3> QED BY <3>2, <3>3, <3>4
  <2>17. /\ y.at = "body" => Sealed(y.head) /\ y.head.part = "head"
         /\ y.at \in {"backlog", "shake"} => y.rx = 0
         /\ y.at # "gone" => Len(taken_frames'[c]) = y.rx
         /\ y.at # "none" /\ handlers[c].at # "none"
         /\ y.at \notin {"body", "hold"} => y.head = NoPiece
    BY <1>1, <2>3, <2>12, <2>13
  <2>18. \A d \in LinkConn : d # c => streams'[d] = streams[d] /\ taken_frames'[d] = taken_frames[d]
    BY <1>2, <2>11
  <2>19. UNCHANGED <<sockets, registry, entries, senders, known_keys, dialled, sealed_frames, mixed>>
    BY <1>1
  <2>20. y \in Handler /\ handlers' = [handlers EXCEPT ![c] = y]
    BY <2>3
  <2>21. \A i \in 1 .. Len(streams'[c]) : Sealed(streams'[c][i])
    BY <1>2
  <2> QED BY <1>2, <2>5, <2>6, <2>7, <2>8, <2>11, <2>15, <2>16, <2>17, <2>18, <2>19, <2>20, <2>21, HandlerMoves
<1> QED BY <1>4, <1>5

LEMMA LinkNext == ASSUME NEW k, LinkConstants(k), LinkInv(k), Link(k)!Next PROVE LinkInv(k)'
<1>1. \/ \E f \in Kind[k].fd : Link(k)!Connect(f) \/ Link(k)!Close(f) \/ Link(k)!Opener(f)
      \/ \E t \in LinkThread : Link(k)!Call(t) \/ \E f \in Kind[k].fd : Link(k)!Send(t, f)
      \/ \E c \in LinkConn : Link(k)!Handle(c)
  BY DEF Link!Next, Link!Conn, LinkConn
<1>2. ASSUME NEW f \in Kind[k].fd, Link(k)!Connect(f) \/ Link(k)!Close(f) \/ Link(k)!Opener(f) PROVE LinkInv(k)'
  BY <1>2, ConnectStep, LinkClosesStep, HandshakeStep, PinStep, HandshakeFailsStep, CloseSocketStep DEF Link!Opener
<1>3. ASSUME NEW t \in LinkThread, Link(k)!Call(t) \/ \E f \in Kind[k].fd : Link(k)!Send(t, f) PROVE LinkInv(k)'
  BY <1>3, WriteHeadStep, WriteStep, WriteFailsStep, SendStep DEF Link!Call
<1>4. ASSUME NEW c \in LinkConn, Link(k)!Handle(c) PROVE LinkInv(k)'
  BY <1>4, AcceptedStep, ReadHeadStep, ReadRestStep, FreeStep, HangupStep DEF Link!Handle
<1> QED BY <1>1, <1>2, <1>3, <1>4

\* And when nothing of it moves.
LEMMA LinkStep == ASSUME NEW k, LinkConstants(k), LinkInv(k), [Link(k)!Next]_(Link(k)!vars) PROVE LinkInv(k)'
<1>1. CASE UNCHANGED Link(k)!vars
  <2>1. UNCHANGED <<sockets, registry, entries, senders, known_keys, streams, hung_up, handlers, places, buffered,
                    dialled, sends, link_faults, sealed_frames, taken_frames, mixed>>
    BY <1>1 DEF Link!vars
  <2>2. LocalType(k)' /\ RemoteType' /\ SocketInv(k)' /\ PublishInv(k)' /\ FreshInv'
    BY <2>1 DEF LinkInv, LocalType, RemoteType, SocketInv, PublishInv, FreshInv
  <2>3. UnusedInv(k)' /\ CounterInv' /\ SenderInv(k)' /\ TargetInv(k)'
    BY <2>1 DEF LinkInv, UnusedInv, Unopened, CounterInv, SenderInv, TargetInv
  <2>4. WriteInv' /\ FrameInv' /\ KnownInv(k)' /\ PinInv(k)'
    BY <2>1 DEF LinkInv, WriteInv, Writing, FrameInv, Sealed, KnownInv, PinInv
  <2>5. SessionInv(k)'
    BY <2>1 DEF LinkInv, SessionInv, UsersOf
  <2>6. StreamInv(k)'
    <3>1. \A t \in LinkThread : Writing(t)' = Writing(t)
      BY <2>1 DEF Writing
    <3>2. \A c \in LinkConn : End(c)' = End(c)
      BY <2>1 DEF End, AfterPiece, After
    <3>3. \A c \in LinkConn : \A i \in 1 .. Len(streams[c]) : AfterPiece(c, i - 1)' = AfterPiece(c, i - 1)
      BY <2>1 DEF AfterPiece, After
    <3>4. \A c \in LinkConn : OrderedInv(k, c)' = OrderedInv(k, c)
      BY <2>1, <3>1, <3>2, <3>3 DEF OrderedInv
    <3> QED BY <2>1, <3>4 DEF LinkInv, StreamInv
  <2>7. HoldInv(k)'
    BY <2>1, HoldKept DEF LinkInv, HoldInv, Attended
  <2> QED BY <2>2, <2>3, <2>4, <2>5, <2>6, <2>7 DEF LinkInv
<1>2. CASE Link(k)!Next
  BY <1>2, LinkNext
<1> QED BY <1>1, <1>2

LEMMA LinkPromise == ASSUME NEW k, LinkConstants(k), LinkInv(k) PROVE Link(k)!ChannelSound
<1> USE DEF LinkInv
<1>1. \A S : Link(k)!Cardinality(S) = Cardinality(S)
  BY LinkCounts
<1>2. \A c \in LinkConn : Link(k)!Users(c) = UsersOf(c)
  BY DEF Link!Users, UsersOf
<1>3. ASSUME NEW c \in LinkConn
      PROVE  /\ Len(taken_frames[c]) <= Len(sealed_frames[c])
             /\ \A i \in 1 .. Len(taken_frames[c]) : taken_frames[c][i] = sealed_frames[c][i]
             /\ entries[c].refs = Link(k)!Cardinality(Link(k)!Users(c))
             /\ entries[c].freed => Link(k)!Users(c) = {} /\ \A f \in Kind[k].fd : registry[f] # c
             /\ entries[c].closing /\ Link(k)!Users(c) = {} => entries[c].freed
  BY <1>1, <1>2 DEF FrameInv, SessionInv
<1>4. ASSUME NEW c \in LinkConn, c \notin mixed, handlers[c].at \in {"read", "body"}, streams[c] # <<>>
      PROVE  /\ Head(streams[c]) = streams[c][1] /\ streams[c][1] \in Piece
             /\ streams[c][1].key = c /\ streams[c][1].ctr = handlers[c].rx
             /\ streams[c][1].part = IF handlers[c].at = "body" THEN "rest" ELSE "head"
             /\ Sealed(streams[c][1])
  <2>1. streams[c] \in Seq(Piece) /\ Len(streams[c]) \in Nat /\ Len(streams[c]) > 0
    BY <1>4, EmptySeq DEF RemoteType
  <2>2. 1 \in 1 .. Len(streams[c]) /\ 1 - 1 = 0
    BY <2>1
  <2>3. OrderedInv(k, c)
    BY <1>4 DEF StreamInv
  <2>4. streams[c][1].key = c /\ <<streams[c][1].ctr, streams[c][1].part>> = AfterPiece(c, 0)
    BY <2>2, <2>3 DEF OrderedInv
  <2>5. AfterPiece(c, 0) = <<handlers[c].rx, IF handlers[c].at = "body" THEN "rest" ELSE "head">>
    BY DEF AfterPiece
  <2>6. Sealed(streams[c][1])
    BY <2>2 DEF FrameInv
  <2> QED BY <2>1, <2>4, <2>5, <2>6
<1>5. ASSUME NEW c \in LinkConn, c \notin mixed, handlers[c].at = "read", streams[c] # <<>>
      PROVE  Head(streams[c]).part = "head"
  BY <1>4, <1>5
<1>6. ASSUME NEW c \in LinkConn, c \notin mixed, handlers[c].at = "body", streams[c] # <<>>
      PROVE  Link(k)!Opens(c, handlers[c].head, Head(streams[c]))
  <2>1. /\ Head(streams[c]) = streams[c][1] /\ streams[c][1] \in Piece
        /\ streams[c][1].key = c /\ streams[c][1].ctr = handlers[c].rx /\ streams[c][1].part = "rest"
        /\ Sealed(streams[c][1])
    BY <1>4, <1>6
  <2>2. OrderedInv(k, c)
    BY <1>6 DEF StreamInv
  <2>3. /\ handlers[c].head.key = c /\ handlers[c].head.ctr = handlers[c].rx
        /\ handlers[c].head.part = "head" /\ Sealed(handlers[c].head)
    BY <1>6, <2>2 DEF OrderedInv, FrameInv
  <2>4. handlers[c].head \in Piece
    <3>1. handlers[c].head \in Piece \cup {NoPiece}
      BY DEF RemoteType, Handler
    <3> QED BY <2>3, <3>1 DEF NoPiece
  <2>5. c # 0
    BY DEF LinkConn
  <2>6. handlers[c].head.by = streams[c][1].by /\ handlers[c].head.size = streams[c][1].size
    BY <2>1, <2>3, <2>5 DEF Sealed
  <2>7. handlers[c].head = [streams[c][1] EXCEPT !.part = "head"]
    BY <2>1, <2>3, <2>4, <2>6 DEF Piece
  <2> QED BY <2>1, <2>7 DEF Link!Opens
<1>7. /\ places = Link(k)!Cardinality(Link(k)!Serving) /\ places <= Kind[k].gate
      /\ buffered = Link(k)!Cardinality(Link(k)!Held) /\ buffered <= LinkBudget
  BY <1>1 DEF HoldInv
<1>8. \A h \in LinkHost : Link(k)!Cardinality(known_keys[h]) <= 1
  <2> SUFFICES ASSUME NEW h \in LinkHost PROVE Cardinality(known_keys[h]) <= 1
    BY <1>1
  <2>1. CASE known_keys[h] = {}
    <3>1. Cardinality(known_keys[h]) = 0
      BY <2>1, FS_EmptySet
    <3> QED BY <3>1
  <2>2. ASSUME NEW x, known_keys[h] = {x} PROVE Cardinality(known_keys[h]) <= 1
    <3>1. Cardinality(known_keys[h]) = 1
      BY <2>2, FS_Singleton
    <3> QED BY <3>1
  <2> QED BY <2>1, <2>2 DEF KnownInv
<1>9. \A f \in Kind[k].fd : registry[f] # 0 => registry[f] = sockets[f].conn
                                             /\ {entries[registry[f]].peer} = known_keys[sockets[f].host]
  <2>1. \A f \in Kind[k].fd : registry[f] # 0 => registry[f] \in LinkConn
    BY DEF LocalType, LinkConn
  <2> QED BY <2>1 DEF PublishInv, PinInv
<1> QED BY <1>3, <1>5, <1>6, <1>7, <1>8, <1>9 DEF Link!ChannelSound, Link!Conn, LinkConn
------------------------------------------------------------------------------
(* The life of a Segment node: which threads exist and what is open at each   *)
(* point of main, what each point of the registration thread knows of the     *)
(* tracker's record, and that samples belong to the present lease.            *)
LifeConstants(k) == Kind[k].local \in Nat
Starting == {"identity", "range", "budget", "open", "check", "advert", "listen", "threads"}
LifeType ==
    /\ boot \in Starting \cup {"ready", "abort", "serve", "join", "close", "ended"}
    /\ uplink \in {"off", "connect", "first", "beat", "send", "loop", "wait", "forward", "answer", "down"}
    /\ draining \in BOOLEAN /\ refresh \in BOOLEAN /\ copy \in BOOLEAN /\ compute \in BOOLEAN
    /\ pressed \in BOOLEAN /\ manual \in BOOLEAN
    /\ carried \in [served : Nat, own : {"none", "asked", "busy", "done", "failed"}]
BootInv ==
    /\ boot \in {"identity", "range", "budget"} => preflight = "none"
    /\ boot \notin {"identity", "range", "budget", "ended"} => preflight = "P"
    /\ preflight = "F" => boot = "ended"
    /\ loaded = (boot \notin {"identity", "range", "budget", "open", "ended"})
    /\ uplink # "off" => boot \in {"ready", "abort", "serve", "join"}
    /\ boot \in Starting => governor = "off" /\ ~manual
    /\ carried.served # 0 => boot \in {"serve", "join", "close"}
    /\ carried.own # "none" => uplink = "forward"
Recorded(d) == IF d THEN "draining" ELSE "open"
AdvertInv ==
    /\ uplink \in {"off", "connect", "first"} => listed = "none"
    /\ uplink = "send" /\ ~refresh => copy = draining
    /\ uplink \in {"loop", "wait", "forward", "answer"} /\ ~refresh => listed = Recorded(draining)
    /\ manual => draining
SampleInv == posted \subseteq sampled /\ (compute => owner \in sampled)
RoomInv(k) == carried.served + (IF carried.own = "busy" THEN 1 ELSE 0) <= Kind[k].local
LifeInv(k) == LifeType /\ BootInv /\ AdvertInv /\ SampleInv /\ RoomInv(k)

\* A process that starts has nothing open and knows nothing.
LEMMA LifeStart == ASSUME NEW k, LifeConstants(k), Life(k)!Init PROVE LifeInv(k)
<1>1. LifeType
  BY DEF Life!Init, LifeType, Starting
<1>2. BootInv /\ AdvertInv
  BY DEF Life!Init, BootInv, AdvertInv, Starting
<1>3. SampleInv /\ RoomInv(k)
  BY DEF Life!Init, LifeConstants, SampleInv, RoomInv
<1> QED BY <1>1, <1>2, <1>3 DEF LifeInv

\* Up to the threads main is alone: it reads, checks and opens, or ends.
LEMMA BootStep ==
    ASSUME NEW k, LifeConstants(k), LifeInv(k),
           Life(k)!Identity \/ Life(k)!Range \/ Life(k)!Budget \/ Life(k)!OpenEngine \/ Life(k)!CheckEngine
           \/ Life(k)!Advert \/ Life(k)!Listen \/ Life(k)!Threads \/ Life(k)!Abort \/ Life(k)!Ready
    PROVE  LifeInv(k)'
<1> USE DEF Life!NoFault, Life!Fault, Life!Given, Life!reg, Life!admission, Life!others
<1>1. /\ UNCHANGED <<refresh, copy, compute, pressed, manual, carried, listed, owner, sampled, posted>>
      /\ uplink' = IF boot = "threads" THEN "connect" ELSE uplink
      /\ draining' = IF boot = "advert" THEN pressed ELSE draining
  BY DEF Life!Identity, Life!Range, Life!auto_range_get, Life!Budget, Life!OpenEngine, Life!CheckEngine, Life!Advert, Life!Listen,
     Life!Threads, Life!Abort, Life!Ready
<1>2. boot \in Starting \cup {"abort", "ready"} /\ boot \in Starting => uplink = "off"
  BY DEF Life!Identity, Life!Range, Life!auto_range_get, Life!Budget, Life!OpenEngine, Life!CheckEngine, Life!Advert, Life!Listen,
     Life!Threads, Life!Abort, Life!Ready, LifeInv, BootInv, Starting
<1>3. boot' \in Starting \cup {"ready", "abort", "serve", "ended"}
  BY DEF Starting, Life!Identity, Life!Range, Life!auto_range_get, Life!Budget, Life!OpenEngine, Life!CheckEngine,
     Life!Advert, Life!Listen, Life!Threads, Life!Abort, Life!Ready
<1>a. LifeType'
  BY <1>1, <1>3 DEF LifeInv, LifeType
<1>4. BootInv'
  <2> USE <1>1, <1>2 DEF LifeInv, BootInv, Starting
  <2>1. CASE Life(k)!Identity \/ Life(k)!Range
    BY <2>1 DEF Life!Identity, Life!Range, Life!auto_range_get
  <2>2. CASE Life(k)!Budget \/ Life(k)!OpenEngine
    BY <2>2 DEF Life!Budget, Life!OpenEngine
  <2>3. CASE Life(k)!CheckEngine \/ Life(k)!Advert \/ Life(k)!Listen
    BY <2>3 DEF Life!CheckEngine, Life!Advert, Life!Listen
  <2>4. CASE Life(k)!Threads
    BY <2>4 DEF Life!Threads
  <2>5. CASE Life(k)!Abort \/ Life(k)!Ready
    BY <2>5 DEF Life!Abort, Life!Ready
  <2> QED BY <2>1, <2>2, <2>3, <2>4, <2>5
<1>5. AdvertInv'
  BY <1>1, <1>2 DEF LifeInv, BootInv, AdvertInv, Starting, Recorded
<1>6. SampleInv' /\ RoomInv(k)'
  BY <1>1 DEF LifeInv, SampleInv, RoomInv
<1> QED BY <1>a, <1>4, <1>5, <1>6 DEF LifeInv

\* A stop ends the loop, the registration thread, the connections and the
\* engine, in this order.
LEMMA StoppingStep ==
    ASSUME NEW k, LifeConstants(k), LifeInv(k), Life(k)!Signal \/ Life(k)!Stopping \/ Life(k)!Expires PROVE LifeInv(k)'
<1> USE DEF Life!reg, Life!admission, Life!others
<1>1. /\ UNCHANGED <<refresh, copy, compute, pressed, manual, carried, listed, owner, sampled, posted, uplink, draining,
                     preflight>>
  BY DEF Life!Signal, Life!Stopping, Life!Expires
<1>2. LifeType'
  BY <1>1 DEF LifeInv, LifeType, Starting, Life!Signal, Life!Stopping, Life!Expires
<1>3. BootInv'
  <2> USE <1>1 DEF LifeInv, BootInv, Starting
  <2>1. CASE Life(k)!Signal \/ Life(k)!Expires
    BY <2>1 DEF Life!Signal, Life!Expires
  <2>2. CASE Life(k)!Stopping
    BY <2>2 DEF Life!Stopping, Life!Quiet
  <2> QED BY <2>1, <2>2
<1>4. AdvertInv' /\ SampleInv' /\ RoomInv(k)'
  BY <1>1 DEF LifeInv, AdvertInv, SampleInv, RoomInv
<1> QED BY <1>2, <1>3, <1>4 DEF LifeInv

\* Whoever changes what is advertised leaves the flag for the thread that
\* sends it.
AdmissionMoved ==
    /\ draining' \in BOOLEAN /\ refresh' \in BOOLEAN /\ pressed' \in BOOLEAN /\ manual' \in BOOLEAN
    /\ manual' => draining'
    /\ boot \in Starting => governor' = "off" /\ ~manual'
    /\ ~refresh' => ~refresh /\ draining' = draining
LEMMA AdmissionMoves ==
    ASSUME NEW k, LifeConstants(k), LifeInv(k),
           Life(k)!Governor \/ Life(k)!Pressure \/ \E d \in BOOLEAN : Life(k)!Command(d)
    PROVE  LifeInv(k)'
<1> USE DEF Life!reg, Life!boot, Life!others
<1>1. UNCHANGED <<copy, compute, carried, listed, owner, sampled, posted, uplink, boot, preflight, loaded>>
  BY DEF Life!Governor, Life!GovernorPolls, Life!GovernorPublishes, Life!Pressure, Life!Command
<1>2. AdmissionMoved
  <2>1. CASE Life(k)!GovernorPolls \/ Life(k)!Pressure
    <3>1. draining' = draining /\ refresh' = refresh /\ manual' = manual /\ pressed' \in {pressed, ~pressed}
      BY <2>1 DEF Life!GovernorPolls, Life!Pressure
    <3>2. boot \in Starting => governor' = "off"
      BY <2>1 DEF Life!GovernorPolls, Life!Pressure, LifeInv, BootInv
    <3> QED BY <3>1, <3>2 DEF AdmissionMoved, LifeInv, LifeType, AdvertInv, BootInv
  <2>2. CASE Life(k)!GovernorPublishes
    <3>1. PICK accepting \in BOOLEAN : Life(k)!Publish(accepting)
      BY <2>2 DEF Life!GovernorPublishes
    <3>2. manual' = manual /\ pressed' = pressed /\ governor # "off"
      BY <2>2 DEF Life!GovernorPublishes
    <3>3. draining' \in BOOLEAN /\ refresh' \in BOOLEAN /\ (manual' => draining') /\ (~refresh' => ~refresh /\ draining' = draining)
      BY <3>1, <3>2, Zenon DEF Life!Publish, LifeInv, LifeType
    <3> QED BY <3>2, <3>3 DEF AdmissionMoved, LifeInv, LifeType, BootInv
  <2>3. ASSUME NEW d \in BOOLEAN, Life(k)!Command(d) PROVE AdmissionMoved
    <3>1. PICK accepting \in BOOLEAN : Life(k)!Publish(accepting)
      BY <2>3 DEF Life!Command
    <3>2. manual' \in BOOLEAN /\ pressed' = pressed /\ governor # "off"
      BY <2>3 DEF Life!Command
    <3>3. draining' \in BOOLEAN /\ refresh' \in BOOLEAN /\ (manual' => draining') /\ (~refresh' => ~refresh /\ draining' = draining)
      BY <3>1, <3>2, Zenon DEF Life!Publish, LifeInv, LifeType
    <3> QED BY <3>2, <3>3 DEF AdmissionMoved, LifeInv, LifeType, BootInv
  <2> QED BY <2>1, <2>2, <2>3 DEF Life!Governor
<1>3. LifeType' /\ BootInv'
  BY <1>1, <1>2 DEF LifeInv, LifeType, BootInv, AdmissionMoved
<1>4. AdvertInv'
  BY <1>1, <1>2 DEF LifeInv, AdvertInv, AdmissionMoved
<1>5. SampleInv' /\ RoomInv(k)'
  BY <1>1 DEF LifeInv, SampleInv, RoomInv
<1> QED BY <1>3, <1>4, <1>5 DEF LifeInv

\* The registration thread reads the flag before the advert it sends.
LEMMA WorkerStep == ASSUME NEW k, LifeConstants(k), LifeInv(k), Life(k)!Worker PROVE LifeInv(k)'
<1> USE DEF Life!boot, Life!admission, Life!Kept, Life!Go, Life!NoFault, Life!Fault
<1>1. UNCHANGED <<boot, preflight, loaded, draining, pressed, manual, governor, sampled, carried.served>>
  BY DEF Life!Worker, Life!Dial, Life!Down, Life!CopyAdvert, Life!SendAdvert, Life!Turn, Life!Receive, Life!tracker_compute_send, Life!Forward, Life!Answer,
     LifeInv, LifeType
<1>2. uplink # "off" /\ uplink' \in {"off", "connect", "first", "beat", "send", "loop", "wait", "forward", "answer", "down"}
  BY DEF Life!Worker, Life!Dial, Life!Down, Life!CopyAdvert, Life!SendAdvert, Life!Turn, Life!Receive, Life!tracker_compute_send, Life!Forward, Life!Answer
<1>3. copy' \in BOOLEAN /\ refresh' \in BOOLEAN /\ (refresh' # refresh => uplink = "loop")
  BY DEF Life!Worker, Life!Dial, Life!Down, Life!CopyAdvert, Life!SendAdvert, Life!Turn, Life!Receive, Life!tracker_compute_send, Life!Forward, Life!Answer,
     LifeInv, LifeType
<1>4. /\ carried' \in [served : Nat, own : {"none", "asked", "busy", "done", "failed"}]
      /\ carried'.own # "none" => uplink' = "forward"
      /\ carried'.own = "busy" => carried.own = "busy"
  BY DEF Life!Worker, Life!Dial, Life!Down, Life!CopyAdvert, Life!SendAdvert, Life!Turn, Life!Receive, Life!tracker_compute_send, Life!Forward, Life!Answer,
     LifeInv, LifeType, BootInv
<1>5. compute' \in BOOLEAN /\ SampleInv'
  <2>1. CASE Life(k)!Receive
    <3>1. CASE UNCHANGED <<owner, compute, posted>>
      BY <3>1, <1>1 DEF LifeInv, LifeType, SampleInv
    <3>2. CASE \E l : owner' = l /\ compute' = Life(k)!Renewed(l) /\ posted' = IF compute' THEN posted \cup {l} ELSE posted
      <4>1. PICK l : owner' = l /\ compute' = Life(k)!Renewed(l) /\ posted' = IF compute' THEN posted \cup {l} ELSE posted
        BY <3>2
      <4>2. compute' \in BOOLEAN /\ (compute' => l = owner /\ compute)
        BY <4>1, Zenon DEF Life!Renewed, LifeInv, LifeType
      <4> QED BY <1>1, <4>1, <4>2 DEF LifeInv, SampleInv
    <3> QED BY <2>1, <3>1, <3>2, Zenon DEF Life!Receive, Life!tracker_compute_send
  <2>2. CASE ~Life(k)!Receive
    <3>1. UNCHANGED <<owner, compute, posted>>
      BY <2>2 DEF Life!Worker, Life!Dial, Life!Down, Life!CopyAdvert, Life!SendAdvert, Life!Turn, Life!Forward, Life!Answer
    <3> QED BY <1>1, <3>1 DEF LifeInv, LifeType, SampleInv
  <2> QED BY <2>1, <2>2
<1>6. LifeType' /\ BootInv' /\ RoomInv(k)'
  <2>1. LifeType'
    BY <1>1, <1>2, <1>3, <1>4, <1>5 DEF LifeInv, LifeType
  <2>2. BootInv'
    BY <1>1, <1>2, <1>4 DEF LifeInv, BootInv
  <2>3. RoomInv(k)'
    BY <1>1, <1>4 DEF LifeInv, RoomInv, LifeType, LifeConstants
  <2> QED BY <2>1, <2>2, <2>3
<1>7. AdvertInv'
  <2> USE <1>1 DEF LifeInv, LifeType, AdvertInv, Recorded
  <2>1. CASE Life(k)!Dial \/ Life(k)!Down \/ Life(k)!CopyAdvert
    BY <2>1 DEF Life!Dial, Life!Down, Life!CopyAdvert
  <2>2. CASE Life(k)!SendAdvert
    BY <2>2 DEF Life!SendAdvert
  <2>3. CASE Life(k)!Turn
    BY <2>3 DEF Life!Turn
  <2>4. CASE Life(k)!Receive
    BY <2>4 DEF Life!Receive, Life!tracker_compute_send
  <2>5. CASE Life(k)!Forward \/ Life(k)!Answer
    BY <2>5 DEF Life!Forward, Life!Answer
  <2> QED BY <2>1, <2>2, <2>3, <2>4, <2>5 DEF Life!Worker
<1> QED BY <1>5, <1>6, <1>7 DEF LifeInv

\* A connection is taken while there is room, and a sample is of the lease.
LEMMA ConnectionStep ==
    ASSUME NEW k, LifeConstants(k), LifeInv(k), Life(k)!Accept \/ Life(k)!WorkerEnds \/ Life(k)!Relays PROVE LifeInv(k)'
<1> USE DEF Life!boot, Life!admission, Life!reg
<1>1. UNCHANGED <<boot, preflight, loaded, uplink, draining, refresh, copy, pressed, manual, governor, listed, owner, posted>>
  BY DEF Life!Accept, Life!WorkerEnds, Life!Relays
<1>2. /\ carried' \in [served : Nat, own : {"none", "asked", "busy", "done", "failed"}]
      /\ carried'.served # 0 => carried.served # 0 \/ boot = "serve"
      /\ carried'.own # "none" => carried.own # "none"
      /\ RoomInv(k)'
  <2> USE DEF LifeInv, LifeType, RoomInv, LifeConstants
  <2>1. CASE Life(k)!Accept
    BY <2>1 DEF Life!Accept, Life!HasRoom
  <2>2. CASE Life(k)!WorkerEnds
    BY <2>2 DEF Life!WorkerEnds
  <2>3. CASE Life(k)!Relays
    BY <2>3 DEF Life!Relays
  <2> QED BY <2>1, <2>2, <2>3
<1>3. compute' \in BOOLEAN /\ SampleInv'
  <2>1. CASE Life(k)!WorkerEnds
    <3>1. compute' \in {compute, owner # 0} /\ sampled' = IF compute' THEN sampled \cup {owner} ELSE sampled
      BY <2>1 DEF Life!WorkerEnds
    <3>2. compute' \in BOOLEAN
      BY <3>1, Zenon DEF LifeInv, LifeType
    <3> QED BY <1>1, <3>1, <3>2 DEF LifeInv, SampleInv
  <2>2. CASE Life(k)!Accept \/ Life(k)!Relays
    BY <1>1, <2>2 DEF Life!Accept, Life!Relays, LifeInv, LifeType, SampleInv
  <2> QED BY <2>1, <2>2
<1>4. LifeType' /\ BootInv' /\ AdvertInv'
  <2>1. LifeType'
    BY <1>1, <1>2, <1>3 DEF LifeInv, LifeType
  <2>2. BootInv'
    BY <1>1, <1>2 DEF LifeInv, BootInv
  <2>3. AdvertInv'
    BY <1>1 DEF LifeInv, AdvertInv
  <2> QED BY <2>1, <2>2, <2>3
<1> QED BY <1>2, <1>3, <1>4 DEF LifeInv

\* Every step of main, the threads, the clients and the tracker.
LEMMA LifeStep == ASSUME NEW k, LifeConstants(k), LifeInv(k), [Life(k)!Next]_(Life(k)!vars) PROVE LifeInv(k)'
<1>1. CASE UNCHANGED Life(k)!vars
  BY <1>1 DEF Life!vars, LifeInv, LifeType, BootInv, AdvertInv, SampleInv, RoomInv
<1>2. CASE Life(k)!Next
  BY <1>2, BootStep, StoppingStep, AdmissionMoves, WorkerStep, ConnectionStep DEF Life!Next, Life!Main
<1> QED BY <1>1, <1>2

\* What the invariant says is what is promised.
LEMMA LifePromise == ASSUME NEW k, LifeConstants(k), LifeInv(k) PROVE Life(k)!LifeSound
<1>1. /\ listed # "none" => loaded /\ preflight = "P"
      /\ preflight = "F" => boot = "ended" /\ ~loaded
      /\ boot = "ended" => uplink = "off" /\ ~loaded
  BY DEF LifeInv, BootInv, AdvertInv
<1>2. ~loaded => carried = [served |-> 0, own |-> "none"]
  BY DEF LifeInv, LifeType, BootInv
<1>3. /\ uplink = "wait" /\ ~refresh => listed = (IF draining THEN "draining" ELSE "open")
      /\ manual => draining
      /\ posted \subseteq sampled
  BY DEF LifeInv, AdvertInv, SampleInv, Recorded
<1>4. carried.served + (IF carried.own = "busy" THEN 1 ELSE 0) <= Kind[k].local
  BY DEF LifeInv, RoomInv
<1> QED BY <1>1, <1>2, <1>3, <1>4 DEF Life!LifeSound
------------------------------------------------------------------------------
\* What the names of the parts stand for is what their modules expect.
HomeConstants ==
    /\ "host" \notin Keepers \cup Preparations \cup Links \cup Lives
    /\ Keepers \cap Preparations = {} /\ (Keepers \cup Preparations) \cap (Links \cup Lives) = {}
    /\ Links \cap Lives = {}
    /\ \A k \in Keepers : DonorConstants(k)
    /\ \A k \in Preparations : PlanConstants(k)
    /\ \A k \in Links : LinkConstants(k)
    /\ \A k \in Lives : LifeConstants(k)
\* The parts of the household, each in the state its own argument describes.
HouseInv == /\ part = "host" => HostInv
            /\ \A k \in Keepers : part = k => DonorInv(k)
            /\ \A k \in Preparations : part = k => PlanInv(k)
            /\ \A k \in Links : part = k => LinkInv(k)
            /\ \A k \in Lives : part = k => LifeInv(k)

\* Each part starts in such a state.
LEMMA HouseStart ==
    ASSUME HostConstants, HomeConstants, HouseInit PROVE HouseInv
<1>1. CASE part = "host" /\ Pool!Init
  BY <1>1, HostStart DEF HouseInv, HomeConstants
<1>2. ASSUME NEW k \in Keepers, part = k, Donor(k)!Init PROVE HouseInv
  <2>1. DonorInv(k)
    BY <1>2, DonorStart DEF HomeConstants
  <2> QED BY <1>2, <2>1 DEF HouseInv, HomeConstants
<1>3. ASSUME NEW k \in Preparations, part = k, Plan(k)!Init PROVE HouseInv
  <2>1. PlanInv(k)
    BY <1>3, PlanStart DEF HomeConstants
  <2> QED BY <1>3, <2>1 DEF HouseInv, HomeConstants
<1>4. ASSUME NEW k \in Links, part = k, Link(k)!Init PROVE HouseInv
  <2>1. LinkInv(k)
    BY <1>4, LinkStart DEF HomeConstants
  <2> QED BY <1>4, <2>1 DEF HouseInv, HomeConstants
<1>5. ASSUME NEW k \in Lives, part = k, Life(k)!Init PROVE HouseInv
  <2>1. LifeInv(k)
    BY <1>5, LifeStart DEF HomeConstants
  <2> QED BY <1>5, <2>1 DEF HouseInv, HomeConstants
<1> QED BY <1>1, <1>2, <1>3, <1>4, <1>5 DEF HouseInit

\* A part moves by its own steps and leaves the others their registers.
LEMMA HouseStep ==
    ASSUME HostConstants, HomeConstants, HouseInv, [HouseNext]_<<part, registers>> PROVE HouseInv'
<1>0. part' = part
  BY DEF HouseNext
<1>1. ASSUME part = "host" PROVE HouseInv'
  <2>1. [Pool!Next]_Pool!vars
    <3>1. CASE UNCHANGED registers
      BY <3>1 DEF registers, Pool!vars, Pool!pool, Pool!control, Pool!engine, Pool!clients, at, conn,
         reset_needed, admitted, requests, workers, mode, revision, stop, sealed, main, cur, turns, cmd,
         frames, dead, running, kv, stuck, next, asked, gone, faults, heard
    <3>2. CASE HouseNext
      BY <1>1, <3>2 DEF HouseNext, HomeConstants
    <3> QED BY <3>1, <3>2
  <2>2. HostInv'
    BY <1>1, <2>1, HostStep DEF HouseInv
  <2> QED BY <1>0, <1>1, <2>2 DEF HouseInv, HomeConstants
<1>2. ASSUME NEW k \in Keepers, part = k PROVE HouseInv'
  <2>1. [Donor(k)!Next]_(Donor(k)!vars)
    <3>1. CASE UNCHANGED registers
      BY <3>1 DEF registers, Donor!vars, Donor!disk, Donor!told, Donor!env, slot, keeper, pool, linger, born,
         torn, receipts, node_sealed, acked, proved, policy, other, crashes
    <3>2. CASE HouseNext
      BY <1>2, <3>2 DEF HouseNext, HomeConstants
    <3> QED BY <3>1, <3>2
  <2>2. DonorInv(k)'
    BY <1>2, <2>1, DonorStep DEF HouseInv, HomeConstants
  <2> QED BY <1>0, <1>2, <2>2 DEF HouseInv, HomeConstants
<1>3. ASSUME NEW k \in Preparations, part = k PROVE HouseInv'
  <2>1. [Plan(k)!Next]_(Plan(k)!vars)
    <3>1. CASE UNCHANGED registers
      BY <3>1 DEF registers, Plan!vars, Plan!keeper, Plan!session, Plan!donor, Plan!disk, step, offered, committed,
         coordinator, host_started, prepared, reported, failed, monitor, outgoing, incoming, phase, held, retained,
         open, history, plan, library, observed, job, window, plan_faults
    <3>2. CASE HouseNext
      BY <1>3, <3>2 DEF HouseNext, HomeConstants
    <3> QED BY <3>1, <3>2
  <2>2. PlanInv(k)'
    BY <1>3, <2>1, PlanStep DEF HouseInv, HomeConstants
  <2> QED BY <1>0, <1>3, <2>2 DEF HouseInv, HomeConstants
<1>4. ASSUME NEW k \in Links, part = k PROVE HouseInv'
  <2>1. [Link(k)!Next]_(Link(k)!vars)
    <3>1. CASE UNCHANGED registers
      BY <3>1 DEF registers, Link!vars, sockets, registry, entries, senders, known_keys, streams, hung_up, handlers,
         places, buffered, dialled, sends, link_faults, sealed_frames, taken_frames, mixed
    <3>2. CASE HouseNext
      BY <1>4, <3>2 DEF HouseNext, HomeConstants
    <3> QED BY <3>1, <3>2
  <2>2. LinkInv(k)'
    BY <1>4, <2>1, LinkStep DEF HouseInv, HomeConstants
  <2> QED BY <1>0, <1>4, <2>2 DEF HouseInv, HomeConstants
<1>5. ASSUME NEW k \in Lives, part = k PROVE HouseInv'
  <2>1. [Life(k)!Next]_(Life(k)!vars)
    <3>1. CASE UNCHANGED registers
      BY <3>1 DEF registers, Life!vars, boot, stopping, rstop, listen, range, preflight, loaded, uplink, draining,
         refresh, copy, vouched, owner, compute, governor, pressed, manual, carried, listed, inbox, leased, sampled,
         posted, toggles, forwards, life_faults
    <3>2. CASE HouseNext
      BY <1>5, <3>2 DEF HouseNext, HomeConstants
    <3> QED BY <3>1, <3>2
  <2>2. LifeInv(k)'
    BY <1>5, <2>1, LifeStep DEF HouseInv, HomeConstants
  <2> QED BY <1>0, <1>5, <2>2 DEF HouseInv, HomeConstants
<1>6. CASE part # "host" /\ part \notin Keepers /\ part \notin Preparations /\ part \notin Links /\ part \notin Lives
  BY <1>0, <1>6 DEF HouseInv
<1> QED BY <1>1, <1>2, <1>3, <1>4, <1>5, <1>6

\* A client of the host reads the frames of its own turns and the answers to
\* its own resets, an engine writes no state of one into another's
\* conversation, and the pipe is clean between two turns (host_sessions_worker,
\* host_bridge_turn, host_reset_conversation).
THEOREM HostCorrect ==
    ASSUME HostConstants, HomeConstants
    PROVE  HouseSpec => []HostSound
<1>1. HouseInit => HouseInv
  BY HouseStart
<1>2. HouseInv /\ [HouseNext]_<<part, registers>> => HouseInv'
  BY HouseStep
<1>3. HouseInv => HostSound
  BY HostPromise DEF HouseInv, HostSound
<1> QED BY <1>1, <1>2, <1>3, PTL DEF HouseSpec

\* Whatever crashes, lingers or is retried, a donor promises no memory twice
\* and reports no exit that is not true (home_donor_room, home_donor_release,
\* lmb_lifetime_prove); and whatever is lost or cancelled, nothing of a plan
\* loads too early and what is recorded as ready has been ready everywhere
\* (home_request_chat_direct, home_session_close).
THEOREM HomeCorrect ==
    ASSUME HostConstants, HomeConstants
    PROVE  HouseSpec => []HomeSound
<1>1. HouseInit => HouseInv
  BY HouseStart
<1>2. HouseInv /\ [HouseNext]_<<part, registers>> => HouseInv'
  BY HouseStep
<1>3. HouseInv => HomeSound
  <2> SUFFICES ASSUME HouseInv PROVE HomeSound
    OBVIOUS
  <2>1. ASSUME NEW k \in Keepers, part = k PROVE Donor(k)!NeverOvercommitted /\ Donor(k)!ExitIsTrue
    BY <2>1, DonorPromise DEF HouseInv, HomeConstants
  <2>2. ASSUME NEW k \in Preparations, part = k PROVE Plan(k)!PlanSound
    BY <2>2, PlanPromise DEF HouseInv, HomeConstants
  <2> QED BY <2>1, <2>2 DEF HomeSound
<1> QED BY <1>1, <1>2, <1>3, PTL DEF HouseSpec

\* Whoever closes, reuses or fails on a descriptor, a handler accepts what was
\* sealed for its connection, in that order and nothing else, and a session is
\* freed when its last user leaves (lmb_sec_send_hook, lmb_sec_recv_hook,
\* lmb_sec_release); and a node is listed only while its engine is open and
\* checked, under the admission its record last asked for (publish_admission,
\* registration_worker, governor_worker).
THEOREM ConnectionsCorrect ==
    ASSUME HostConstants, HomeConstants
    PROVE  HouseSpec => []ConnectionsSound
<1>1. HouseInit => HouseInv
  BY HouseStart
<1>2. HouseInv /\ [HouseNext]_<<part, registers>> => HouseInv'
  BY HouseStep
<1>3. HouseInv => ConnectionsSound
  <2> SUFFICES ASSUME HouseInv PROVE ConnectionsSound
    OBVIOUS
  <2>1. ASSUME NEW k \in Links, part = k PROVE Link(k)!ChannelSound
    BY <2>1, LinkPromise DEF HouseInv, HomeConstants
  <2>2. ASSUME NEW k \in Lives, part = k PROVE Life(k)!LifeSound
    BY <2>2, LifePromise DEF HouseInv, HomeConstants
  <2> QED BY <2>1, <2>2 DEF ConnectionsSound
<1> QED BY <1>1, <1>2, <1>3, PTL DEF HouseSpec
==============================================================================
