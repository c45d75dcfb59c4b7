--------------------------- MODULE MCExpertCalls ---------------------------
(* An expert call from end to end, component by component, each with the      *)
(* fairness of its own threads, next to the control of a node.                *)
EXTENDS ExpertCalls, TLC
CONSTANTS p1, p2, c1, c2, rr, rs, re, rt
ASSUME ExpertCallsConstants == CallConstants
shown == <<part, vars, registers>>

(* Two calls that compete for a peer's mailbox, or for its EXEC slot.         *)
Relaying(reader, segment, exec, target) == [reader |-> reader, seg |-> segment, exec |-> exec, target |-> target]
(* Two replicas, one of which lies; two rounds.                               *)
Layer(owners, count, here, exec2, covered, rule, batch) ==
    [owners |-> owners, experts |-> count, here |-> here, exec2 |-> exec2, covered |-> covered,
     policy |-> rule, batch |-> batch]
MCKind == "boxes" :> Relaying({rr}, {rs}, {}, {}) @@ "slots" :> Relaying({}, {}, {re}, {rt})
          @@ "round" :> Layer(<<{p1, p2}, {p1, p2}>>, 2, 0, {}, {1}, "chat", TRUE)
          @@ "home" :> Layer(<<{p1}, {p2}, {p1}>>, 3, 1, {}, {}, "home", FALSE)
          @@ "fed" :> Layer(<<{p1, p2}>>, 1, 0, {p2}, {}, "fed", TRUE)
MCWanted == rs :> p1 @@ rt :> p1
(* Two sources compete for one cache slot and one kernel.                     *)
MCSource == <<"a", "a", "r">>
MCExpert == <<"x", "x", "y">>

(* The registers that a component with 14 of them leaves alone.               *)
others == <<r15, r16, r17, r18, r19, r20>>
Empty == r15 = 0 /\ r16 = 0 /\ r17 = 0 /\ r18 = 0 /\ r19 = 0 /\ r20 = 0
Unused == /\ r1 = 0 /\ r2 = 0 /\ r3 = 0 /\ r4 = 0 /\ r5 = 0 /\ r6 = 0 /\ r7 = 0
          /\ r8 = 0 /\ r9 = 0 /\ r10 = 0 /\ r11 = 0 /\ r12 = 0 /\ r13 = 0 /\ r14 = 0
          /\ Empty
MCInit ==
    /\ Init
    /\ \/ part = "control" /\ Unused
       \/ PartsInit /\ (IF part \in Rounds THEN TRUE ELSE Empty)
MCNext ==
    /\ part' = part
    /\ \/ part = "control" /\ Next /\ UNCHANGED registers
       \/ /\ part # "control" /\ UNCHANGED vars
          /\ PartsNext /\ (IF part \in Rounds THEN TRUE ELSE UNCHANGED others)
(* The fairness of each component, as its module states and justifies it.     *)
MCSpec ==
    /\ MCInit /\ [][MCNext]_shown
    /\ \A r \in {rr, rs} : WF_(Relay("boxes")!vars)(part = "boxes" /\ Relay("boxes")!Step(r))
    /\ \A r \in {re, rt} : WF_(Relay("slots")!vars)(part = "slots" /\ Relay("slots")!Step(r))
    /\ \A c \in 1 .. 3 : WF_(Kernels!vars)(part = "node" /\ Kernels!Step(c))
    /\ WF_(Round("round")!vars)(part = "round" /\ Round("round")!Step)
    /\ WF_(Round("home")!vars)(part = "home" /\ Round("home")!Step)
    /\ WF_(Round("fed")!vars)(part = "fed" /\ Round("fed")!Step)
-----------------------------------------------------------------------------
(* What must end in each component, the first, second or third of its kind.   *)
Ends(n) ==
    /\ part = "boxes" => Relay("boxes")!Done(<<rr, rs, rs>>[n])
    /\ part = "slots" => Relay("slots")!Done(<<re, rt, rt>>[n])
    /\ part = "node" => Kernels!Answered(n)
    /\ part = "round" => Round("round")!Over
    /\ part = "home" => Round("home")!Over
    /\ part = "fed" => Round("fed")!Over
(* A relayed request, an EXEC on a node and a layer round end, whoever        *)
(* competes, never answers, or comes back: see RelayEnds of TrackerRelay,     *)
(* ExecsEnd of ExpertNode and RoundsEnd of ExpertClient.                      *)
EveryCallEnds == \A n \in 1 .. 3 : []<>Ends(n)
=============================================================================
