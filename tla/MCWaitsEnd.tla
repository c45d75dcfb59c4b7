---------------------------- MODULE MCWaitsEnd ----------------------------
(* What must come to an end on a node and in its retirement: the waits of     *)
(* callers at the run gate of this module's base, retirements of two machines *)
(* whose keepers may crash, and of one machine that another operator may      *)
(* resume meanwhile. part names what a behaviour is about.                    *)
EXTENDS RunGate
VARIABLES part, rev, draining, work, proc, keeper, kept, receipt, journal, rec, pc, at
retirement == <<rev, draining, work, proc, keeper, kept, receipt, journal, rec, pc, at>>
Two == INSTANCE Retirement WITH
    Count <- 2, Edge <- 1, Crashable <- {1, 2}, AdminActions <- {}, RevMax <- 4
One == INSTANCE Retirement WITH
    Count <- 1, Edge <- 1, Crashable <- {1}, AdminActions <- {"RESUME"}, RevMax <- 4

MCInit == /\ Init
          /\ \/ part \in {"gate", "two"} /\ Two!Init
             \/ part = "one" /\ One!Init
MCNext == /\ part' = part
          /\ \/ part = "gate" /\ Next /\ UNCHANGED retirement
             \/ /\ UNCHANGED vars
                /\ \/ part = "two" /\ Two!Next
                   \/ part = "one" /\ One!Next
(* A step of the retirement that takes place.                                 *)
Either(two, one) == \/ part = "two" /\ two
                    \/ part = "one" /\ one
(* The fairness of the gate's threads, and of what a retirement waits for:    *)
(* see FairSpec of RunGate and of Retirement.                                 *)
MCSpec ==
    /\ MCInit /\ [][MCNext]_<<part, vars, retirement>>
    /\ \A t \in Threads : WF_vars(part = "gate" /\ Wake(t)) /\ WF_vars(part = "gate" /\ Leave(t))
    /\ WF_retirement(Either(Two!Operator, One!Operator))
    /\ SF_retirement(Either(Two!Answered, One!Answered))
    /\ SF_retirement(Either(Two!NoAnswer, One!NoAnswer))
    /\ SF_retirement(Either(Two!ExitProved, One!ExitProved))
    /\ SF_retirement(Either(Two!Store, One!Store))
    /\ SF_retirement(Either(\E i \in 1 .. 2 : Two!RetireEnds(i), One!RetireEnds(1)))
    /\ WF_retirement(Either(\E i \in 1 .. 2 : Two!Settles(i), One!Settles(1)))
    /\ WF_retirement(Either(Two!WorkEnds(0), One!WorkEnds(0)))
    /\ WF_retirement(Either(\E i \in 1 .. 2 : Two!WorkEnds(i), One!WorkEnds(1)))

(* A retirement is finished by rerunning it, unless another operator resumed  *)
(* a member: see RetirementCompletes in Retirement.                           *)
RetirementEnds == <>[](/\ part = "two" => Two!Completed
                       /\ part = "one" => One!Completed)
=============================================================================
