------------------------------ MODULE MCSwarm --------------------------------
(* The swarm of Swarm on small sets. Its parts share no state in the program: *)
(* one run explores them side by side, part naming the one that moves, the    *)
(* others standing still where they start.                                    *)
EXTENDS Swarm, TLC
VARIABLE part
tracker == <<claims, peers, experts, donors, inventory>>
files == <<mirror, origin, resident>>
swarmed == <<part, tracker, files>>

OnlyPath == [s \in Subject \ IsModel |-> CHOOSE x \in Path : TRUE]
Keyrings == [Signer -> {-1, 0}]
OneModel == [a \in Advert |-> CHOOSE m \in Model : TRUE]
(* One compute name connects from an address of its own.                      *)
Elsewhere == CHOOSE n \in Compute : TRUE
TwoSources == [n \in Storage \cup Compute |-> IF n = Elsewhere THEN 2 ELSE 1]
(* Two layers of one routed expert each; the ranks are the nodes' numbers.    *)
OwnLayer == [k \in Cell |-> k]
ByNumber == [k \in Cell |-> [n \in Executor |-> n]]
RoomForTwo == [n \in Executor |-> 2]
Itself == [t \in Thread |-> t]
(* The constants are among those the theorems of Swarm speak of.              *)
ASSUME SwarmConstants ==
    /\ C!ClaimsConstants /\ P!PeersConstants /\ A!AssignConstants /\ M!MirrorConstants
    /\ O!MaintainerConstants

(* Peers that serve one checkpoint only, for a donor that requires no hash.   *)
L == INSTANCE WeightMirror WITH Root <- {"r"}
(* An origin without the operator's key, and a donor.                         *)
U == INSTANCE Maintainer WITH Donor <- FALSE, HaveKey <- FALSE, Trust <- FALSE,
    file <- kept, data <- read, reply <- sent
B == INSTANCE Maintainer WITH Donor <- TRUE, HaveKey <- FALSE, Trust <- TRUE,
    file <- kept, data <- read, reply <- sent

InitOf(moving) ==
    /\ part \in moving
    /\ C!Init /\ P!Init /\ A!Init /\ W!Init
    /\ part # "experts" => \A n \in Executor : held[n] = None
    /\ require = (part # "loose")
    /\ M!Init /\ truth = "r"
    /\ IF part = "donor" THEN B!Init ELSE O!Init
    /\ part \notin {"origin", "keyless", "donor"} => swarm = None
Init == InitOf({"claims", "peers", "slots", "experts", "donors", "machines",
                "mirror", "loose", "origin", "keyless", "donor", "resident"})
(* Every kind of owner in turn on one slot, two route shapes and two boots;   *)
(* one route shape and one boot on two slots, for the names of one address.   *)
OneSlot == \A s \in Slot : s # (CHOOSE t \in Slot : TRUE) => slot'[s] = None
OneShape ==
    /\ boot' = 1
    /\ \A s \in Slot : slot'[s] # None =>
          /\ slot'[s].name # Elsewhere
          /\ slot'[s].seg # None => slot'[s].seg.advert = CHOOSE a \in Advert : TRUE
(* The tracker rolls from "r" to "s" under any process, at any moment, and    *)
(* back once nobody has seen "s".                                             *)
OneRoll ==
    truth' = "r" => "s" \notin {ident, side} \cup {want[p] : p \in Proc} \cup {hash[p] : p \in Proc}
Next ==
    /\ part' = part
    /\ \/ /\ UNCHANGED files
          /\ \/ part = "claims" /\ C!Next /\ UNCHANGED <<peers, experts, donors, inventory>>
             \/ part = "peers" /\ P!Next /\ OneSlot
                /\ UNCHANGED <<claims, experts, donors, inventory>>
             \/ part = "slots" /\ P!Next /\ OneShape
                /\ UNCHANGED <<claims, experts, donors, inventory>>
             \/ part = "experts" /\ A!ExpertsNext /\ UNCHANGED <<claims, peers, donors, inventory>>
             \/ part = "donors" /\ A!DonorsNext /\ UNCHANGED <<claims, peers, experts, inventory>>
             \/ part = "machines" /\ A!InventoryNext /\ UNCHANGED <<claims, peers, experts, donors>>
       \/ /\ UNCHANGED tracker
          /\ \/ part = "mirror" /\ M!Next /\ OneRoll /\ UNCHANGED <<origin, resident>>
             \/ part = "loose" /\ L!Next /\ UNCHANGED <<origin, resident>>
             \/ part = "origin" /\ O!Next /\ UNCHANGED <<mirror, resident>>
             \/ part = "keyless" /\ U!Next /\ UNCHANGED <<mirror, resident>>
             \/ part = "donor" /\ B!Next /\ UNCHANGED <<mirror, resident>>
             \/ part = "resident" /\ W!Next /\ UNCHANGED <<mirror, origin>>
Spec == Init /\ [][Next]_swarmed
SlotsSpec == InitOf({"peers"}) /\ [][Next]_swarmed
Symmetry == Permutations(Conn)

(* What the comment of peer_slot_new promises: see TrackerPeers.              *)
ControlIsOpen == P!ControlIsOpen
=============================================================================
