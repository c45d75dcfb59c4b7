------------------------------ MODULE HomeDonor ------------------------------
(* The keeper of a donor's allocations (lumabri_home_runtime.h, with the      *)
(* transaction of lumabri_home.h): the one on view, slot 0, and the parked    *)
(* ones. Requesters offer, commit, detach, cancel, retire, or vanish; the     *)
(* owner decides by hand or by policy; engines start, fail and are stopped,   *)
(* and a descendant of theirs may outlive the kill; the keeper itself may     *)
(* crash. What survives it is on disk: births, receipts and the locks that    *)
(* living processes hold on the births.                                       *)
EXTENDS Integers, FiniteSets
CONSTANTS Alloc, Ram, Edge, Hybrid, Scoped,   \* allocations: size, runs the Edge, needs the machine alone, in the policy's scope
          Total, Park, MaxRev, MaxCrashes
VARIABLES slot,      \* HomeDonor: the allocations of this keeper
          up, pool,  \* the keeper runs; pool_budget
          linger,    \* allocations with a living process that no pid of a slot stands for
          born, torn, receipts,      \* on disk: births (and those cut short), retirements
          sealed,    \* nodes whose control says RETIRED
          acked, proved,             \* what requesters were told: released, exited
          policy, other, crashes
disk == <<born, torn, receipts>>
told == <<acked, proved>>
env == <<policy, other, crashes>>
vars == <<slot, up, pool, linger, disk, sealed, told, env>>

NoAlloc == "none"
Slot == 0 .. Park
Parked == 1 .. Park
Empty == [id |-> NoAlloc, phase |-> "idle", held |-> FALSE, retained |-> FALSE, client |-> "no",
          segment |-> "none", host |-> "none", started |-> FALSE, fence |-> FALSE, pending |-> FALSE,
          why |-> "closed", receipt |-> FALSE, auth |-> 0, routed |-> FALSE]
Init == /\ slot = [s \in Slot |-> Empty] /\ up = TRUE /\ pool = Total /\ linger = {}
        /\ born = {} /\ torn = {} /\ receipts = [i \in Alloc |-> "none"] /\ sealed = {}
        /\ acked = {} /\ proved = {} /\ policy = 0 /\ other = FALSE /\ crashes = 0
Terminal == {"idle", "rejected", "failed", "closed"}
Running(p) == p \in {"load", "up"}
Held == {s \in Slot : slot[s].held}
(* Memory in units: of the allocations i \in S, and of the slots s \in S.     *)
Weight(S) == Cardinality(UNION {{i} \X (1 .. Ram[i]) : i \in S})
Claimed(S) == Cardinality(UNION {{s} \X (1 .. Ram[slot[s].id]) : s \in S})
(* home_donor_reserved, home_donor_room: what the pool has left, and what the *)
(* system shows as free less what loads may still claim.                      *)
Reserved == Claimed(Held)
Loading == Claimed({s \in Held : ~slot[s].retained})
InUse == Weight(linger \cup {slot[s].id : s \in {t \in Slot : slot[t].segment = "up"}})
Room == LET own == pool - Reserved  free == Total - InUse - Loading IN IF own < free THEN own ELSE free
-----------------------------------------------------------------------------
(* Mutant: exit is taken for granted once the child is reaped.                *)
BugProven(i) == TRUE
(* lmb_lifetime_prove: nobody holds the birth any more.                       *)
Proven(i) == i \notin linger'
(* Mutant: the keeper's own descriptor of the birth is left open.             *)
BugFenceLeft(s) == slot[s].fence
FenceLeft(s) == FALSE
(* home_donor_release: the children are stopped; memory, lease and cache lock *)
(* stay with the slot until the exit of everything it started is proved. A    *)
(* descendant may be alive still when the child is reaped.                    *)
Stopped(s) ==
    LET alive == Running(slot[s].segment) \/ Running(slot[s].host) \/ slot[s].id \in linger IN
    \E lingers \in (IF alive THEN BOOLEAN ELSE {FALSE}) :
        linger' = IF lingers THEN linger \cup {slot[s].id} ELSE linger \ {slot[s].id}
Freed(s, why) ==
    LET w == IF slot[s].pending THEN slot[s].why ELSE why
        r == [slot[s] EXCEPT !.why = w, !.auth = 0, !.routed = FALSE, !.retained = FALSE,
                             !.segment = "none", !.host = "none", !.fence = FenceLeft(s)]
    IN IF r.started /\ (r.fence \/ ~Proven(r.id)) THEN [r EXCEPT !.pending = TRUE, !.phase = "failed"]
       ELSE [r EXCEPT !.started = FALSE, !.fence = FALSE, !.pending = FALSE, !.held = FALSE, !.phase = w,
                        !.why = "closed"]
Release(s, why) == Stopped(s) /\ slot' = [slot EXCEPT ![s] = Freed(s, why)]
(* home_donor_disconnect.                                                     *)
Disconnect(s, why) == Stopped(s) /\ slot' = [slot EXCEPT ![s] = [Freed(s, why) EXCEPT !.client = "no"]]
(* home_donor_can_retain, home_donor_lost_requester: only what is prepared    *)
(* outlives its requester.                                                    *)
CanRetain(r) == /\ r.segment # "none" /\ r.held
                /\ r.phase = "ready" \/ (~Edge[r.id] /\ r.phase = "segment")
Retained(s) == slot' = [slot EXCEPT ![s].retained = TRUE, ![s].client = "no"] /\ UNCHANGED linger
Lost(s) == IF CanRetain(slot[s]) THEN Retained(s) ELSE Disconnect(s, "closed")
-----------------------------------------------------------------------------
(* home_donor_offer. Names are never used twice; a Hybrid allocation shares   *)
(* the machine with nobody; a retained allocation on view makes way if there  *)
(* is a slot to park it.                                                      *)
Unused(i) == receipts[i] = "none" /\ i \notin born
Busy(r) == r.held \/ r.phase = "pending"
Clashes(i) == \E s \in Slot : Busy(slot[s]) /\ (slot[s].id = i \/ Hybrid[i] \/ Hybrid[slot[s].id])
Available == {s \in Parked : /\ ~slot[s].held /\ slot[s].client = "no" /\ ~slot[s].receipt
                             /\ slot[s].phase # "pending"}
Swapped(s) == [slot EXCEPT ![0] = slot[s], ![s] = slot[0]]
Offered(now, i) == [now EXCEPT ![0] = [Empty EXCEPT !.id = i, !.phase = "pending", !.client = "here"]]
Offer(i) ==
    LET parks == slot[0].retained /\ Available # {}
        now == IF parks THEN Swapped(CHOOSE s \in Available : \A t \in Available : s <= t) ELSE slot
    IN
    /\ up /\ Unused(i) /\ ~slot[0].receipt /\ ~slot[0].pending /\ ~Clashes(i) /\ Ram[i] <= Room
    /\ \A s \in Slot : slot[s].id = i => slot[s].client = "no"
    /\ now[0].client = "no" /\ ~now[0].retained /\ now[0].phase \in Terminal /\ ~now[0].held
    /\ slot' = Offered(now, i)
    /\ UNCHANGED <<up, pool, linger, disk, sealed, told, env>>
(* The owner's answer, or the policy's (home_donor_policy_candidate): one     *)
(* allocation at a time, counted where the content is known. The machine's    *)
(* lease is acquired first, or shared with the allocations held already; then *)
(* lmb_home_decide looks at the memory again.                                 *)
Enabled == policy % 2 = 1
Allowed == /\ Enabled /\ slot[0].id \in Scoped
           /\ {s \in Held : slot[s].id \in Scoped} = {}
(* Mutant: the lease of the machine is not looked at.                         *)
BugFits == Ram[slot[0].id] <= Room
Fits == (~other \/ Held # {}) /\ Ram[slot[0].id] <= Room
Decide(auth) ==
    /\ up /\ slot[0].phase = "pending" /\ (auth # 0 => auth = policy /\ Allowed)
    /\ \/ /\ Fits /\ UNCHANGED linger
          /\ slot' = [slot EXCEPT ![0] = [@ EXCEPT !.held = TRUE, !.phase = "accepted", !.auth = auth]]
       \/ ~Fits /\ Release(0, "failed")
       \/ auth = 0 /\ slot' = [slot EXCEPT ![0].phase = "rejected"] /\ UNCHANGED linger
    /\ UNCHANGED <<up, pool, disk, sealed, told, env>>
(* Unload, and the next model to look at.                                     *)
Unload == up /\ slot[0].id # NoAlloc /\ Disconnect(0, "closed") /\ UNCHANGED <<up, pool, disk, sealed, told, env>>
NextModel(s) == /\ up /\ Busy(slot[s]) /\ slot' = Swapped(s)
                /\ UNCHANGED <<up, pool, linger, disk, sealed, told, env>>
(* home_donor_policy_change: allowed with a pending offer, revoked at will.   *)
PolicyChange == /\ up /\ policy < MaxRev /\ (~Enabled => slot[0].phase = "pending" /\ slot[0].id \in Scoped)
                /\ policy' = policy + 1
                /\ UNCHANGED <<slot, up, pool, linger, disk, sealed, told, other, crashes>>
-----------------------------------------------------------------------------
(* home_donor_launch: the birth is on disk before the process runs, and is    *)
(* never written twice. It may be cut short, or what follows may fail.        *)
Birth(s) ==
    IF slot[s].started THEN UNCHANGED disk
    ELSE born' = born \cup {slot[s].id} /\ UNCHANGED <<torn, receipts>>
(* lmb_lifetime_create: the file has its name before it is whole.             *)
CutShort(s) == born' = born \cup {slot[s].id} /\ torn' = torn \cup {slot[s].id} /\ UNCHANGED receipts
Launch(s, child, phase) ==
    \/ /\ slot' = [slot EXCEPT ![s] = [@ EXCEPT !.phase = phase, ![child] = "load", !.started = TRUE, !.fence = TRUE]]
       /\ Birth(s) /\ UNCHANGED linger
    \/ /\ ~slot[s].started /\ Release(s, "failed")
       /\ UNCHANGED disk \/ CutShort(s)
    \/ /\ Stopped(s) /\ Birth(s)
       /\ slot' = [slot EXCEPT ![s] = Freed(s, "failed")]
(* home_donor_message. What is out of order counts as a lost requester.       *)
Revoked(s) == slot[s].auth # 0 /\ slot[s].auth # policy
Message(s, m) ==
    LET r == slot[s] IN
    /\ up /\ r.client = "here" /\ ~r.pending
    /\ CASE m = "routes" ->
              IF r.phase = "accepted" /\ Hybrid[r.id] /\ ~r.routed
              THEN slot' = [slot EXCEPT ![s].routed = TRUE] /\ UNCHANGED <<linger, disk>>
              ELSE Lost(s) /\ UNCHANGED disk
         [] m = "detach" -> Lost(s) /\ UNCHANGED disk
         [] m = "cancel" -> Release(s, "closed") /\ UNCHANGED disk
         [] m = "commit" ->
              IF Revoked(s) THEN Release(s, "failed") /\ UNCHANGED disk
              ELSE IF r.phase = "accepted" /\ r.held /\ (Hybrid[r.id] => r.routed) THEN Launch(s, "segment", "loading")
              ELSE Lost(s) /\ UNCHANGED disk
         [] m = "start" ->
              IF r.phase = "segment" /\ Edge[r.id] THEN Launch(s, "host", "starting")
              ELSE Lost(s) /\ UNCHANGED disk
    /\ UNCHANGED <<up, pool, sealed, told, env>>
(* The connection is closed, or no pulse comes within the lease; an offer may *)
(* also stay undecided for too long (lmb_home_expired).                       *)
Gone(s) ==
    LET r == slot[s] IN
    /\ up /\ ~r.pending
    /\ r.client = "eof" \/ (r.client = "silent" /\ r.phase \notin Terminal)
    /\ Lost(s) /\ UNCHANGED <<up, pool, disk, sealed, told, env>>
Undecided == /\ up /\ slot[0].phase = "pending" /\ Lost(0)
             /\ UNCHANGED <<up, pool, disk, sealed, told, env>>
(* The loop: a pending release is tried again, a child that ended is reaped,  *)
(* one that is ready moves the transaction on.                                *)
Retry(s) == up /\ slot[s].pending /\ Release(s, slot[s].why) /\ UNCHANGED <<up, pool, disk, sealed, told, env>>
Reap(s) == /\ up /\ (slot[s].segment = "dead" \/ slot[s].host = "dead") /\ Release(s, "failed")
           /\ UNCHANGED <<up, pool, disk, sealed, told, env>>
Ready(s) == /\ up
            /\ \/ slot[s].phase = "loading" /\ slot[s].segment = "up" /\ slot' = [slot EXCEPT ![s].phase = "segment"]
               \/ slot[s].phase = "starting" /\ slot[s].host = "up" /\ slot' = [slot EXCEPT ![s].phase = "ready"]
            /\ UNCHANGED <<up, pool, linger, disk, sealed, told, env>>
-----------------------------------------------------------------------------
Target(i) == {s \in Slot : slot[s].id = i}
(* LMB_HOME_RELEASE, from the original requester only.                        *)
ReleaseRequest(i) == /\ up /\ \E s \in Target(i) : Disconnect(s, "closed")
                     /\ UNCHANGED <<up, pool, disk, sealed, told, env>>
(* LMB_HOME_NODE_CONTROL reaches the node, which is idle and seals itself.    *)
Seal(s) == /\ up /\ slot[s].segment = "up" /\ slot[s].phase \in {"segment", "ready"} /\ slot[s].id \notin sealed
           /\ sealed' = sealed \cup {slot[s].id}
           /\ UNCHANGED <<slot, up, pool, linger, disk, told, env>>
(* home_donor_retired_release: the intent is durable before anything stops,   *)
(* the receipt follows the proof. Either write may fail.                      *)
Over(s) == ~slot[s].held /\ slot[s].segment = "none" /\ slot[s].host = "none"
Evidence(s) == IF Over(s) /\ slot[s].phase = "closed" THEN slot[s].receipt
               ELSE /\ slot[s].segment = "up" /\ slot[s].phase \in {"segment", "ready"}
                    /\ slot[s].id \in sealed
RetiredRelease(s) ==
    LET i == slot[s].id
        kept(r) == [r EXCEPT !.receipt = TRUE]
        gone(r) == [r EXCEPT !.receipt = FALSE]
    IN
    /\ up /\ i # NoAlloc /\ receipts[i] # "done" /\ Evidence(s)
    /\ IF slot[s].phase = "closed" THEN UNCHANGED linger ELSE Stopped(s)
    /\ LET r == IF slot[s].phase = "closed" THEN slot[s] ELSE [Freed(s, "closed") EXCEPT !.client = "no"] IN
       \/ /\ slot' = [slot EXCEPT ![s] = kept(r)] /\ receipts' = [receipts EXCEPT ![i] = "prepared"]
          /\ UNCHANGED acked
       \/ /\ ~r.held /\ slot' = [slot EXCEPT ![s] = gone(r)] /\ receipts' = [receipts EXCEPT ![i] = "done"]
          /\ acked' = acked \cup {i}
    /\ UNCHANGED <<up, pool, born, torn, sealed, proved, env>>
(* home_retired_reply: a finished record answers for a release of the past,   *)
(* whoever has the slot now.                                                  *)
RetiredReply(i) ==
    /\ up /\ receipts[i] = "done" /\ \A s \in Target(i) : Over(s)
    /\ acked' = acked \cup {i}
    /\ slot' = [s \in Slot |-> IF slot[s].id = i THEN [slot[s] EXCEPT !.receipt = FALSE] ELSE slot[s]]
    /\ UNCHANGED <<up, pool, linger, disk, sealed, proved, env>>
(* LMB_HOME_EXIT_PROOF, home_lifetime_reply: a pending release is tried, and  *)
(* only the lock of the birth answers, before and after a crash.              *)
ExitProof(i) ==
    /\ up /\ i \in born
    /\ LET P == {s \in Target(i) : slot[s].pending} IN
       IF P = {} THEN UNCHANGED <<slot, linger>> ELSE \E s \in P : Release(s, slot[s].why)
    /\ \A s \in Slot : slot'[s].id = i => ~slot'[s].held
    /\ i \notin torn /\ Proven(i) /\ proved' = proved \cup {i}
    /\ UNCHANGED <<up, pool, disk, sealed, acked, env>>
-----------------------------------------------------------------------------
(* Another program of this machine takes or returns the compute lease.        *)
Lease == /\ (~other => Held = {}) /\ other' = ~other
         /\ UNCHANGED <<slot, up, pool, linger, disk, sealed, told, policy, crashes>>
(* Requesters leave, or say nothing more.                                     *)
Vanish(s, how) == /\ slot[s].client = "here" /\ slot' = [slot EXCEPT ![s].client = how]
                  /\ UNCHANGED <<up, pool, linger, disk, sealed, told, env>>
(* Engines load, and end; something they started may live on for a while.     *)
Engine(s) ==
    /\ up
    /\ \E c \in {"segment", "host"} :
        \/ slot[s][c] = "load" /\ slot' = [slot EXCEPT ![s][c] = "up"] /\ UNCHANGED linger
        \/ /\ Running(slot[s][c]) /\ slot' = [slot EXCEPT ![s][c] = "dead"]
           /\ linger' \in {linger, linger \cup {slot[s].id}}
    /\ UNCHANGED <<up, pool, disk, sealed, told, env>>
Dies(i) == /\ i \in linger /\ linger' = linger \ {i}
           /\ UNCHANGED <<slot, up, pool, disk, sealed, told, env>>
(* The keeper dies, and its children with it, though not at once; a new one   *)
(* has an identity of its own and shares what is free when it starts. Its own *)
(* policies are gone: they name the keeper they were given to.                *)
Crash ==
    LET alive == {slot[s].id : s \in {t \in Slot : Running(slot[t].segment) \/ Running(slot[t].host)}} IN
    /\ up /\ crashes < MaxCrashes /\ crashes' = crashes + 1 /\ up' = FALSE
    /\ linger' \in {linger \cup L : L \in SUBSET alive}
    /\ slot' = [s \in Slot |-> Empty] /\ policy' = IF Enabled THEN policy + 1 ELSE policy
    /\ UNCHANGED <<pool, disk, sealed, told, other>>
Restart == /\ ~up /\ up' = TRUE /\ pool' = Total - Weight(linger)
           /\ UNCHANGED <<slot, linger, disk, sealed, told, env>>
Loop(s) == Retry(s) \/ Reap(s) \/ Ready(s) \/ Gone(s)
Serve(i) == \E s \in Target(i) : Loop(s)
Next == \/ \E s \in Slot : Loop(s) \/ Seal(s) \/ RetiredRelease(s) \/ Engine(s)
        \/ \E s \in Slot, m \in {"routes", "commit", "start", "detach", "cancel"} : Message(s, m)
        \/ \E i \in Alloc : Offer(i) \/ ReleaseRequest(i) \/ RetiredReply(i) \/ ExitProof(i) \/ Dies(i)
        \/ \E s \in Slot, h \in {"eof", "silent"} : Vanish(s, h)
        \/ \E a \in {0, policy} : Decide(a)
        \/ \E s \in Parked : NextModel(s)
        \/ Undecided \/ Unload \/ PolicyChange \/ Lease \/ Crash \/ Restart
(* The keeper's loop runs, and what is killed dies.                           *)
Spec == /\ Init /\ [][Next]_vars
        /\ \A i \in Alloc : WF_vars(Serve(i)) /\ WF_vars(Dies(i))
-----------------------------------------------------------------------------
Owned == {s \in Slot : Running(slot[s].segment) \/ Running(slot[s].host)}
(* The machine is never promised twice: what is held or still lives fits in   *)
(* its memory, across crashes; nothing of this keeper runs while another      *)
(* program has the lease; Hybrid allocations run alone; one name, one         *)
(* allocation; a policy has one at most; and only prepared ones outlive their *)
(* requester.                                                                 *)
NeverOvercommitted ==
    /\ Reserved <= pool /\ Reserved + Weight(linger \ {slot[s].id : s \in Held}) <= Total
    /\ Owned \subseteq Held /\ (other => Held = {})
    /\ \A s, t \in Slot : s # t /\ Busy(slot[s]) /\ Busy(slot[t]) =>
          slot[s].id # slot[t].id /\ ~Hybrid[slot[s].id]
    /\ Cardinality({s \in Held : slot[s].auth # 0}) <= 1
    /\ \A s \in Slot : slot[s].retained =>
          /\ slot[s].held /\ slot[s].client = "no" /\ slot[s].phase = (IF Edge[slot[s].id] THEN "ready" ELSE "segment")
(* A requester who was told that its allocation is over can rely on it: no    *)
(* process of it is alive, and none will be, whatever crashed meanwhile. A    *)
(* process outside the keeper's reservation exists only after a crash.        *)
ExitIsTrue ==
    /\ \A i \in acked \cup proved :
          i \notin linger /\ \A s \in Target(i) : ~slot[s].held /\ s \notin Owned
    /\ crashes = 0 => linger \subseteq {slot[s].id : s \in Held}
(* An allocation whose requester is gone is given up or kept as prepared,     *)
(* and what is given up is free at last.                                      *)
Abandoned(i) == \E s \in Target(i) : slot[s].held /\ slot[s].client # "here" /\ ~slot[s].retained
AbandonedIsSettled == \A i \in Alloc : []<>~Abandoned(i)
=============================================================================
