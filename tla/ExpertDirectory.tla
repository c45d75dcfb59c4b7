--------------------------- MODULE ExpertDirectory ---------------------------
(* Whom a chatter asks for experts (lumabri_client.h): peers found through    *)
(* the tracker are admitted by their manifest, each expert remembers a few    *)
(* replicas, and a layer is handed to the swarm when all its experts have a   *)
(* holder. Whenever it is asked a peer may have restarted with another        *)
(* checkpoint or have disappeared behind a router; some are quarantined.      *)
EXTENDS Integers, Sequences, SequencesExt, FiniteSets
CONSTANTS Addr, Gid, Layer, LayerOf, Root,
          Strict,      \* a trust key is configured: an identity is required
          MaxRep, MaxPeers, None
VARIABLES known,       \* L.peers: sequence of addresses
          dead,        \* known addresses marked dead; due: those that may be redialed
          due, pooled,
          own,         \* Gid -> sequence of replicas
          admitted,    \* Addr -> identity its accepted manifest showed
          pinned, relay, covered, on
vars == <<known, dead, due, pooled, own, admitted, pinned, relay, covered, on>>
peers == <<known, dead, due, pooled, own, admitted>>

(* What a manifest may say today: shape and build fit or not, a checkpoint or *)
(* none, all or no experts, answered directly (or by tunnel) or not at all.   *)
Manifest == [ok : BOOLEAN, root : Root \cup {None}, holds : {{}, Gid}, way : {"direct", "none"}]
Init ==
    /\ known = <<>> /\ dead = {} /\ due = {} /\ pooled = {}
    /\ own = [g \in Gid |-> <<>>] /\ admitted = [a \in Addr |-> None]
    /\ pinned \in Root \cup {None} /\ relay = {} /\ covered = {} /\ on = FALSE

(* Mutant: the checkpoint of a manifest is not compared with the pinned one.  *)
BugIdentityOk(m) == (pinned # None \/ Strict) => m.root # None
(* The identity part of the manifest check.                                   *)
IdentityOk(m) == /\ (pinned # None \/ Strict) => m.root # None
                 /\ pinned # None => m.root = pinned
Owned(a) == {g \in Gid : \E i \in 1 .. Len(own[g]) : own[g][i] = a}
(* lumi_add_peer of an address never seen: unreachable by every way, it is    *)
(* remembered as dead; refused, or not answering the probe, it owns nothing.  *)
Adopted(a, m) ==
    own' = [g \in Gid |-> IF g \in m.holds /\ Len(own[g]) < MaxRep THEN Append(own[g], a) ELSE own[g]]
AddNew(a, m) ==
    /\ ~Contains(known, a) /\ Len(known) < MaxPeers
    /\ \/ /\ m.way = "none"
          /\ known' = Append(known, a) /\ dead' = dead \cup {a}
          /\ UNCHANGED <<due, pooled, own, admitted, pinned>>
       \/ /\ m.way # "none" /\ m.ok /\ IdentityOk(m)
          /\ known' = Append(known, a) /\ Adopted(a, m)
          /\ admitted' = [admitted EXCEPT ![a] = m.root]
          /\ pinned' = IF pinned = None THEN m.root ELSE pinned
          /\ pooled' = pooled \cup {a} /\ UNCHANGED <<dead, due>>
       \/ /\ m.way # "none"                        \* refused, or the probe failed
          /\ pinned' = IF pinned = None /\ m.ok /\ IdentityOk(m) THEN m.root ELSE pinned
          /\ UNCHANGED <<known, dead, due, pooled, own, admitted>>
(* lumi_add_peer of a dead one whose retry is due: its manifest must still    *)
(* list every expert it owns; a refused one stays dead.                       *)
AddAgain(a, m) ==
    /\ a \in dead \cap due
    /\ \/ m.way = "none" /\ due' = due \ {a} /\ pooled' = pooled \ {a}
          /\ UNCHANGED <<dead, admitted, pinned>>
       \/ /\ m.way # "none" /\ m.ok /\ IdentityOk(m) /\ Owned(a) \subseteq m.holds
          /\ dead' = dead \ {a} /\ due' = due \ {a} /\ pooled' = pooled \cup {a}
          /\ admitted' = [admitted EXCEPT ![a] = m.root]
          /\ pinned' = IF pinned = None THEN m.root ELSE pinned
       \/ /\ m.way # "none" /\ ~(m.ok /\ IdentityOk(m) /\ Owned(a) \subseteq m.holds)
          /\ pooled' = pooled \ {a} /\ UNCHANGED <<dead, due, admitted, pinned>>
    /\ UNCHANGED <<known, own>>
lumi_add_peer(a, m) == AddNew(a, m) \/ AddAgain(a, m)

(* lumi_missing_experts: a layer is covered when each of its experts has a    *)
(* first holder or the relay; lumi_enable_if_complete.                        *)
lumi_missing_experts(owners, tunnel) ==
    {l \in Layer : \A g \in Gid : LayerOf[g] = l => owners[g] # <<>> \/ g \in tunnel}
lumi_enable_if_complete(owners, tunnel) ==
    /\ covered' = lumi_missing_experts(owners, tunnel)
    /\ on' = (covered' # {})
(* lumi_refresh_identity is called while no identity is pinned, so its branch *)
(* for an identity that changed is never taken.                               *)
lumi_refresh_identity(truth) ==
    /\ pinned = None /\ pinned' = truth
    /\ UNCHANGED <<peers, relay, covered, on>>
(* lumi_discover followed by lumi_relay_coverage and the new coverage.        *)
lumi_discover(a, m, tunnel) ==
    /\ lumi_add_peer(a, m) /\ relay' = tunnel
    /\ lumi_enable_if_complete(own', tunnel)
lumi_relay_coverage(tunnel) ==
    /\ relay' = tunnel /\ tunnel # relay
    /\ UNCHANGED <<peers, pinned, covered, on>>
(* lumi_spot_check's quarantine, and the end of a retry time.                 *)
Quarantine(a) == /\ Contains(known, a) /\ a \notin dead /\ dead' = dead \cup {a}
                 /\ UNCHANGED <<known, due, pooled, own, admitted, pinned, relay, covered, on>>
RetryDue(a) == /\ a \in dead \ due /\ due' = due \cup {a}
               /\ UNCHANGED <<known, dead, pooled, own, admitted, pinned, relay, covered, on>>
Next == \/ \E a \in Addr : \/ Quarantine(a) \/ RetryDue(a)
                           \/ \E m \in Manifest, tunnel \in {{}, Gid} : lumi_discover(a, m, tunnel)
        \/ \E tunnel \in {{}, Gid} : lumi_relay_coverage(tunnel)
        \/ \E truth \in Root : lumi_refresh_identity(truth)
Spec == Init /\ [][Next]_vars
------------------------------------------------------------------------------
(* Checkpoints are never mixed: every live replica that showed an identity    *)
(* showed the pinned one, whatever it serves by now; a refused peer owns      *)
(* nothing, and a peer is remembered once, within the limits of the tables.   *)
DirectorySound ==
    /\ \A a \in Addr : admitted[a] # None => admitted[a] = pinned
    /\ \A a \in Addr : Owned(a) # {} => Contains(known, a)
    /\ Len(known) = Cardinality({known[i] : i \in 1 .. Len(known)})
    /\ \A g \in Gid : Len(own[g]) <= MaxRep
=============================================================================
