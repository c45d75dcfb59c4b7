---------------------------- MODULE ExpertClient -----------------------------
(* The chatter's side of the expert network (lumabri_client.h): one layer     *)
(* round sends every expert of the layer to a replica, computes its local     *)
(* share meanwhile, collects the answers in router order with hedging,        *)
(* failover, spot checks and the tracker's relay, and adds them to the        *)
(* engine's output. Which of the eligible replicas is nearest is left open.   *)
(* A socket is the sequence of requests whose answers it still owes.          *)
EXTENDS Integers, Sequences, FiniteSets
CONSTANTS Peer, Owners,     \* Owners[k]: replicas of the k-th expert
          K, Local,         \* experts of the layer; the last Local run here
          Liar,             \* peers whose bytes differ
          Exec2,            \* peers that answer LMB_EXEC2_R (LMB_CAP_EXEC2)
          Covered,          \* experts the tracker's relay can reach
          Policy,           \* "home", "chat", "fed" (LUMABRI_VROOT)
          Batch,            \* output accumulated as answers arrive, or at the end
          PoolMax, Strikes, MaxWaits, Probes, MaxRounds, None
VARIABLES round, pc, k,
          fd, hedge, again,  \* open calls of the round; a home call reconnected
          tried, res, out,
          pool, inflight, dead, fails, cooling,
          waited, sick, demoted, rejected, probes, disputed
round_vars == <<round, pc, k, fd, hedge, again, tried, res, out, waited>>
swarm == <<sick, demoted, rejected, probes>>
health == <<fails, cooling>>
vars == <<round, pc, k, fd, hedge, again, tried, res, out, pool, inflight, dead, fails,
          cooling, waited, sick, demoted, rejected, probes, disputed>>

Remote == 1 .. K - Local
NoCall == [peer |-> None, owes |-> <<>>]
Answer(p, tag) == [by |-> p, tag |-> tag, good |-> p \notin Liar]
Init ==
    /\ round = 0 /\ pc = "idle" /\ k = 1
    /\ fd = [j \in 1 .. K |-> NoCall] /\ hedge = NoCall /\ again = FALSE
    /\ tried = [j \in 1 .. K |-> {}] /\ res = [j \in 1 .. K |-> None] /\ out = <<>>
    /\ pool = [p \in Peer |-> <<>>] /\ inflight = [p \in Peer |-> 0]
    /\ dead = [p \in Peer |-> "no"] /\ fails = [p \in Peer |-> 0] /\ cooling = {}
    /\ waited = 0 /\ sick = FALSE /\ demoted = FALSE /\ rejected = FALSE
    /\ probes = 0 /\ disputed = {}

(* lumi_peer_failed and lumi_peer_observed: the circuit breaker.              *)
Failed(set) ==
    LET f == [p \in Peer |-> IF p \in set /\ fails[p] < Strikes THEN fails[p] + 1 ELSE fails[p]] IN
    /\ fails' = f
    /\ cooling' = cooling \cup {p \in set : f[p] >= Strikes}
Observed(p) == fails' = [fails EXCEPT ![p] = 0] /\ cooling' = cooling \ {p}
Done(count, p) == [count EXCEPT ![p] = IF @ > 0 THEN @ - 1 ELSE 0]
Sent(count, p) == [count EXCEPT ![p] = @ + 1]
(* lumi_pick: a live, untried replica whose circuit is closed.                *)
lumi_pick(j) == {p \in Owners[j] \ tried[j] : dead[p] = "no" /\ p \notin cooling}
(* lumi_take_sock: pooled sockets are popped while they look readable (closed *)
(* by the peer, or with a frame nobody waited for); then a new one is dialed. *)
lumi_take_sock(p) ==
    {[owes |-> pool[p][n], left |-> SubSeq(pool[p], 1, n - 1)] : n \in 1 .. Len(pool[p])}
      \cup {[owes |-> <<>>, left |-> <<>>]}
lumi_put_sock(pooled, p, owes) ==
    IF Len(pooled[p]) < PoolMax THEN [pooled EXCEPT ![p] = Append(@, owes)] ELSE pooled
(* The attempt to reach p: no connection, a failed send, or a request sent.   *)
Unreachable(p) == pool' = [pool EXCEPT ![p] = <<>>] /\ Failed({p})
SendFailed(p) == \E s \in lumi_take_sock(p) :
    pool' = [pool EXCEPT ![p] = s.left] /\ Failed({p})
lumi_send_exec(p, j) == {[peer |-> p, owes |-> Append(s.owes, <<round, j>>), left |-> s.left] :
                            s \in lumi_take_sock(p)}

(* lumi_layer_on, then the start of a round: demoted and numerically rejected *)
(* layers stay local.                                                         *)
Start ==
    /\ pc = "idle" /\ round < MaxRounds /\ ~demoted /\ ~rejected
    /\ round' = round + 1 /\ pc' = "issue" /\ k' = 1
    /\ tried' = [j \in 1 .. K |-> {}] /\ res' = [j \in 1 .. K |-> None] /\ out' = <<>>
    /\ waited' = 0
    /\ UNCHANGED <<fd, hedge, again, pool, inflight, dead, health, swarm, disputed>>
(* The issue loop, one attempt a step.                                        *)
Issue ==
    /\ pc = "issue" /\ k \in Remote
    /\ \/ /\ lumi_pick(k) = {} /\ k' = k + 1
          /\ UNCHANGED <<tried, fd, pool, inflight, health>>
       \/ \E p \in lumi_pick(k) :
            /\ tried' = [tried EXCEPT ![k] = @ \cup {p}]
            /\ \/ (Unreachable(p) \/ SendFailed(p)) /\ UNCHANGED <<k, fd, inflight>>
               \/ \E s \in lumi_send_exec(p, k) :
                    /\ fd' = [fd EXCEPT ![k] = [peer |-> p, owes |-> s.owes]]
                    /\ pool' = [pool EXCEPT ![p] = s.left]
                    /\ inflight' = Sent(inflight, p) /\ k' = k + 1
                    /\ UNCHANGED health
    /\ UNCHANGED <<round, pc, hedge, again, res, out, dead, waited, swarm, disputed>>
(* The local share: it may fail, and the round with it.                       *)
Compute ==
    /\ pc = "issue" /\ k \notin Remote
    /\ res' = [j \in 1 .. K |-> IF j \in Remote THEN None ELSE Answer(None, <<round, j>>)]
    /\ pc' = "collect" /\ k' = 1 /\ again' = FALSE
    /\ UNCHANGED <<round, fd, hedge, tried, out, pool, inflight, dead, health, waited, swarm, disputed>>

(* Calls still open, and what closing them does to the counts.                *)
Open == {j \in 1 .. K : fd[j].peer # None}
Closed(calls) == [p \in Peer |->
    LET n == Cardinality({j \in calls : fd[j].peer = p}) IN
    IF inflight[p] > n THEN inflight[p] - n ELSE 0]
Restore == <<>>
(* The fail label: every open call is closed, nothing of the round is kept;   *)
(* the engine computes the layer itself.                                      *)
Fail ==
    /\ inflight' = Closed(Open) /\ fd' = [j \in 1 .. K |-> NoCall]
    /\ res' = [j \in 1 .. K |-> None] /\ out' = Restore /\ pc' = "idle"
LocalFails ==
    /\ pc = "issue" /\ k \notin Remote /\ Local > 0
    /\ Fail
    /\ UNCHANGED <<round, k, hedge, again, tried, pool, dead, health, waited, swarm, disputed>>

(* lumi_finish_exec. The hedge: nothing arrived, one more replica is asked.   *)
Hedge ==
    /\ pc = "collect" /\ k \in Open /\ hedge = NoCall /\ ~again /\ Policy # "home"
    /\ \E p \in lumi_pick(k) :
         /\ tried' = [tried EXCEPT ![k] = @ \cup {p}] /\ again' = TRUE
         /\ \/ (Unreachable(p) \/ SendFailed(p)) /\ UNCHANGED <<hedge, inflight>>
            \/ \E s \in lumi_send_exec(p, k) :
                 /\ hedge' = [peer |-> p, owes |-> s.owes]
                 /\ pool' = [pool EXCEPT ![p] = s.left]
                 /\ inflight' = Sent(inflight, p) /\ UNCHANGED health
    /\ UNCHANGED <<round, pc, k, fd, res, out, dead, waited, swarm, disputed>>
(* Mutant: the loser's socket goes back to the pool.                          *)
BugLoser(pooled, other) ==
    IF other = NoCall THEN pooled ELSE [pooled EXCEPT ![other.peer] = Append(@, other.owes)]
(* The losing socket is closed so its late frame can never be mistaken for a  *)
(* future request.                                                            *)
Loser(pooled, other) == pooled
(* The first frame of a socket is taken as the answer.                        *)
Receive(from, other) ==
    /\ pc = "collect" /\ from # NoCall
    /\ res' = [res EXCEPT ![k] = Answer(from.peer, Head(from.owes))]
    /\ pool' = Loser(lumi_put_sock(pool, from.peer, Tail(from.owes)), other)
    /\ inflight' = IF other = NoCall THEN Done(inflight, from.peer)
                   ELSE Done(Done(inflight, from.peer), other.peer)
    /\ Observed(from.peer)
    /\ fd' = [fd EXCEPT ![k] = NoCall] /\ hedge' = NoCall
    /\ pc' = "check"
    /\ UNCHANGED <<round, k, again, tried, out, dead, waited, swarm, disputed>>
(* One socket breaks: closed and charged; a household call is repeated once   *)
(* on a fresh connection to the same peer. The last one broken, it is retried.*)
Break(primary) ==
    LET lost == IF primary THEN fd[k] ELSE hedge
        other == IF primary THEN hedge ELSE fd[k] IN
    /\ pc = "collect" /\ lost # NoCall
    /\ \/ /\ Policy = "home" /\ ~again /\ again' = TRUE
          /\ fd' = [fd EXCEPT ![k].owes = <<<<round, k>>>>]
          /\ UNCHANGED <<hedge, inflight, health, pc>>
       \/ /\ inflight' = Done(inflight, lost.peer) /\ Failed({lost.peer}) /\ again' = TRUE
          /\ IF primary THEN fd' = [fd EXCEPT ![k] = NoCall] /\ UNCHANGED hedge
             ELSE hedge' = NoCall /\ UNCHANGED fd
          /\ pc' = IF other = NoCall THEN "retry" ELSE "collect"
    /\ waited' = 0
    /\ UNCHANGED <<round, k, tried, res, out, pool, dead, swarm, disputed>>
(* exec_wait_ms passed: both are closed and charged.                          *)
Timeout ==
    /\ pc = "collect" /\ k \in Remote /\ (fd[k] # NoCall \/ hedge # NoCall)
    /\ LET gone == {fd[k].peer, hedge.peer} \ {None} IN
       /\ Failed(gone)
       /\ inflight' = [p \in Peer |-> IF p \in gone /\ inflight[p] > 0
                                      THEN inflight[p] - 1 ELSE inflight[p]]
    /\ fd' = [fd EXCEPT ![k] = NoCall] /\ hedge' = NoCall /\ pc' = "retry"
    /\ waited' = 0
    /\ UNCHANGED <<round, k, again, tried, res, out, pool, dead, swarm, disputed>>
(* An expert nobody could be asked for goes straight to lumi_exec_retry.      *)
Unsent ==
    /\ pc = "collect" /\ k \in Remote /\ fd[k] = NoCall /\ hedge = NoCall
    /\ pc' = "retry" /\ waited' = 0
    /\ UNCHANGED <<round, k, fd, hedge, again, tried, res, out, pool, inflight, dead, health,
                   swarm, disputed>>

(* lumi_add_peer of known addresses: peers whose quarantine is over and whose *)
(* manifest is still good start afresh.                                       *)
lumi_add_peer(back) ==
    /\ dead' = [p \in Peer |-> IF p \in back THEN "no" ELSE dead[p]]
    /\ pool' = [p \in Peer |-> IF p \in back THEN <<>> ELSE pool[p]]
    /\ inflight' = [p \in Peer |-> IF p \in back THEN 0 ELSE inflight[p]]
    /\ fails' = [p \in Peer |-> IF p \in back THEN 0 ELSE fails[p]]
    /\ cooling' = cooling \ back
(* lumi_exec_retry: the remaining replicas one after the other, waiting for   *)
(* the answer of each.                                                        *)
RetryReplica ==
    /\ pc = "retry"
    /\ \E p \in lumi_pick(k) :
         /\ tried' = [tried EXCEPT ![k] = @ \cup {p}]
         /\ \/ (Unreachable(p) \/ SendFailed(p)) /\ UNCHANGED <<pc, res>>
            \/ \E s \in lumi_send_exec(p, k) :
                 /\ res' = [res EXCEPT ![k] = Answer(p, Head(s.owes))]
                 /\ pool' = lumi_put_sock([pool EXCEPT ![p] = s.left], p, Tail(s.owes))
                 /\ Observed(p) /\ pc' = "recheck"
    /\ UNCHANGED <<round, k, fd, hedge, again, out, inflight, dead, waited, swarm, disputed>>
(* No replica is left: the tracker's relay.                                   *)
RetryRelay ==
    /\ pc = "retry" /\ lumi_pick(k) = {} /\ k \in Covered /\ Policy # "home"
    /\ res' = [res EXCEPT ![k] = Answer(None, <<round, k>>)] /\ pc' = "recheck"
    /\ UNCHANGED <<round, k, fd, hedge, again, tried, out, pool, inflight, dead, health,
                   waited, swarm, disputed>>
(* Mutant: every new attempt restarts the clock of the wait.                  *)
BugPatience == 0
Patience == waited + 1
(* Nobody: a household round falls back at once; a chat waits for a peer to   *)
(* return while the swarm is not known to be sick, then demotes the layer; a  *)
(* chatter without local experts stops.                                       *)
Limit == IF Policy = "chat" /\ sick THEN 0 ELSE MaxWaits
RetryWait ==
    /\ pc = "retry" /\ lumi_pick(k) = {} /\ Policy # "home" /\ waited < Limit
    /\ waited' = Patience /\ tried' = [tried EXCEPT ![k] = {}]
    /\ \E back \in SUBSET {p \in Peer : dead[p] = "due"} : lumi_add_peer(back)
    /\ UNCHANGED <<round, pc, k, fd, hedge, again, res, out, swarm, disputed>>
RetryGivesUp ==
    /\ pc = "retry" /\ lumi_pick(k) = {} /\ (Policy = "home" \/ waited >= Limit)
    /\ IF Policy = "fed"
       THEN pc' = "died" /\ UNCHANGED <<fd, inflight, res, out, sick, demoted>>
       ELSE /\ Fail
            /\ IF Policy = "chat" THEN sick' = TRUE /\ demoted' = TRUE
               ELSE UNCHANGED <<sick, demoted>>
    /\ UNCHANGED <<round, k, hedge, again, tried, pool, dead, health, waited, rejected, probes,
                   disputed>>

(* lumi_maybe_spot_check. Skipped, or no second replica, or the checker is    *)
(* down, or it answered in the dialect the check does not read: accepted.     *)
After(j) == IF j = K - Local THEN "publish" ELSE "collect"
Accept ==
    /\ k' = IF k = K - Local THEN k ELSE k + 1
    /\ pc' = After(k) /\ again' = FALSE
    /\ out' = IF Batch THEN Append(out, res[k]) ELSE out
Checking == pc \in {"check", "recheck"}
Unchecked ==
    /\ Checking /\ Accept
    /\ \/ UNCHANGED <<pool, health>>
       \/ Policy # "home" /\ \E p \in lumi_pick(k) :
            \/ Unreachable(p)
            \/ \E s \in lumi_take_sock(p) : pool' = [pool EXCEPT ![p] = s.left] /\ UNCHANGED health
    /\ UNCHANGED <<round, fd, hedge, tried, res, inflight, dead, waited, swarm, disputed>>
Suspects(p) == {p, res[k].by} \ {None}
(* lumi_spot_check compared: equal bytes are accepted; different ones         *)
(* quarantine both replicas, and the answer is computed elsewhere once.       *)
SpotCheck ==
    /\ Checking /\ Policy # "home"
    /\ \E p \in lumi_pick(k) \ Exec2 : \E s \in lumi_send_exec(p, k) :
         /\ pool' = lumi_put_sock([pool EXCEPT ![p] = s.left], p, Tail(s.owes))
         /\ IF (p \notin Liar) = res[k].good /\ Head(s.owes) = res[k].tag
            THEN Accept /\ UNCHANGED <<res, fd, inflight, dead, disputed>>
            ELSE /\ dead' = [q \in Peer |-> IF q \in Suspects(p) THEN "quarantine" ELSE dead[q]]
                 /\ disputed' = disputed \cup {res[k]}
                 /\ IF pc = "recheck" THEN Fail /\ UNCHANGED <<k, again>>
                    ELSE /\ res' = [res EXCEPT ![k] = None] /\ pc' = "retry"
                         /\ UNCHANGED <<k, fd, inflight, again, out>>
    /\ waited' = 0
    /\ UNCHANGED <<round, hedge, tried, health, swarm>>

(* The household's numeric check, due in the first rounds and then now and    *)
(* then: an incompatible answer is replaced by the local result and the       *)
(* layers stay local from then on.                                            *)
Due == Policy = "home" /\ Local > 0
Replaced == [j \in 1 .. K |-> IF res[j].good THEN res[j] ELSE Answer(None, <<round, j>>)]
Publish(checked) ==
    /\ pc = "publish" /\ (checked => Due) /\ (Due /\ probes < Probes => checked)
    /\ LET sum == IF checked THEN Replaced ELSE res IN
       out' = IF Batch THEN out ELSE [j \in 1 .. K |-> sum[j]]
    /\ rejected' = (rejected \/ (checked /\ \E j \in Remote : ~res[j].good))
    /\ probes' = IF checked /\ probes < Probes THEN probes + 1 ELSE probes
    /\ pc' = "idle"
    /\ UNCHANGED <<round, k, fd, hedge, again, tried, res, pool, inflight, dead, health, waited,
                   sick, demoted, disputed>>

(* Time: a circuit closes, a quarantine ends, a demotion expires. The 600 s   *)
(* of a quarantine outlast the waiting of a round (30 s by default).          *)
Cool(p) == p \in cooling /\ cooling' = cooling \ {p}
           /\ UNCHANGED <<round_vars, pool, inflight, dead, fails, swarm, disputed>>
Ripen(p) == pc = "idle" /\ dead[p] = "quarantine" /\ dead' = [dead EXCEPT ![p] = "due"]
            /\ UNCHANGED <<round_vars, pool, inflight, health, swarm, disputed>>
Promote == (demoted \/ sick) /\ demoted' = FALSE /\ sick' = FALSE
           /\ UNCHANGED <<round_vars, pool, inflight, dead, health, rejected, probes, disputed>>
(* lumi_maybe_discover at a layer boundary: a peer whose quarantine is over   *)
(* is probed again.                                                           *)
lumi_maybe_discover(p) ==
    /\ pc = "idle" /\ dead[p] = "due" /\ Policy # "home" /\ lumi_add_peer({p})
    /\ UNCHANGED <<round_vars, swarm, disputed>>
(* lumi_refresh_rtt: a pooled socket is pinged, and closed when that fails.   *)
lumi_refresh_rtt(p) ==
    /\ pc = "idle" /\ dead[p] = "no" /\ pool[p] # <<>> /\ Policy # "home"
    /\ pool' = [pool EXCEPT ![p] = SubSeq(@, 1, Len(@) - 1)]
    /\ UNCHANGED <<round_vars, inflight, dead, health, swarm, disputed>>

Step == \/ Issue \/ Compute \/ LocalFails \/ Unsent \/ Timeout
        \/ (pc = "collect" /\ k \in Remote /\ (Receive(fd[k], hedge) \/ Receive(hedge, fd[k])))
        \/ (pc = "collect" /\ k \in Remote /\ \E primary \in BOOLEAN : Break(primary))
        \/ Hedge \/ RetryReplica \/ RetryRelay \/ RetryWait \/ RetryGivesUp
        \/ Unchecked \/ SpotCheck \/ \E checked \in BOOLEAN : Publish(checked)
Clock == Promote \/ \E p \in Peer : Cool(p) \/ Ripen(p)
Ended == /\ pc = "died" \/ (pc = "idle" /\ (round = MaxRounds \/ rejected))
         /\ UNCHANGED vars
Next == Start \/ Step \/ Clock \/ (\E p \in Peer : lumi_maybe_discover(p) \/ lumi_refresh_rtt(p)) \/ Ended
(* A round's thread runs: connects, sends and receives all have time limits.  *)
Spec == Init /\ [][Next]_vars /\ WF_vars(Step)
------------------------------------------------------------------------------
(* A round publishes all of its sum or nothing: every contribution is the     *)
(* answer to this round's own request, in router order; no answer another     *)
(* replica disputed is part of it, and no numerically incompatible one while  *)
(* the household is still probing.                                            *)
SumIsOwn ==
    pc = "idle" /\ out # <<>> =>
        /\ Len(out) = K
        /\ \A j \in 1 .. K : out[j].tag = <<round, j>> /\ out[j] \notin disputed
        /\ (Due /\ probes < Probes) => \A j \in 1 .. K : out[j].good
(* Between rounds no call is open, no peer is charged for one, and no pooled  *)
(* socket owes an answer that a later request could take for its own.         *)
NothingOwed ==
    /\ \A p \in Peer : \A n \in 1 .. Len(pool[p]) : pool[p][n] = <<>>
    /\ \A p \in Peer : inflight[p] =
         Cardinality({j \in Open : fd[j].peer = p}) + (IF hedge.peer = p THEN 1 ELSE 0)
    /\ pc = "idle" => Open = {} /\ hedge = NoCall
RoundSound == SumIsOwn /\ NothingOwed
(* Every round ends: the layer was computed by the swarm, or the engine does  *)
(* it, or a chatter without weights stops and says so.                        *)
Over == pc \in {"idle", "died"}
RoundsEnd == []<>Over
=============================================================================
