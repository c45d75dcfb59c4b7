----------------------------- MODULE ExpertNode ------------------------------
(* An executor of experts (expert_node.c): concurrent EXEC calls pin a slot   *)
(* of the weight cache, then wait at the fair compute gate, then compute;     *)
(* relayed calls arrive on the control connection and move to workers while   *)
(* tickets last; a governor and a rebalance change what the node accepts.     *)
(* One step per critical section; a thread in pthread_cond_wait is asleep     *)
(* until a broadcast of that condition.                                       *)
EXTENDS Integers, FiniteSets
CONSTANTS Call, Relayed,   \* calls, those of them that come through the tracker
          SourceOf, Source,\* remote address of a call
          ExpertOf, Expert,
          CacheSlot,
          Compute,         \* concurrent multiplications (gate_init)
          MaxWaiters,      \* GATE_WAITERS_MAX
          Tickets,         \* relay worker tickets
          None
VARIABLES pc,       \* Call -> stage
          asleep,   \* calls inside pthread_cond_wait
          pinned,   \* Call -> its cache slot, or None
          cache,    \* CacheSlot -> [gid, loading, refs, stamp]
          tick,     \* LRU clock: order of last use, oldest first
          free,     \* g_gate_free
          queue,    \* g_gate_wait: recorded waiters [who, seq]
          seq, granted,
          inflight, \* g.in_flight
          tickets, inline,  \* free tickets; the call the control thread runs itself
          paused, holds     \* governor PAUSED; held experts
vars == <<pc, asleep, pinned, cache, tick, free, queue, seq, granted, inflight,
          tickets, inline, paused, holds>>
gate == <<free, queue, seq, granted>>
store == <<cache, tick, pinned>>
node == <<paused, holds>>

Init == /\ pc = [c \in Call |-> "new"] /\ asleep = {} /\ pinned = [c \in Call |-> None]
        /\ cache = [s \in CacheSlot |-> [gid |-> None, loading |-> FALSE, refs |-> 0, stamp |-> 0]]
        /\ tick = 0 /\ free = Compute /\ queue = {} /\ seq = 0
        /\ granted = [s \in Source |-> 0] /\ inflight = 0
        /\ tickets = Tickets /\ inline = None /\ paused = FALSE /\ holds = Expert

(* conn_thread hands an EXEC to exec_compute; control_thread dispatches a     *)
(* forwarded one to a worker, or runs it itself when no ticket is free.       *)
dispatch_rexec_fwd(c) ==
    /\ inline = None
    /\ IF tickets > 0 THEN tickets' = tickets - 1 /\ inline' = inline
       ELSE tickets' = tickets /\ inline' = c
(* The end of a call: the reply is sent, a worker gives its ticket back, the  *)
(* control thread goes on reading.                                            *)
relay_worker(c) ==
    IF c \notin Relayed THEN UNCHANGED <<tickets, inline>>
    ELSE IF inline = c THEN inline' = None /\ tickets' = tickets
    ELSE tickets' = tickets + 1 /\ inline' = inline

(* exec_compute: refused when the governor paused the node or the expert is   *)
(* not held; otherwise counted and sent to the cache.                         *)
Begin(c) ==
    /\ pc[c] = "new"
    /\ IF c \in Relayed THEN dispatch_rexec_fwd(c) ELSE UNCHANGED <<tickets, inline>>
    /\ pc' = [pc EXCEPT ![c] = "read"]
    /\ UNCHANGED <<asleep, store, gate, inflight, node>>
Admit(c) ==
    /\ pc[c] = "read"
    /\ IF paused \/ ExpertOf[c] \notin holds
       THEN pc' = [pc EXCEPT ![c] = "refused"] /\ relay_worker(c) /\ UNCHANGED inflight
       ELSE /\ pc' = [pc EXCEPT ![c] = "cache"] /\ inflight' = inflight + 1
            /\ UNCHANGED <<tickets, inline>>
    /\ UNCHANGED <<asleep, store, gate, node>>

(* cache_acquire, one pass of its loop: a loaded hit is pinned, a hit that is *)
(* loading is waited for, a miss takes an unpinned victim (an empty slot, or  *)
(* the least recently used) and loads it; without a victim the call sleeps.   *)
Awake(c, stage) == pc[c] = stage /\ c \notin asleep
Hits(c) == {s \in CacheSlot : cache[s].gid = ExpertOf[c]}
(* Mutant: a slot under a running kernel may be a victim.                     *)
BugIdle == {s \in CacheSlot : ~cache[s].loading}
Idle == {s \in CacheSlot : cache[s].refs = 0 /\ ~cache[s].loading}
Victims == LET empty == {s \in Idle : cache[s].gid = None} IN
           IF empty # {} THEN empty
           ELSE {s \in Idle : \A t \in Idle : cache[s].stamp <= cache[t].stamp}
cache_acquire(c) ==
    /\ Awake(c, "cache")
    /\ \/ \E s \in Hits(c) :
             /\ ~cache[s].loading
             /\ cache' = [cache EXCEPT ![s].refs = @ + 1, ![s].stamp = tick + 1]
             /\ tick' = tick + 1 /\ pinned' = [pinned EXCEPT ![c] = s]
             /\ pc' = [pc EXCEPT ![c] = "gate"] /\ UNCHANGED asleep
       \/ /\ Hits(c) = {}
          /\ \E s \in Victims :
               /\ cache' = [cache EXCEPT ![s] = [gid |-> ExpertOf[c], loading |-> TRUE,
                                                 refs |-> 1, stamp |-> tick + 1]]
               /\ tick' = tick + 1 /\ pinned' = [pinned EXCEPT ![c] = s]
               /\ pc' = [pc EXCEPT ![c] = "load"] /\ UNCHANGED asleep
       \/ /\ \/ \E s \in Hits(c) : cache[s].loading
             \/ Hits(c) = {} /\ Victims = {}
          /\ asleep' = asleep \cup {c} /\ UNCHANGED <<store, pc>>
    /\ UNCHANGED <<gate, inflight, tickets, inline, node>>
(* Mutant: nobody is told that a slot was loaded or released.                 *)
BugCacheBroadcast(set) == set
CacheBroadcast(set) == {c \in set : pc[c] # "cache"}
(* lmbe_slot_load returned: the slot is published to the other callers.       *)
CacheLoaded(c) ==
    /\ pc[c] = "load"
    /\ cache' = [cache EXCEPT ![pinned[c]].loading = FALSE]
    /\ asleep' = CacheBroadcast(asleep)
    /\ pc' = [pc EXCEPT ![c] = "gate"]
    /\ UNCHANGED <<tick, pinned, gate, inflight, tickets, inline, node>>

(* gate_enter. The fast path needs a free slot and nobody recorded; otherwise *)
(* the call is recorded while there is room, and waits.                       *)
Granted(c) == [granted EXCEPT ![SourceOf[c]] = @ + 1]
GateFast(c) ==
    /\ pc[c] = "gate" /\ free > 0 /\ queue = {}
    /\ free' = free - 1 /\ granted' = Granted(c)
    /\ pc' = [pc EXCEPT ![c] = "run"]
    /\ UNCHANGED <<asleep, store, queue, seq, inflight, tickets, inline, node>>
GateQueue(c) ==
    /\ pc[c] = "gate" /\ (free = 0 \/ queue # {})
    /\ seq' = seq + 1
    /\ queue' = IF Cardinality(queue) < MaxWaiters
                THEN queue \cup {[who |-> c, seq |-> seq + 1]} ELSE queue
    /\ pc' = [pc EXCEPT ![c] = "wait"]
    /\ UNCHANGED <<asleep, store, free, granted, inflight, tickets, inline, node>>
(* gate_next_locked: the least granted source, then the oldest waiter.        *)
Least(w) == granted[SourceOf[w.who]]
gate_next_locked == {w \in queue : \A x \in queue :
    Least(w) < Least(x) \/ (Least(w) = Least(x) /\ w.seq <= x.seq)}
Recorded(c) == {w \in queue : w.who = c}
MayPass(c) == free > 0 /\ (Recorded(c) = {} \/ Recorded(c) = gate_next_locked)
(* Who is awake after a waiter left the queue with left others recorded.      *)
Woken(left) == IF left # {} /\ free > 1 THEN {c \in asleep : pc[c] # "wait"} ELSE asleep
GateWait(c) ==
    /\ Awake(c, "wait")
    /\ IF MayPass(c)
       THEN LET left == queue \ Recorded(c) IN
            /\ queue' = left /\ free' = free - 1
            /\ granted' = IF left = {} THEN [s \in Source |-> 0] ELSE Granted(c)
            /\ asleep' = Woken(left)
            /\ pc' = [pc EXCEPT ![c] = "run"]
       ELSE asleep' = asleep \cup {c} /\ UNCHANGED <<queue, free, granted, pc>>
    /\ UNCHANGED <<store, seq, inflight, tickets, inline, node>>

(* lmbe_apply returned: cache_release, then gate_leave, both broadcast.       *)
cache_release(c) ==
    /\ pc[c] = "run"
    /\ cache' = [cache EXCEPT ![pinned[c]].refs = @ - 1]
    /\ pinned' = [pinned EXCEPT ![c] = None]
    /\ asleep' = CacheBroadcast(asleep)
    /\ pc' = [pc EXCEPT ![c] = "leave"]
    /\ UNCHANGED <<tick, gate, inflight, tickets, inline, node>>
gate_leave(c) ==
    /\ pc[c] = "leave"
    /\ free' = free + 1
    /\ asleep' = {d \in asleep : pc[d] # "wait"}
    /\ pc' = [pc EXCEPT ![c] = "reply"]
    /\ UNCHANGED <<store, queue, seq, granted, inflight, tickets, inline, node>>
(* handle_exec and handle_rexec_fwd answer.                                   *)
Reply(c) ==
    /\ pc[c] = "reply"
    /\ inflight' = inflight - 1
    /\ relay_worker(c)
    /\ pc' = [pc EXCEPT ![c] = "done"]
    /\ UNCHANGED <<asleep, store, gate, node>>

(* governor_thread and rebalance_thread.                                      *)
governor_thread == /\ paused' = ~paused
                   /\ UNCHANGED <<pc, asleep, store, gate, inflight, tickets, inline, holds>>
rebalance_thread(want) ==
    /\ want # holds /\ holds' = want
    /\ UNCHANGED <<pc, asleep, store, gate, inflight, tickets, inline, paused>>

Step(c) == \/ Admit(c) \/ cache_acquire(c) \/ CacheLoaded(c) \/ GateFast(c) \/ GateQueue(c)
           \/ GateWait(c) \/ cache_release(c) \/ gate_leave(c) \/ Reply(c)
Next == \/ \E c \in Call : Begin(c) \/ Step(c)
        \/ governor_thread
        \/ \E want \in SUBSET Expert : want # {} /\ rebalance_thread(want)
(* The thread of a call that can run, runs: weights load and kernels end.     *)
Fairness == \A c \in Call : WF_vars(Step(c))
Spec == Init /\ [][Next]_vars /\ Fairness
------------------------------------------------------------------------------
(* cache_acquire: from the moment it is pinned and loaded until the kernel    *)
(* has ended, a call's slot holds its own expert, and the pins are counted.   *)
WeightsStay == \A c \in Call :
    pinned[c] # None =>
        /\ cache[pinned[c]].gid = ExpertOf[c]
        /\ pc[c] # "load" => ~cache[pinned[c]].loading
        /\ cache[pinned[c]].refs = Cardinality({d \in Call : pinned[d] = pinned[c]})
(* gate_enter's comment: a free compute slot is never left idle with every    *)
(* waiter asleep, and what calls hold adds up.                                *)
NoIdleSlot ==
    /\ free > 0 /\ queue # {} => \E w \in gate_next_locked : w.who \notin asleep
    /\ free + Cardinality({c \in Call : pc[c] \in {"run", "leave"}}) = Compute
    /\ inflight = Cardinality({c \in Call : pc[c] \notin {"new", "read", "refused", "done"}})
    /\ tickets + Cardinality({c \in Relayed \ {inline} : pc[c] \notin {"new", "refused", "done"}})
         = Tickets
ExecSound == WeightsStay /\ NoIdleSlot
(* Every call that reached the node is answered, however cold its expert,     *)
(* however full the cache, and whoever else competes.                         *)
Answered(c) == pc[c] \in {"new", "done", "refused"}
ExecsEnd == \A c \in Call : []<>Answered(c)
=============================================================================
