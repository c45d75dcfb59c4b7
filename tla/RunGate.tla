------------------------------ MODULE RunGate ------------------------------
(***************************************************************************)
(* The FIFO admission gate of a Segment node (lumabri_run_gate.c).  A       *)
(* thread enters, perhaps waits in the queue, holds one of capacity permits *)
(* while it runs the engine, and leaves.  The gate's mutex makes each       *)
(* action below atomic: EnterFast and EnterQueue are lmb_run_gate_enter up  *)
(* to its return or its first wait, the Wake actions are the pass of the    *)
(* waiting loop that ends it, Leave is lmb_run_gate_leave.                  *)
(*                                                                          *)
(* Abstractions.  A deadline is membership in the set of waiters whose      *)
(* deadline has passed; the cancel callback is the set of threads it is     *)
(* true for, which changes at any time (the governor may recover).  A wait  *)
(* that fails with an error leaves the loop as a passed deadline does.  An  *)
(* enter that is refused (cancelled, late or queue full) changes nothing.   *)
(* Return values 0 and -1 both mean "no permit" and are not told apart.     *)
(* The two published counters are copied before every unlock.               *)
(***************************************************************************)
EXTENDS Integers, Sequences, FiniteSets, FiniteSetTheorems, WellFoundedInduction,
        TLAPS

CONSTANTS Threads, Capacity, MaxQueue

ASSUME GateConstants ==
    /\ Capacity \in Nat \ {0}
    /\ MaxQueue \in Nat
    /\ IsFiniteSet(Threads)

VARIABLES queue,         \* head .. tail, oldest waiter first
          queued,
          in_use,
          state,         \* "out", "waiting" or "holding" (enter returned 1)
          result,        \* waiter.result: 0, 1 admitted, -1 cancelled, 2 expired
          late,          \* waiters whose deadline has passed
          cancelled      \* threads for which cancel() is now true

vars == <<queue, queued, in_use, state, result, late, cancelled>>

Prefix(q, k) == {q[i] : i \in 1..k}

\* What admit() writes into the waiter it pops.
Verdict(t) == IF t \in cancelled THEN -1 ELSE IF t \in late THEN 2 ELSE 1

\* The waiters among the first k that get a permit.
Live(q, k) == {t \in Prefix(q, k) : Verdict(t) = 1}

\* admit() stops when the permits are used up or the queue is empty: it pops
\* the shortest prefix that does either.
Stops(q, used) ==
    {k \in 0..Len(q) : used + Cardinality(Live(q, k)) >= Capacity \/ k = Len(q)}
\* A wake-up that looks at the head of the queue only.
BugPopCount(q, used) ==
    IF Len(q) > 0 /\ used < Capacity THEN 1 ELSE 0

PopCount(q, used) ==
    CHOOSE k \in Stops(q, used) : \A j \in Stops(q, used) : k <= j

\* admit() on the queue q of count waiters with used permits out; res are the
\* results so far.
Admit(q, count, used, res) ==
    LET k == PopCount(q, used)
    IN  /\ queue' = SubSeq(q, k + 1, Len(q))
        /\ queued' = count - k
        /\ in_use' = used + Cardinality(Live(q, k))
        /\ result' = [t \in Threads |-> IF t \in Prefix(q, k) THEN Verdict(t)
                                        ELSE res[t]]

Init ==
    /\ queue = <<>> /\ queued = 0 /\ in_use = 0
    /\ state = [t \in Threads |-> "out"]
    /\ result = [t \in Threads |-> 0]
    /\ late = {} /\ cancelled = {}

\* The fast path is open only while nobody waits.
FastPath == queue = <<>> /\ in_use < Capacity

EnterFast(t) ==
    /\ state[t] = "out" /\ t \notin cancelled
    /\ FastPath
    /\ in_use' = in_use + 1
    /\ state' = [state EXCEPT ![t] = "holding"]
    /\ UNCHANGED <<queue, queued, result, late, cancelled>>

\* A waiter linked in at the head.
BugEnqueued(t) == <<t>> \o queue

Enqueued(t) == Append(queue, t)

EnterQueue(t) ==
    /\ state[t] = "out" /\ t \notin cancelled
    /\ ~FastPath
    /\ queued < MaxQueue
    /\ queue' = Enqueued(t)
    /\ queued' = queued + 1
    /\ state' = [state EXCEPT ![t] = "waiting"]
    /\ UNCHANGED <<in_use, result, late, cancelled>>

\* The thread is out of the gate; its waiter record goes with it.
Returns(t) ==
    /\ state' = [state EXCEPT ![t] = "out"]
    /\ late' = late \ {t}
    /\ UNCHANGED cancelled

Forget(t) == [result EXCEPT ![t] = 0]

WakeAdmitted(t) ==
    /\ state[t] = "waiting" /\ result[t] = 1 /\ t \notin cancelled
    /\ state' = [state EXCEPT ![t] = "holding"]
    /\ result' = Forget(t)
    /\ late' = late \ {t}
    /\ UNCHANGED <<queue, queued, in_use, cancelled>>

\* A cancelled grant that keeps its permit.
BugWakeGivesBack(t) ==
    /\ state[t] = "waiting" /\ result[t] = 1 /\ t \in cancelled
    /\ Admit(queue, queued, in_use, Forget(t))
    /\ Returns(t)

\* Admitted, but cancelled before it could run: the permit goes on.
WakeGivesBack(t) ==
    /\ state[t] = "waiting" /\ result[t] = 1 /\ t \in cancelled
    /\ Admit(queue, queued, in_use - 1, Forget(t))
    /\ Returns(t)

\* admit() popped it without a permit.
WakeRefused(t) ==
    /\ state[t] = "waiting" /\ result[t] \in {-1, 2}
    /\ result' = Forget(t)
    /\ Returns(t)
    /\ UNCHANGED <<queue, queued, in_use>>

\* waiter_remove: the list with t unlinked.
Without(q, t) ==
    LET p == CHOOSE i \in 1..Len(q) : q[i] = t
    IN  [i \in 1..(Len(q) - 1) |-> IF i < p THEN q[i] ELSE q[i + 1]]

\* A removal that unlinks the waiter and forgets the count.
BugWakeGivesUp(t) ==
    /\ state[t] = "waiting" /\ result[t] = 0 /\ t \in cancelled \cup late
    /\ Admit(Without(queue, t), queued, in_use, Forget(t))
    /\ Returns(t)

\* Still queued, but cancelled or out of time.  A waiter with no result is
\* always in the list (QueueExact).
WakeGivesUp(t) ==
    /\ state[t] = "waiting" /\ result[t] = 0 /\ t \in cancelled \cup late
    /\ Admit(Without(queue, t), queued - 1, in_use, Forget(t))
    /\ Returns(t)

Wake(t) == WakeAdmitted(t) \/ WakeGivesBack(t) \/ WakeRefused(t) \/ WakeGivesUp(t)

\* A leave that wakes nobody.
BugLeave(t) ==
    /\ state[t] = "holding"
    /\ in_use' = in_use - 1
    /\ UNCHANGED <<queue, queued, result>>
    /\ Returns(t)

Leave(t) ==
    /\ state[t] = "holding"
    /\ Admit(queue, queued, IF in_use > 0 THEN in_use - 1 ELSE 0, result)
    /\ Returns(t)

(* The callers' clocks and the node's stop, memory and governor flags. *)
DeadlinePasses(t) ==
    /\ state[t] = "waiting" /\ t \notin late
    /\ late' = late \cup {t}
    /\ UNCHANGED <<queue, queued, in_use, state, result, cancelled>>

CancelChanges(t) ==
    /\ cancelled' = IF t \in cancelled THEN cancelled \ {t} ELSE cancelled \cup {t}
    /\ UNCHANGED <<queue, queued, in_use, state, result, late>>

Next ==
    \E t \in Threads : \/ EnterFast(t) \/ EnterQueue(t)
                       \/ Wake(t) \/ Leave(t)
                       \/ DeadlinePasses(t) \/ CancelChanges(t)

Spec == Init /\ [][Next]_vars

\* Threads run: a woken waiter gets the mutex, a run ends.  Nothing is
\* assumed of deadlines or of cancellation.
FairSpec ==
    Spec /\ \A t \in Threads : WF_vars(Wake(t)) /\ WF_vars(Leave(t))

-----------------------------------------------------------------------------
Granted(t) == state[t] = "waiting" /\ result[t] = 1
Holders == {t \in Threads : state[t] = "holding" \/ Granted(t)}

\* The gate's own bookkeeping has the shapes the code gives it.
TypeOK ==
    /\ queue \in Seq(Threads) /\ queued \in Nat /\ in_use \in Nat
    /\ state \in [Threads -> {"out", "waiting", "holding"}]
    /\ result \in [Threads -> {-1, 0, 1, 2}]
    /\ late \subseteq Threads /\ cancelled \subseteq Threads

\* A permit is never lost or doubled: in_use counts exactly the threads that
\* run or were told they may, never more than the capacity, whatever
\* timeouts and cancellations race with the grant.  A lost permit shrinks
\* the node for ever, a doubled one runs the engine over its limit.
PermitsExact == in_use = Cardinality(Holders) /\ in_use <= Capacity

\* The waiters not yet answered are exactly the queue, each once, and queued
\* counts them within the limit: nobody waits for a wake-up that cannot come.
QueueExact ==
    /\ {queue[i] : i \in 1..Len(queue)} =
         {t \in Threads : state[t] = "waiting" /\ result[t] = 0}
    /\ \A i, j \in 1..Len(queue) : queue[i] = queue[j] => i = j
    /\ queued = Len(queue) /\ queued <= MaxQueue

\* A free permit and a waiter never stay together: every path that frees a
\* permit or shortens the queue hands the permits on.
WorkConserving == queue # <<>> => in_use = Capacity

Waiting(q) == {q[i] : i \in 1..Len(q)}
Ahead(q, t, u) == \E i, j \in 1..Len(q) : i < j /\ q[i] = t /\ q[j] = u

\* FIFO: whoever is admitted leaves nobody behind who asked earlier and still
\* waits, and a waiter is never overtaken in the queue, not even by a caller
\* that arrives just as a permit is freed.
FirstComeFirstServed ==
    [][\A t \in Waiting(queue) \cap Waiting(queue') : \A u \in Threads \ {t} :
        /\ Ahead(queue, t, u) \/ u \notin Waiting(queue) => u \notin Holders' \ Holders
        /\ Ahead(queue', u, t) => Ahead(queue, u, t)]_vars

\* Nobody waits for ever: holders leave and the queue moves, so every waiter
\* is answered even if its own deadline never comes.
EveryWaiterAnswered ==
    \A t \in Threads : []<>(state[t] # "waiting")

\* The gate's counters, its queue and the threads agree, and no permit is idle
\* while a thread waits: PermitsExact, QueueExact and WorkConserving.
GateSound == PermitsExact /\ QueueExact /\ WorkConserving

-----------------------------------------------------------------------------
(***************************************************************************)
(* Proofs for every capacity, queue limit and set of threads.  The three    *)
(* invariants of the gate are inductive together, with the fact that only a *)
(* waiting thread has a result.                                             *)
(***************************************************************************)

Injective(q) == \A i, j \in 1..Len(q) : q[i] = q[j] => i = j

Inv ==
    /\ TypeOK
    /\ \A t \in Threads : state[t] # "waiting" => result[t] = 0
    /\ PermitsExact
    /\ QueueExact
    /\ WorkConserving

\* Who is admitted, or stands ahead of a waiter afterwards, stood ahead of it
\* in q, B being the holders before.
Order(q, B) ==
    \A t \in Waiting(q) \cap Waiting(queue') : \A u \in Threads :
        u \in Holders' \ B \/ Ahead(queue', u, t) => Ahead(q, u, t)

-----------------------------------------------------------------------------
(* The loop of admit(). *)

\* A non-empty set of numbers has a least one.
LEMMA LeastExists ==
    ASSUME NEW S \in SUBSET Nat, S # {}
    PROVE  \E p \in S : \A q \in S : p <= q
<1> DEFINE R == {ss \in Nat \X Nat : ss[1] < ss[2]}
<1>1. IsWellFoundedOn(R, Nat)
    BY NatLessThanWellFounded DEF OpToRel
<1>2. \E p \in S : \A q \in S : <<q, p>> \notin R
    <2> HIDE DEF R
    <2> QED BY <1>1, WFMin
<1>3. PICK p \in S : \A q \in S : <<q, p>> \notin R
    BY <1>2
<1>4. ASSUME NEW q \in S PROVE p <= q
    <2>1. q \in Nat /\ p \in Nat
        OBVIOUS
    <2>2. ~(q < p)
        BY <1>3, <2>1
    <2> QED BY <2>1, <2>2
<1> QED BY <1>4

\* The permits admit() hands out are finitely many distinct waiters.
LEMMA LiveFinite ==
    ASSUME NEW q \in Seq(Threads), NEW k \in 0..Len(q)
    PROVE  /\ Live(q, k) \subseteq Threads
           /\ IsFiniteSet(Live(q, k)) /\ Cardinality(Live(q, k)) \in Nat
<1>1. Live(q, k) \subseteq Threads
    BY DEF Live, Prefix
<1>2. IsFiniteSet(Live(q, k))
    BY <1>1, GateConstants, FS_Subset
<1> QED BY <1>1, <1>2, FS_CardinalityType

\* admit() never overruns the capacity, and leaves a waiter behind only when
\* all permits are out.
LEMMA AdmitLoop ==
    ASSUME NEW q \in Seq(Threads), NEW used \in Nat, used <= Capacity
    PROVE  LET k == PopCount(q, used) IN
           /\ k \in 0..Len(q)
           /\ used + Cardinality(Live(q, k)) <= Capacity
           /\ k < Len(q) => used + Cardinality(Live(q, k)) = Capacity
<1> DEFINE k == PopCount(q, used)
           S == Stops(q, used)
           card(j) == Cardinality(Live(q, j))
<1>1. Capacity \in Nat /\ Len(q) \in Nat
    BY GateConstants
<1>2. Len(q) \in S /\ S \in SUBSET Nat
    BY <1>1 DEF Stops
<1>3. k \in S /\ \A j \in S : k <= j
    <2>1. \E p \in S : \A j \in S : p <= j
        BY <1>2, LeastExists
    <2> QED BY <2>1 DEF PopCount
<1>4. k \in 0..Len(q)
    BY <1>3 DEF Stops
<1>5. used + card(k) <= Capacity
    <2>1. CASE k = 0
        <3>1. Live(q, 0) = {}
            BY <1>1 DEF Live, Prefix
        <3>2. card(0) = 0
            BY <3>1, FS_EmptySet
        <3> QED BY <2>1, <3>2, <1>1
    <2>2. CASE k # 0
        <3>1. k - 1 \in 0..Len(q) /\ k \in Nat
            BY <2>2, <1>4, <1>1
        <3>2. k - 1 \notin S
            BY <1>3, <3>1
        <3>3. card(k - 1) \in Nat /\ card(k) \in Nat
            BY <3>1, <1>4, LiveFinite
        <3>4. used + card(k - 1) < Capacity
            BY <3>1, <3>2, <3>3, <1>1 DEF Stops
        <3>5. card(k) <= card(k - 1) + 1
            <4> DEFINE A == Live(q, k - 1)
            <4>1. IsFiniteSet(A)
                BY <3>1, LiveFinite
            <4>2. Live(q, k) \subseteq A \cup {q[k]}
                <5>1. \A i \in 1..k : i \in 1..(k - 1) \/ i = k
                    BY <3>1
                <5> QED BY <5>1 DEF Live, Prefix
            <4>3. IsFiniteSet(A \cup {q[k]})
                  /\ Cardinality(A \cup {q[k]}) <= Cardinality(A) + 1
                <5> HIDE DEF A
                <5>1. /\ IsFiniteSet(A \cup {q[k]})
                      /\ Cardinality(A \cup {q[k]}) = IF q[k] \in A THEN Cardinality(A)
                                                     ELSE Cardinality(A) + 1
                    BY <4>1, FS_AddElement
                <5>2. Cardinality(A) \in Nat
                    BY <4>1, FS_CardinalityType
                <5> QED BY <5>1, <5>2
            <4>4. card(k) <= Cardinality(A \cup {q[k]})
                BY <4>2, <4>3, FS_Subset
            <4>5. Cardinality(A \cup {q[k]}) \in Nat
                BY <4>3, FS_CardinalityType
            <4> QED BY <4>3, <4>4, <4>5, <3>3
        <3> QED BY <3>3, <3>4, <3>5, <1>1
    <2> QED BY <2>1, <2>2
<1>6. k < Len(q) => used + card(k) = Capacity
    <2>1. card(k) \in Nat
        BY <1>4, LiveFinite
    <2>2. k < Len(q) => used + card(k) >= Capacity
        BY <1>3, <1>4, <1>1 DEF Stops
    <2> QED BY <2>1, <2>2, <1>5, <1>1
<1> QED BY <1>4, <1>5, <1>6

\* What admit() leaves: B are the holders and q the queue it starts from.
LEMMA AdmitKeeps ==
    ASSUME NEW q \in Seq(Threads), Injective(q), Len(q) <= MaxQueue,
           NEW res \in [Threads -> {-1, 0, 1, 2}],
           NEW B \in SUBSET Threads, Cardinality(B) <= Capacity,
           state' \in [Threads -> {"out", "waiting", "holding"}],
           late' \subseteq Threads, cancelled' \subseteq Threads,
           B = {t \in Threads : \/ state'[t] = "holding"
                                \/ state'[t] = "waiting" /\ res[t] = 1},
           Waiting(q) = {t \in Threads : state'[t] = "waiting" /\ res[t] = 0},
           \A t \in Threads : state'[t] # "waiting" => res[t] = 0,
           Admit(q, Len(q), Cardinality(B), res)
    PROVE  Inv' /\ Order(q, B)
<1> DEFINE used == Cardinality(B)
           k == PopCount(q, used)
           P == Prefix(q, k)
           L == Live(q, k)
<1>0. IsFiniteSet(B) /\ used \in Nat /\ Capacity \in Nat /\ Len(q) \in Nat
    BY GateConstants, FS_Subset, FS_CardinalityType
<1>1. /\ k \in 0..Len(q)
      /\ used + Cardinality(L) <= Capacity
      /\ k < Len(q) => used + Cardinality(L) = Capacity
    BY <1>0, AdmitLoop
<1>2. /\ queue' = SubSeq(q, k + 1, Len(q))
      /\ queued' = Len(q) - k
      /\ in_use' = used + Cardinality(L)
      /\ result' = [t \in Threads |-> IF t \in P THEN Verdict(t) ELSE res[t]]
    BY DEF Admit
<1> HIDE DEF used, k
<1>3. /\ queue' \in Seq(Threads) /\ Len(queue') = Len(q) - k
      /\ \A i \in 1..Len(queue') : queue'[i] = q[k + i]
    BY <1>1, <1>2
<1>4. /\ L \subseteq P /\ P \subseteq Waiting(q) /\ B \cap P = {}
      /\ \A t \in P : Verdict(t) \in {-1, 1, 2} /\ (t \in L <=> Verdict(t) = 1)
    BY <1>1 DEF Live, Prefix, Verdict, Waiting
<1>5. TypeOK'
    <2>1. result' \in [Threads -> {-1, 0, 1, 2}]
        BY <1>2, <1>4
    <2>2. IsFiniteSet(L) /\ Cardinality(L) \in Nat
        BY <1>1, LiveFinite
    <2> QED BY <2>1, <2>2, <1>0, <1>1, <1>2, <1>3 DEF TypeOK
<1>6. \A t \in Threads : state'[t] # "waiting" => result'[t] = 0
    BY <1>2, <1>4
<1>7. Holders' = B \cup L
    <2>1. ASSUME NEW t \in Threads PROVE t \in Holders' <=> t \in B \cup L
        BY <1>2, <1>4 DEF Holders, Granted
    <2> QED BY <2>1, <1>4 DEF Holders
<1>8. PermitsExact'
    <2>1. IsFiniteSet(L) /\ Cardinality(L) \in Nat
        BY <1>1, LiveFinite
    <2>2. B \cap L = {}
        BY <1>4
    <2>3. Cardinality(B \cup L) = Cardinality(B) + Cardinality(L) - Cardinality(B \cap L)
        BY <1>0, <2>1, FS_Union
    <2>4. Cardinality(B \cap L) = 0
        BY <2>2, FS_EmptySet
    <2> QED BY <1>0, <1>1, <1>2, <1>7, <2>1, <2>3, <2>4 DEF PermitsExact, used
<1>9. QueueExact'
    <2>1. {queue'[i] : i \in 1..Len(queue')} = Waiting(q) \ P
        <3>1. ASSUME NEW i \in 1..Len(queue')
              PROVE  queue'[i] \in Waiting(q) /\ queue'[i] \notin P
            BY <1>1, <1>3 DEF Waiting, Prefix, Injective
        <3>2. ASSUME NEW t \in Waiting(q), t \notin P
              PROVE  \E i \in 1..Len(queue') : queue'[i] = t
            <4>1. PICK j \in 1..Len(q) : q[j] = t
                BY DEF Waiting
            <4>2. j > k
                BY <1>1, <3>2, <4>1 DEF Prefix
            <4>3. j - k \in 1..Len(queue') /\ k + (j - k) = j
                BY <1>0, <1>1, <1>3, <4>1, <4>2
            <4> QED BY <1>3, <4>1, <4>3
        <3> QED BY <3>1, <3>2
    <2>2. Waiting(q) \ P = {t \in Threads : state'[t] = "waiting" /\ result'[t] = 0}
        BY <1>2, <1>4
    <2>3. \A i, j \in 1..Len(queue') : queue'[i] = queue'[j] => i = j
        BY <1>1, <1>3 DEF Injective
    <2>4. queued' = Len(queue') /\ queued' <= MaxQueue
        BY <1>0, <1>1, <1>2, <1>3, GateConstants
    <2> QED BY <2>1, <2>2, <2>3, <2>4 DEF QueueExact
<1>10. WorkConserving'
    <2>1. queue' # <<>> => k < Len(q)
        BY <1>0, <1>1, <1>3
    <2> QED BY <2>1, <1>1, <1>2 DEF WorkConserving
<1>11. Order(q, B)
    <2> SUFFICES ASSUME NEW t \in Waiting(queue'), NEW u \in Threads,
                        u \in Holders' \ B \/ Ahead(queue', u, t)
                 PROVE  Ahead(q, u, t)
        BY DEF Order
    <2>1. PICK i \in 1..Len(queue') : queue'[i] = t
        BY DEF Waiting
    <2>2. k + i \in 1..Len(q) /\ q[k + i] = t /\ k + i > k
        BY <1>0, <1>1, <1>3, <2>1
    <2>3. CASE u \in Holders' \ B
        <3>1. PICK j \in 1..k : q[j] = u
            BY <1>4, <1>7, <2>3 DEF Prefix
        <3>2. j \in 1..Len(q) /\ j < k + i
            BY <1>0, <1>1, <2>1, <3>1
        <3> QED BY <2>2, <3>1, <3>2 DEF Ahead
    <2>4. CASE Ahead(queue', u, t)
        <3>1. PICK a \in 1..Len(queue'), b \in 1..Len(queue') :
                a < b /\ queue'[a] = u /\ queue'[b] = t
            BY <2>4 DEF Ahead
        <3>2. k + a \in 1..Len(q) /\ k + b \in 1..Len(q) /\ k + a < k + b
            BY <1>0, <1>1, <1>3, <3>1
        <3> QED BY <1>3, <3>1, <3>2 DEF Ahead
    <2> QED BY <2>3, <2>4
<1> QED BY <1>5, <1>6, <1>8, <1>9, <1>10, <1>11 DEF Inv

-----------------------------------------------------------------------------
(* The actions. *)

\* in_use counts a finite set.
LEMMA HoldersFinite ==
    ASSUME Inv
    PROVE  /\ Holders \subseteq Threads /\ IsFiniteSet(Holders)
           /\ Cardinality(Holders) = in_use /\ in_use \in Nat /\ in_use <= Capacity
           /\ Capacity \in Nat /\ MaxQueue \in Nat
<1>1. Holders \subseteq Threads
    BY DEF Holders
<1>2. IsFiniteSet(Holders)
    BY <1>1, GateConstants, FS_Subset
<1> QED BY <1>1, <1>2, GateConstants DEF Inv, PermitsExact, TypeOK

\* One holder fewer.
LEMMA OneLess ==
    ASSUME Inv, NEW t \in Holders
    PROVE  Cardinality(Holders \ {t}) = in_use - 1 /\ in_use > 0
<1>1. Cardinality(Holders \ {t}) = Cardinality(Holders) - 1
    BY HoldersFinite, FS_RemoveElement
<1>2. Cardinality(Holders \ {t}) \in Nat
    BY HoldersFinite, FS_RemoveElement, FS_CardinalityType
<1> QED BY <1>1, <1>2, HoldersFinite

\* lmb_run_gate_init leaves an empty gate.
LEMMA InitInv == Init => Inv
<1> SUFFICES ASSUME Init PROVE Inv
    OBVIOUS
<1>1. TypeOK /\ \A t \in Threads : state[t] # "waiting" => result[t] = 0
    BY DEF Init, TypeOK
<1>2. PermitsExact
    <2>1. Holders = {}
        BY DEF Init, Holders, Granted
    <2> QED BY <2>1, FS_EmptySet, GateConstants DEF Init, PermitsExact
<1>3. QueueExact /\ WorkConserving
    BY GateConstants DEF Init, QueueExact, WorkConserving
<1> QED BY <1>1, <1>2, <1>3 DEF Inv

\* The fast path takes a free permit past an empty queue.
LEMMA EnterFastInv ==
    ASSUME Inv, NEW t \in Threads, EnterFast(t)
    PROVE  Inv' /\ Order(queue, Holders)
<1>1. /\ state[t] = "out" /\ queue = <<>> /\ in_use < Capacity
      /\ in_use' = in_use + 1 /\ state' = [state EXCEPT ![t] = "holding"]
      /\ queue' = queue /\ queued' = queued /\ result' = result
      /\ late' = late /\ cancelled' = cancelled
    BY DEF EnterFast, FastPath
<1>2. /\ TypeOK /\ QueueExact
      /\ \A u \in Threads : state[u] # "waiting" => result[u] = 0
    BY DEF Inv
<1>3. TypeOK'
    BY <1>1, <1>2 DEF TypeOK
<1>4. \A u \in Threads : state'[u] # "waiting" => result'[u] = 0
    BY <1>1, <1>2 DEF TypeOK
<1>5. Holders' = Holders \cup {t} /\ t \notin Holders
    BY <1>1, <1>2 DEF Holders, Granted, TypeOK
<1>6. PermitsExact'
    <2>1. Cardinality(Holders \cup {t}) = Cardinality(Holders) + 1
        BY <1>5, HoldersFinite, FS_AddElement
    <2> QED BY <1>1, <1>5, <2>1, HoldersFinite DEF PermitsExact
<1>7. QueueExact' /\ WorkConserving'
    BY <1>1, <1>2 DEF QueueExact, WorkConserving, TypeOK
<1>8. Order(queue, Holders)
    BY <1>1 DEF Order, Waiting
<1> QED BY <1>3, <1>4, <1>6, <1>7, <1>8 DEF Inv

\* A caller that finds no permit is linked in once.
LEMMA EnterQueueInv ==
    ASSUME Inv, NEW t \in Threads, EnterQueue(t)
    PROVE  Inv' /\ Order(queue, Holders)
<1>1. /\ state[t] = "out" /\ (queue # <<>> \/ ~(in_use < Capacity))
      /\ queued < MaxQueue
      /\ queue' = Append(queue, t) /\ queued' = queued + 1
      /\ state' = [state EXCEPT ![t] = "waiting"]
      /\ in_use' = in_use /\ result' = result
      /\ late' = late /\ cancelled' = cancelled
    BY DEF EnterQueue, FastPath, Enqueued
<1>2. /\ TypeOK /\ QueueExact /\ WorkConserving /\ PermitsExact
      /\ \A u \in Threads : state[u] # "waiting" => result[u] = 0
    BY DEF Inv
<1>3. result[t] = 0
    BY <1>1, <1>2
<1>4. /\ queue \in Seq(Threads) /\ queue' \in Seq(Threads)
      /\ Len(queue') = Len(queue) + 1 /\ Len(queue) \in Nat
      /\ \A i \in 1..Len(queue) : queue'[i] = queue[i]
      /\ queue'[Len(queue) + 1] = t
    BY <1>1, <1>2 DEF TypeOK
<1>5. TypeOK'
    BY <1>1, <1>2, <1>4 DEF TypeOK
<1>6. \A u \in Threads : state'[u] # "waiting" => result'[u] = 0
    BY <1>1, <1>2, <1>3 DEF TypeOK
<1>7. PermitsExact' /\ Holders' = Holders
    <2>1. Holders' = Holders
        BY <1>1, <1>2, <1>3 DEF Holders, Granted, TypeOK
    <2> QED BY <1>1, <1>2, <2>1 DEF PermitsExact
<1>8. QueueExact'
    <2>1. {queue'[i] : i \in 1..Len(queue')} = {queue[i] : i \in 1..Len(queue)} \cup {t}
        <3>1. \A i : i \in 1..Len(queue') <=> i \in 1..Len(queue) \/ i = Len(queue) + 1
            BY <1>4
        <3> QED BY <3>1, <1>4
    <2>2. {u \in Threads : state'[u] = "waiting" /\ result'[u] = 0} =
          {u \in Threads : state[u] = "waiting" /\ result[u] = 0} \cup {t}
        BY <1>1, <1>2, <1>3 DEF TypeOK
    <2>3. t \notin {queue[i] : i \in 1..Len(queue)}
        BY <1>1, <1>2 DEF QueueExact
    <2>4. \A i, j \in 1..Len(queue') : queue'[i] = queue'[j] => i = j
        BY <1>2, <1>4, <2>3 DEF QueueExact
    <2>5. queued' = Len(queue') /\ queued' <= MaxQueue
        BY <1>1, <1>2, <1>4, GateConstants DEF QueueExact
    <2> QED BY <1>2, <2>1, <2>2, <2>4, <2>5 DEF QueueExact
<1>9. WorkConserving'
    BY <1>1, <1>2, GateConstants DEF WorkConserving, PermitsExact, TypeOK
<1>10. Order(queue, Holders)
    <2> SUFFICES ASSUME NEW x \in Waiting(queue), NEW u \in Threads,
                        Ahead(queue', u, x)
                 PROVE  Ahead(queue, u, x)
        BY <1>7 DEF Order
    <2>1. PICK a \in 1..Len(queue'), b \in 1..Len(queue') :
            a < b /\ queue'[a] = u /\ queue'[b] = x
        BY DEF Ahead
    <2>2. x # t
        BY <1>1, <1>2 DEF QueueExact, Waiting
    <2>3. a \in 1..Len(queue) /\ b \in 1..Len(queue)
        BY <1>4, <2>1, <2>2
    <2> QED BY <1>4, <2>1, <2>3 DEF Ahead
<1> QED BY <1>5, <1>6, <1>7, <1>8, <1>9, <1>10 DEF Inv

\* A granted waiter becomes a holder without a new permit.
LEMMA WakeAdmittedInv ==
    ASSUME Inv, NEW t \in Threads, WakeAdmitted(t)
    PROVE  Inv' /\ Order(queue, Holders)
<1>1. /\ state[t] = "waiting" /\ result[t] = 1
      /\ state' = [state EXCEPT ![t] = "holding"]
      /\ result' = [result EXCEPT ![t] = 0]
      /\ late' = late \ {t} /\ queue' = queue /\ queued' = queued
      /\ in_use' = in_use /\ cancelled' = cancelled
    BY DEF WakeAdmitted, Forget
<1>2. /\ TypeOK /\ QueueExact /\ WorkConserving /\ PermitsExact
      /\ \A u \in Threads : state[u] # "waiting" => result[u] = 0
    BY DEF Inv
<1>3. TypeOK' /\ \A u \in Threads : state'[u] # "waiting" => result'[u] = 0
    BY <1>1, <1>2 DEF TypeOK
<1>4. Holders' = Holders
    BY <1>1, <1>2 DEF Holders, Granted, TypeOK
<1>5. PermitsExact' /\ WorkConserving'
    BY <1>1, <1>2, <1>4 DEF PermitsExact, WorkConserving
<1>6. {u \in Threads : state'[u] = "waiting" /\ result'[u] = 0} =
      {u \in Threads : state[u] = "waiting" /\ result[u] = 0}
    BY <1>1, <1>2 DEF TypeOK
<1>7. QueueExact'
    BY <1>1, <1>2, <1>6 DEF QueueExact
<1>8. Order(queue, Holders)
    BY <1>1, <1>4 DEF Order
<1> QED BY <1>3, <1>5, <1>7, <1>8 DEF Inv

\* A waiter admit() refused leaves with no permit and no place.
LEMMA WakeRefusedInv ==
    ASSUME Inv, NEW t \in Threads, WakeRefused(t)
    PROVE  Inv' /\ Order(queue, Holders)
<1>1. /\ state[t] = "waiting" /\ result[t] \in {-1, 2}
      /\ state' = [state EXCEPT ![t] = "out"]
      /\ result' = [result EXCEPT ![t] = 0]
      /\ late' = late \ {t} /\ queue' = queue /\ queued' = queued
      /\ in_use' = in_use /\ cancelled' = cancelled
    BY DEF WakeRefused, Forget, Returns
<1>2. /\ TypeOK /\ QueueExact /\ WorkConserving /\ PermitsExact
      /\ \A u \in Threads : state[u] # "waiting" => result[u] = 0
    BY DEF Inv
<1>3. TypeOK' /\ \A u \in Threads : state'[u] # "waiting" => result'[u] = 0
    BY <1>1, <1>2 DEF TypeOK
<1>4. Holders' = Holders
    BY <1>1, <1>2 DEF Holders, Granted, TypeOK
<1>5. PermitsExact' /\ WorkConserving'
    BY <1>1, <1>2, <1>4 DEF PermitsExact, WorkConserving
<1>6. {u \in Threads : state'[u] = "waiting" /\ result'[u] = 0} =
      {u \in Threads : state[u] = "waiting" /\ result[u] = 0}
    BY <1>1, <1>2 DEF TypeOK
<1>7. QueueExact'
    BY <1>1, <1>2, <1>6 DEF QueueExact
<1>8. Order(queue, Holders)
    BY <1>1, <1>4 DEF Order
<1> QED BY <1>3, <1>5, <1>7, <1>8 DEF Inv

\* A thread that returns without a permit it had been granted, or after
\* having used one, hands it to the queue.
LEMMA HandOnInv ==
    ASSUME Inv, NEW t \in Holders, NEW res \in [Threads -> {-1, 0, 1, 2}],
           res = [result EXCEPT ![t] = 0],
           Admit(queue, queued, in_use - 1, res), Returns(t)
    PROVE  Inv' /\ Order(queue, Holders)
<1> DEFINE B == Holders \ {t}
<1>1. /\ TypeOK /\ QueueExact
      /\ \A u \in Threads : state[u] # "waiting" => result[u] = 0
    BY DEF Inv
<1>2. /\ state' = [state EXCEPT ![t] = "out"] /\ late' = late \ {t}
      /\ cancelled' = cancelled /\ t \in Threads
    BY DEF Returns, Holders
<1>3. state' \in [Threads -> {"out", "waiting", "holding"}]
      /\ late' \subseteq Threads /\ cancelled' \subseteq Threads
    BY <1>1, <1>2 DEF TypeOK
<1>4. Cardinality(B) = in_use - 1 /\ Cardinality(B) <= Capacity
    BY OneLess, HoldersFinite
<1>5. B = {u \in Threads : \/ state'[u] = "holding"
                           \/ state'[u] = "waiting" /\ res[u] = 1}
    BY <1>1, <1>2 DEF Holders, Granted, TypeOK
<1>6. Waiting(queue) = {u \in Threads : state'[u] = "waiting" /\ res[u] = 0}
    <2>1. Waiting(queue) = {u \in Threads : state[u] = "waiting" /\ result[u] = 0}
        BY <1>1 DEF QueueExact, Waiting
    <2> QED BY <2>1, <1>1, <1>2 DEF Holders, Granted, TypeOK
<1>7. \A u \in Threads : state'[u] # "waiting" => res[u] = 0
    BY <1>1, <1>2 DEF TypeOK
<1>8. /\ queue \in Seq(Threads) /\ Injective(queue)
      /\ queued = Len(queue) /\ Len(queue) <= MaxQueue
    BY <1>1 DEF TypeOK, QueueExact, Injective
<1>9. B \in SUBSET Threads
    BY DEF Holders
<1>10. Admit(queue, Len(queue), Cardinality(B), res)
    BY <1>4, <1>8
<1>11. Inv' /\ Order(queue, B)
    <2> HIDE DEF B
    <2> QED BY <1>3, <1>4, <1>5, <1>6, <1>7, <1>8, <1>9, <1>10, AdmitKeeps
<1> QED BY <1>11 DEF Order

\* A cancelled grant returns its permit through admit().
LEMMA WakeGivesBackInv ==
    ASSUME Inv, NEW t \in Threads, WakeGivesBack(t)
    PROVE  Inv' /\ Order(queue, Holders)
<1>1. t \in Holders
    BY DEF WakeGivesBack, Holders, Granted
<1>2. Forget(t) \in [Threads -> {-1, 0, 1, 2}]
    BY DEF Forget, Inv, TypeOK
<1>3. Admit(queue, queued, in_use - 1, Forget(t)) /\ Returns(t)
    BY DEF WakeGivesBack
<1> QED BY <1>1, <1>2, <1>3, HandOnInv DEF Forget

\* lmb_run_gate_leave hands its permit on through admit().
LEMMA LeaveInv ==
    ASSUME Inv, NEW t \in Threads, Leave(t)
    PROVE  Inv' /\ Order(queue, Holders)
<1>1. t \in Holders
    BY DEF Leave, Holders
<1>2. in_use > 0
    BY <1>1, OneLess
<1>3. result = [result EXCEPT ![t] = 0] /\ result \in [Threads -> {-1, 0, 1, 2}]
    BY DEF Leave, Inv, TypeOK
<1>4. Admit(queue, queued, in_use - 1, result) /\ Returns(t)
    BY <1>2 DEF Leave
<1> QED BY <1>1, <1>3, <1>4, HandOnInv

\* Unlinking one waiter keeps the others and their order.
LEMMA Unlinked ==
    ASSUME NEW q \in Seq(Threads), Injective(q), NEW t \in Waiting(q)
    PROVE  LET w == Without(q, t) IN
           /\ w \in Seq(Threads) /\ Len(w) = Len(q) - 1 /\ Injective(w)
           /\ Waiting(w) = Waiting(q) \ {t}
           /\ \A u, x : Ahead(w, u, x) => Ahead(q, u, x)
<1> DEFINE p == CHOOSE i \in 1..Len(q) : q[i] = t
           w == Without(q, t)
           at(i) == IF i < p THEN i ELSE i + 1
<1>1. p \in 1..Len(q) /\ q[p] = t
    BY DEF Waiting
<1>2. w = [i \in 1..(Len(q) - 1) |-> IF i < p THEN q[i] ELSE q[i + 1]]
    BY DEF Without
<1> HIDE DEF p, w
<1>3. /\ w \in Seq(Threads) /\ Len(w) = Len(q) - 1
      /\ \A i \in 1..Len(w) : at(i) \in 1..Len(q) /\ w[i] = q[at(i)] /\ at(i) # p
    BY <1>1, <1>2
<1>4. \A i, j \in 1..Len(w) : (i < j => at(i) < at(j)) /\ (at(i) = at(j) => i = j)
    BY <1>1, <1>3
<1>5. Injective(w)
    BY <1>3, <1>4 DEF Injective
<1>6. Waiting(w) = Waiting(q) \ {t}
    <2>1. ASSUME NEW i \in 1..Len(w) PROVE w[i] \in Waiting(q) /\ w[i] # t
        BY <1>1, <1>3 DEF Waiting, Injective
    <2>2. ASSUME NEW j \in 1..Len(q), q[j] # t PROVE \E i \in 1..Len(w) : w[i] = q[j]
        <3>1. CASE j < p
            BY <1>1, <1>3, <3>1
        <3>2. CASE j > p
            <4>1. j - 1 \in 1..Len(w) /\ at(j - 1) = j
                BY <1>1, <1>3, <3>2
            <4> QED BY <1>3, <4>1
        <3> QED BY <1>1, <2>2, <3>1, <3>2
    <2> QED BY <2>1, <2>2 DEF Waiting
<1>7. ASSUME NEW u, NEW x, Ahead(w, u, x) PROVE Ahead(q, u, x)
    <2>1. PICK a \in 1..Len(w), b \in 1..Len(w) : a < b /\ w[a] = u /\ w[b] = x
        BY <1>7 DEF Ahead
    <2>2. at(a) \in 1..Len(q) /\ at(b) \in 1..Len(q) /\ at(a) < at(b)
          /\ q[at(a)] = u /\ q[at(b)] = x
        BY <1>3, <1>4, <2>1
    <2> HIDE DEF at
    <2> QED BY <2>2 DEF Ahead
<1> QED BY <1>3, <1>5, <1>6, <1>7 DEF w

\* A late or cancelled waiter unlinks itself, then calls admit().
LEMMA WakeGivesUpInv ==
    ASSUME Inv, NEW t \in Threads, WakeGivesUp(t)
    PROVE  Inv' /\ Order(queue, Holders)
<1> DEFINE w == Without(queue, t)
           res == Forget(t)
<1>1. /\ TypeOK /\ QueueExact
      /\ \A u \in Threads : state[u] # "waiting" => result[u] = 0
    BY DEF Inv
<1>2. /\ state[t] = "waiting" /\ result[t] = 0
      /\ state' = [state EXCEPT ![t] = "out"] /\ late' = late \ {t}
      /\ cancelled' = cancelled
      /\ Admit(w, queued - 1, in_use, res)
    BY DEF WakeGivesUp, Returns
<1>3. /\ queue \in Seq(Threads) /\ Injective(queue) /\ t \in Waiting(queue)
      /\ queued = Len(queue) /\ Len(queue) \in Nat /\ Len(queue) <= MaxQueue
    BY <1>1, <1>2 DEF TypeOK, QueueExact, Injective, Waiting
<1>4. /\ w \in Seq(Threads) /\ Len(w) = Len(queue) - 1 /\ Injective(w)
      /\ Waiting(w) = Waiting(queue) \ {t}
      /\ \A u, x : Ahead(w, u, x) => Ahead(queue, u, x)
    BY <1>3, Unlinked
<1>5. state' \in [Threads -> {"out", "waiting", "holding"}]
      /\ late' \subseteq Threads /\ cancelled' \subseteq Threads
      /\ res \in [Threads -> {-1, 0, 1, 2}]
    BY <1>1, <1>2 DEF TypeOK, Forget
<1>6. Holders = {u \in Threads : \/ state'[u] = "holding"
                                 \/ state'[u] = "waiting" /\ res[u] = 1}
    BY <1>1, <1>2 DEF Holders, Granted, TypeOK, Forget
<1>7. Waiting(w) = {u \in Threads : state'[u] = "waiting" /\ res[u] = 0}
    <2>1. Waiting(queue) = {u \in Threads : state[u] = "waiting" /\ result[u] = 0}
        BY <1>1 DEF QueueExact, Waiting
    <2> QED BY <2>1, <1>1, <1>2, <1>4 DEF TypeOK, Forget
<1>8. \A u \in Threads : state'[u] # "waiting" => res[u] = 0
    BY <1>1, <1>2 DEF TypeOK, Forget
<1>9. Len(w) <= MaxQueue /\ Admit(w, Len(w), Cardinality(Holders), res)
    BY <1>2, <1>3, <1>4, HoldersFinite
<1>10. Inv' /\ Order(w, Holders)
    <2>1. Holders \in SUBSET Threads /\ Cardinality(Holders) <= Capacity
        BY HoldersFinite
    <2> HIDE DEF w, res
    <2> QED BY <1>4, <1>5, <1>6, <1>7, <1>8, <1>9, <2>1, AdmitKeeps
<1>11. Waiting(queue') \subseteq Waiting(w)
    <2> DEFINE k == PopCount(w, in_use)
    <2>1. k \in 0..Len(w)
        BY <1>4, HoldersFinite, AdmitLoop
    <2>2. queue' = SubSeq(w, k + 1, Len(w))
        BY <1>2 DEF Admit
    <2> HIDE DEF w, k
    <2>3. Len(queue') = Len(w) - k /\ \A i \in 1..Len(queue') : queue'[i] = w[k + i]
        BY <1>4, <2>1, <2>2
    <2>4. \A i \in 1..Len(queue') : k + i \in 1..Len(w)
        BY <1>4, <2>1, <2>3
    <2> QED BY <2>3, <2>4 DEF Waiting
<1> QED BY <1>4, <1>10, <1>11 DEF Order

\* Deadlines and cancellation change nothing the gate counts.
LEMMA EnvironmentInv ==
    ASSUME Inv, NEW t \in Threads, DeadlinePasses(t) \/ CancelChanges(t)
    PROVE  Inv' /\ Order(queue, Holders)
<1>1. /\ queue' = queue /\ queued' = queued /\ in_use' = in_use
      /\ state' = state /\ result' = result
      /\ late' \subseteq late \cup {t} /\ cancelled' \subseteq cancelled \cup {t}
    BY DEF DeadlinePasses, CancelChanges
<1>2. Holders' = Holders
    BY <1>1 DEF Holders, Granted
<1>3. Inv'
    BY <1>1, <1>2 DEF Inv, TypeOK, PermitsExact, QueueExact, WorkConserving
<1> QED BY <1>1, <1>2, <1>3 DEF Order

\* Every step of the gate keeps the invariant and the order of arrival.
LEMMA StepInv ==
    ASSUME Inv, [Next]_vars
    PROVE  Inv' /\ Order(queue, Holders)
<1>1. CASE UNCHANGED vars
    <2>1. /\ queue' = queue /\ queued' = queued /\ in_use' = in_use /\ state' = state
          /\ result' = result /\ late' = late /\ cancelled' = cancelled
        BY <1>1 DEF vars
    <2>2. Holders' = Holders
        BY <2>1 DEF Holders, Granted
    <2>3. Inv'
        BY <2>1, <2>2 DEF Inv, TypeOK, PermitsExact, QueueExact, WorkConserving
    <2> QED BY <2>1, <2>2, <2>3 DEF Order
<1>2. ASSUME NEW t \in Threads, EnterFast(t) PROVE Inv' /\ Order(queue, Holders)
    BY <1>2, EnterFastInv
<1>3. ASSUME NEW t \in Threads, EnterQueue(t) PROVE Inv' /\ Order(queue, Holders)
    BY <1>3, EnterQueueInv
<1>4. ASSUME NEW t \in Threads, Wake(t) PROVE Inv' /\ Order(queue, Holders)
    BY <1>4, WakeAdmittedInv, WakeGivesBackInv, WakeRefusedInv, WakeGivesUpInv DEF Wake
<1>5. ASSUME NEW t \in Threads, Leave(t) PROVE Inv' /\ Order(queue, Holders)
    BY <1>5, LeaveInv
<1>6. ASSUME NEW t \in Threads, DeadlinePasses(t) \/ CancelChanges(t)
      PROVE  Inv' /\ Order(queue, Holders)
    BY <1>6, EnvironmentInv
<1> QED BY <1>1, <1>2, <1>3, <1>4, <1>5, <1>6 DEF Next

-----------------------------------------------------------------------------
\* The invariant holds in every behaviour.
LEMMA InvAlways == Spec => []Inv
BY InitInv, StepInv, PTL DEF Spec

\* lmb_run_gate_enter and _leave never lose a permit and never give out more
\* than the capacity, for any number of threads.
THEOREM PermitsCorrect == Spec => []PermitsExact
<1>1. Inv => PermitsExact
    BY DEF Inv
<1> QED BY <1>1, InvAlways, PTL

\* The queue holds exactly the unanswered waiters, within its limit.
THEOREM QueueCorrect == Spec => []QueueExact
<1>1. Inv => QueueExact
    BY DEF Inv
<1> QED BY <1>1, InvAlways, PTL

\* admit() is called wherever a permit may have become free.
THEOREM WorkConservingCorrect == Spec => []WorkConserving
<1>1. Inv => WorkConserving
    BY DEF Inv
<1> QED BY <1>1, InvAlways, PTL

\* Admission is first come, first served.
THEOREM FifoCorrect == Spec => FirstComeFirstServed
<1>1. ASSUME Inv, [Next]_vars
      PROVE  [\A t \in Waiting(queue) \cap Waiting(queue') : \A u \in Threads \ {t} :
                /\ Ahead(queue, t, u) \/ u \notin Waiting(queue)
                     => u \notin Holders' \ Holders
                /\ Ahead(queue', u, t) => Ahead(queue, u, t)]_vars
    <2>1. Order(queue, Holders)
        BY <1>1, StepInv
    <2> SUFFICES ASSUME NEW t \in Waiting(queue) \cap Waiting(queue'),
                        NEW u \in Threads \ {t}
                 PROVE  /\ Ahead(queue, t, u) \/ u \notin Waiting(queue)
                             => u \notin Holders' \ Holders
                        /\ Ahead(queue', u, t) => Ahead(queue, u, t)
        OBVIOUS
    <2>2. queue \in Seq(Threads) /\ Injective(queue) /\ Len(queue) \in Nat
        BY <1>1 DEF Inv, TypeOK, QueueExact, Injective
    <2>3. Ahead(queue, u, t) => u \in Waiting(queue) /\ ~Ahead(queue, t, u)
        BY <2>2 DEF Ahead, Waiting, Injective
    <2> QED BY <2>1, <2>3 DEF Order
<1> QED BY <1>1, InvAlways, PTL DEF Spec, FirstComeFirstServed

\* Counters, queue and threads agree, for any number of threads.
THEOREM GateSoundCorrect == Spec => []GateSound
BY PermitsCorrect, QueueCorrect, WorkConservingCorrect, PTL DEF GateSound
=============================================================================
