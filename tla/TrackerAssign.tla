---------------------------- MODULE TrackerAssign ----------------------------
(* Who should hold what, and who is there (tracker.c, lumabri_inventory.h):   *)
(* the tracker assigns experts to executors (EASSIGN) rarest first, and the   *)
(* slice with the fewest donors to a Segment node (SEG_ASSIGN); it counts     *)
(* what it promised as covered until the node registers it or gives it back.  *)
(* EASSIGN counts under one lock, chooses outside it and stores its promise   *)
(* under the lock again, so several askers overlap. The computers of a        *)
(* household are known by signed resource reports, one machine per            *)
(* connection, forgotten on disconnect or after a silence. The three tables   *)
(* share nothing.                                                             *)
EXTENDS Integers, FiniteSets
CONSTANTS Executor,     \* nodes asking for experts
          Cell, Layer,
          LayerOf,      \* the routed layer of a cell (layer, expert)
          Order,        \* Order[k][n]: rank of node n's name hash at cell k
          Capacity,     \* experts a node can hold
          Keep,         \* EASSIGN_KEEP_REPLICAS
          Donor, Slice, \* Segment nodes and the origin's fallback slices
          Machine, Conn, MaxRows,   \* computers, connections, LMB_INVENTORY_MAX
          None
VARIABLES held,     \* Executor -> registered bitmap, or None (peer slot absent)
          promise,  \* Executor -> promised bitmap, or None
          asked,    \* Executor -> the choice computed and not yet promised, or None
          plan,     \* Executor -> the assignment it is loading, or None
          lapsed,   \* whether a node has died or gone stale
          seg,      \* Donor -> its live Segment slice, or None
          offer,    \* Donor -> its promised slice, or None
          back,     \* whether a donor has died, gone stale or given an offer back
          rows,     \* active machine slots: [id, conn]
          quiet,    \* active machine slots past LMB_INVENTORY_TTL_MS
          open,     \* open connections
          listed    \* the machines of the last MACHINE_LIST reply
experts == <<held, promise, asked, plan, lapsed>>
donors == <<seg, offer, back>>
inventory == <<rows, quiet, open, listed>>
vars == <<experts, donors, inventory>>

(* What is assumed of the constants: finite sets of nodes, at least one copy  *)
(* to keep, and a rank of every node at every cell.                           *)
AssignConstants ==
    /\ IsFiniteSet(Executor) /\ IsFiniteSet(Donor) /\ None \notin Slice
    /\ Keep \in Nat \ {0} /\ MaxRows \in Nat
    /\ Order \in [Cell -> [Executor -> Int]]

Init == /\ held \in [Executor -> {None} \cup {S \in SUBSET Cell : S # {}}]
        /\ \A n \in Executor : held[n] # None => Cardinality(held[n]) <= Capacity[n]
        /\ promise = [n \in Executor |-> None] /\ asked = [n \in Executor |-> None]
        /\ plan = [n \in Executor |-> None] /\ lapsed = FALSE
        /\ seg = [n \in Donor |-> None] /\ offer = [n \in Donor |-> None] /\ back = FALSE
        /\ rows = {} /\ quiet = {} /\ open = {} /\ listed = {}

(* A live registration counts before a promise under the same name.           *)
Counted(n) == IF held[n] # None THEN held[n] ELSE IF promise[n] # None THEN promise[n] ELSE {}
Mine(n) == Counted(n)
Holders(k, n) == {m \in Executor \ {n} : k \in Counted(m)}
Count(k, n) == Cardinality(Holders(k, n))
(* Mutant: any copy beyond Keep others is surplus, whatever the ranks say.    *)
BugSurplus(n) == {k \in Mine(n) : Count(k, n) >= Keep}
(* The surplus copies of a node: at least Keep other holders rank before it.  *)
Surplus(n) == {k \in Mine(n) : Cardinality({m \in Holders(k, n) : Order[k][m] < Order[k][n]}) >= Keep}
(* Passes 2 and 3: whole least-covered layers while one fits, then scattered  *)
(* cells, rarest first. Neither takes back what pass 1 released.              *)
Free(n) == Cell \ Mine(n)
FreeIn(n, l) == {k \in Free(n) : LayerOf[k] = l}
Sum(S, n) ==
    LET sum[T \in SUBSET S] ==
            IF T = {} THEN 0 ELSE LET k == CHOOSE x \in T : TRUE IN Count(k, n) + sum[T \ {k}]
    IN  sum[S]
Fill(n, room) ==
    LET left(got) == room - Cardinality(got)
        fits(got) == {l \in Layer : /\ FreeIn(n, l) \ got # {}
                                    /\ Cardinality(FreeIn(n, l) \ got) <= left(got)}
        fill[got \in SUBSET Free(n)] ==
            IF left(got) = 0 \/ got = Free(n) THEN {got}
            ELSE IF fits(got) # {}
            THEN UNION {fill[got \cup FreeIn(n, l)] :
                   l \in {x \in fits(got) : \A y \in fits(got) :
                            Sum(FreeIn(n, x) \ got, n) <= Sum(FreeIn(n, y) \ got, n)}}
            ELSE UNION {fill[got \cup {k}] :
                   k \in {x \in Free(n) \ got : \A y \in Free(n) \ got : Count(x, n) <= Count(y, n)}}
    IN  fill[{}]

(* handle_eassign, first critical section and the three passes. A node that   *)
(* asks again has given up what it was loading.                               *)
Ask(n) ==
    LET kept == Mine(n) \ Surplus(n) IN
    /\ asked[n] = None
    /\ plan' = [plan EXCEPT ![n] = None]
    /\ \E fill \in Fill(n, Capacity[n] - Cardinality(kept)) :
          asked' = [asked EXCEPT ![n] = kept \cup fill]
    /\ UNCHANGED <<held, promise, lapsed>>
(* promise_store, then the reply.                                             *)
Promise(n) ==
    /\ asked[n] # None
    /\ promise' = [promise EXCEPT ![n] = asked[n]]
    /\ plan' = [plan EXCEPT ![n] = asked[n]]
    /\ asked' = [asked EXCEPT ![n] = None]
    /\ UNCHANGED <<held, lapsed>>
(* handle_ereg with a bitmap: the promise became a holding (promise_clear).   *)
Ereg(n) ==
    /\ plan[n] # None
    /\ held' = [held EXCEPT ![n] = plan[n]]
    /\ promise' = [promise EXCEPT ![n] = None]
    /\ plan' = [plan EXCEPT ![n] = None]
    /\ UNCHANGED <<asked, lapsed>>

(* A node vanishes: its registration goes stale and its promise times out     *)
(* (PROMISE_TTL_S).                                                           *)
ExecutorLapses(n) ==
    /\ held' = [held EXCEPT ![n] = None] /\ promise' = [promise EXCEPT ![n] = None]
    /\ asked' = [asked EXCEPT ![n] = None] /\ plan' = [plan EXCEPT ![n] = None]
    /\ lapsed' = TRUE
(* Mutant: promised slices are not counted.                                   *)
BugReplicas(s, n) == Cardinality({m \in Donor \ {n} : seg[m] = s})
(* The live ranges and the promises of other names on a slice; a donor that   *)
(* serves a slice and was promised it again counts twice.                     *)
Replicas(s, n) == Cardinality({m \in Donor \ {n} : seg[m] = s})
                    + Cardinality({m \in Donor \ {n} : offer[m] = s})
(* handle_segment_assign: a node keeps the slice it serves or was promised;   *)
(* otherwise it gets one with the fewest replicas. A node that asks while its *)
(* range is live has failed and started again.                                *)
SegAssign(n) ==
    /\ \E s \in IF seg[n] # None THEN {seg[n]} ELSE IF offer[n] # None THEN {offer[n]}
                ELSE {x \in Slice : \A y \in Slice : Replicas(x, n) <= Replicas(y, n)} :
          offer' = [offer EXCEPT ![n] = s]
    /\ back' = (back \/ seg[n] # None)
    /\ UNCHANGED seg
(* handle_segment_register consumes the promise.                              *)
SegRegister(n) ==
    /\ offer[n] # None
    /\ seg' = [seg EXCEPT ![n] = offer[n]]
    /\ offer' = [offer EXCEPT ![n] = None]
    /\ UNCHANGED back
(* handle_segment_assign_release: the donor failed before it was ready.       *)
SegRelease(n) ==
    /\ offer[n] # None
    /\ offer' = [offer EXCEPT ![n] = None]
    /\ back' = TRUE
    /\ UNCHANGED seg
(* The registration goes stale and the promise times out                      *)
(* (SEGMENT_PROMISE_TTL_S).                                                   *)
Lapse(n) ==
    /\ seg' = [seg EXCEPT ![n] = None] /\ offer' = [offer EXCEPT ![n] = None]
    /\ back' = TRUE
Accept(c) == c \notin open /\ open' = open \cup {c} /\ UNCHANGED <<rows, quiet, listed>>
(* Mutant: a machine may move to a new connection while the old one lives.    *)
BugReportBad(live, c, m) ==
    \/ \E r \in live : r.conn = c /\ r.id # m
    \/ [id |-> m, conn |-> c] \notin live /\ Cardinality(live) = MaxRows
(* The reasons to refuse a report, given the rows that are not silent.        *)
ReportBad(live, c, m) ==
    \/ \E r \in live : r.conn = c /\ r.id # m
    \/ \E r \in live : r.id = m /\ r.conn # c
    \/ [id |-> m, conn |-> c] \notin live /\ Cardinality(live) = MaxRows
(* Silent rows are dropped on the way; a second identity on a connection, a   *)
(* machine that is active on another one, and a full table are refused, and   *)
(* the refused connection ends (inventory_disconnect).                        *)
handle_machine_report(c, m) ==
    LET live == rows \ quiet
        bad == ReportBad(live, c, m)
    IN  /\ c \in open
        /\ rows' = IF bad THEN {r \in live : r.conn # c} ELSE live \cup {[id |-> m, conn |-> c]}
        /\ open' = IF bad THEN open \ {c} ELSE open
        /\ quiet' = {} /\ UNCHANGED listed
handle_machine_list ==
    /\ open # {}
    /\ rows' = rows \ quiet /\ quiet' = {}
    /\ listed' = {r.id : r \in rows'} /\ UNCHANGED open
inventory_disconnect(c) ==
    /\ c \in open /\ open' = open \ {c}
    /\ rows' = {r \in rows : r.conn # c} /\ quiet' = {r \in quiet : r.conn # c}
    /\ UNCHANGED listed
Silence(r) == r \notin quiet /\ quiet' = quiet \cup {r} /\ UNCHANGED <<rows, open, listed>>
ExpertsNext == \E n \in Executor : Ask(n) \/ Promise(n) \/ Ereg(n) \/ ExecutorLapses(n)
DonorsNext == \E n \in Donor : SegAssign(n) \/ SegRegister(n) \/ SegRelease(n) \/ Lapse(n)
InventoryNext ==
    \/ \E c \in Conn : \/ Accept(c) \/ inventory_disconnect(c)
                       \/ \E m \in Machine : handle_machine_report(c, m)
    \/ handle_machine_list \/ \E r \in rows : Silence(r)
Next == \/ ExpertsNext /\ UNCHANGED <<donors, inventory>>
        \/ DonorsNext /\ UNCHANGED <<experts, inventory>>
        \/ InventoryNext /\ UNCHANGED <<experts, donors>>
Spec == Init /\ [][Next]_vars
------------------------------------------------------------------------------
(* handle_eassign's comment: the replicas of an expert never all release it,  *)
(* even when they ask at the same time. Without a failure, an expert that is  *)
(* held or promised somewhere stays so.                                       *)
Covers(k) == \E n \in Executor : k \in Counted(n)
Keeps == ~lapsed' => \A k \in Cell : Covers(k) => Covers(k)'
ReleaseKeepsCoverage == [][Keeps]_vars
(* handle_segment_assign: while no donor fails, the donors of any two slices  *)
(* differ by at most one, however their requests and registrations overlap.   *)
DonorsBalanced ==
    ~back => \A s, t \in Slice :
        Cardinality({n \in Donor : s \in {seg[n], offer[n]}})
          <= Cardinality({n \in Donor : t \in {seg[n], offer[n]}}) + 1
(* handle_machine_report: no computer is counted twice, no connection speaks  *)
(* for two computers, and every row belongs to a connection still open, so    *)
(* the planner never adds one machine's memory up twice.                      *)
CountedOnce ==
    /\ \A r, q \in rows : r.id = q.id <=> r.conn = q.conn
    /\ \A r \in rows : r.conn \in open
    /\ Cardinality(rows) <= MaxRows
=============================================================================
