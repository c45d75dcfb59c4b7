---------------------------- MODULE TrackerPeers -----------------------------
(* The volatile half of the tracker: the peer table, the control connections  *)
(* that feed it, the leases and the route generation it hands to Segment      *)
(* nodes, and the telemetry it keeps about them (tracker.c).                  *)
(* g_lk makes each table update one step. What happens between two critical   *)
(* sections of one handler, in other connection threads, is interleaved.      *)
EXTENDS Integers, FiniteSets
CONSTANTS Conn,        \* control connections (file descriptors)
          Slot,        \* g_peers
          Storage,     \* names that REGISTER as maintainers
          Compute,     \* names that EREG or SREG
          Advert,      \* route shapes a Segment node may advertise
          ModelOf,     \* the model of an advert
          Model,
          SourceOf,    \* the address a name connects from
          MaxPerSource,\* g_max_names_per_source
          Span,        \* generations reserved by one boot (2^32)
          MaxBoot,     \* bound on tracker boots
          None
Name == Storage \cup Compute
VARIABLES slot,    \* Slot -> peer record or None
          conn,    \* Conn -> "closed", "open" or "closing"
          bind,    \* Conn -> the slot its thread calls ctrl, or None
          reply,   \* Conn -> slot whose Segment lease is still to be sent
          told,    \* Conn -> fencing epoch its node was last told, 0 if none
          gen,     \* g_segment_route_generation
          boot,    \* the durable generation epoch
          view,    \* the last route snapshot a chatter received
          issued   \* highest fencing epoch ever put in a lease
vars == <<slot, conn, bind, reply, told, gen, boot, view, issued>>

Timers == {"peer", "segment"}
Segment == [advert: Advert, epoch: Nat, live: BOOLEAN, tel: Nat]
PeerRec == [name: Name, model: Model \cup {None}, ctrl: Conn \cup {None},
            refs: Nat, expert: BOOLEAN,
            seg: Segment \cup {None}, old: SUBSET Timers]
Blank(n) == [name |-> n, model |-> None, ctrl |-> None, refs |-> 0,
             expert |-> FALSE, seg |-> None, old |-> Timers]
(* What is assumed of the constants: finite tables, generations that a boot   *)
(* can bump, and None outside of them.                                        *)
PeersConstants ==
    /\ IsFiniteSet(Conn) /\ IsFiniteSet(Slot) /\ Span \in Nat /\ Span > 1 /\ MaxBoot \in Nat
    /\ None \notin Slot /\ None \notin PeerRec /\ None \notin Segment
    /\ ModelOf \in [Advert -> Model]

Used(s) == slot[s] # None
Held(n) == {s \in Slot : Used(s) /\ slot[s].name = n}
(* Mutant: a thread's reference does not keep its slot from being reused.     *)
BugReclaimable(s) == Used(s) /\ "peer" \in slot[s].old /\ slot[s].ctrl = None
(* peer_slot_new: a free slot, else one that is stale, has no control         *)
(* connection and that no thread refers to.                                   *)
Reclaimable(s) == Used(s) /\ "peer" \in slot[s].old /\ slot[s].ctrl = None /\ slot[s].refs = 0
peer_slot_new == IF \E s \in Slot : ~Used(s) THEN {s \in Slot : ~Used(s)}
                 ELSE {s \in Slot : Reclaimable(s)}
(* identity_has_room: a name that is already in the table always has room.    *)
HasRoom(n) ==
    \/ Held(n) # {}
    \/ Cardinality({s \in Slot :
            /\ Used(s) /\ SourceOf[slot[s].name] = SourceOf[n]
            /\ "peer" \notin slot[s].old \/ slot[s].ctrl # None}) < MaxPerSource
Home(n) == IF Held(n) # {} THEN Held(n) ELSE peer_slot_new
Before(s, n) == IF s \in Held(n) THEN slot[s] ELSE Blank(n)

(* conn_thread, after a handler answered: the first peer becomes ctrl and is  *)
(* referenced; another one loses the control link and ends the connection.    *)
Adopt(c, s, rec) ==
    \/ /\ bind[c] = None
       /\ slot' = [slot EXCEPT ![s] = [rec EXCEPT !.refs = @ + 1]]
       /\ bind' = [bind EXCEPT ![c] = s] /\ conn' = conn
    \/ /\ bind[c] = s
       /\ slot' = [slot EXCEPT ![s] = rec] /\ UNCHANGED <<bind, conn>>
    \/ /\ bind[c] \notin {None, s}
       /\ slot' = [slot EXCEPT ![s] = IF rec.ctrl = c THEN [rec EXCEPT !.ctrl = None] ELSE rec]
       /\ conn' = [conn EXCEPT ![c] = "closing"] /\ bind' = bind
Ready(c) == conn[c] = "open" /\ reply[c] = None
Refuse(c) == /\ conn' = [conn EXCEPT ![c] = "closing"]
             /\ UNCHANGED <<slot, bind, reply, told, gen, boot, view, issued>>

Init == /\ slot = [s \in Slot |-> None] /\ conn = [c \in Conn |-> "closed"]
        /\ bind = [c \in Conn |-> None] /\ reply = [c \in Conn |-> None]
        /\ told = [c \in Conn |-> 0] /\ boot = 1 /\ gen = Span + 1
        /\ view = [gen |-> 0, routes |-> {}] /\ issued = 0

(* tracker_main's accept loop.                                                *)
Accept(c) == /\ conn[c] = "closed"
             /\ conn' = [conn EXCEPT ![c] = "open"]
             /\ UNCHANGED <<slot, bind, reply, told, gen, boot, view, issued>>

(* handle_register: storage peers. The answer is sent before the slot is      *)
(* adopted and its failure is ignored: the next read ends the connection.     *)
Register(c, n) ==
    /\ Ready(c)
    /\ IF HasRoom(n) /\ Home(n) # {}
       THEN \E s \in Home(n) :
              /\ Adopt(c, s, [Before(s, n) EXCEPT !.ctrl = c, !.old = @ \ {"peer"}])
              /\ UNCHANGED <<reply, told, gen, boot, view, issued>>
       ELSE Refuse(c)

(* handle_ereg: a compute name cannot mix models; a lost acknowledgement      *)
(* takes the control link back unless a newer connection already holds it.    *)
Ereg(c, n, m, acked) ==
    /\ Ready(c)
    /\ IF /\ HasRoom(n) /\ Home(n) # {}
          /\ \A s \in Held(n) : slot[s].seg # None => ModelOf[slot[s].seg.advert] = m
       THEN \E s \in Home(n) :
              LET rec == [Before(s, n) EXCEPT !.ctrl = c, !.model = m, !.expert = TRUE,
                                              !.old = @ \ {"peer"}]
              IN  /\ IF acked THEN Adopt(c, s, rec)
                     ELSE /\ slot' = [slot EXCEPT ![s] = [rec EXCEPT !.ctrl = None]]
                          /\ conn' = [conn EXCEPT ![c] = "closing"] /\ bind' = bind
                  /\ UNCHANGED <<reply, told, gen, boot, view, issued>>
       ELSE Refuse(c)

(* Mutant: a full generation window wraps into the next boot's.               *)
BugMayBump(k) == TRUE
(* segment_generation_bump: a boot's generations are not exceeded.            *)
MayBump(k) == (gen % Span) + k < Span
(* Mutant: a live range keeps its lease whatever it now advertises.           *)
BugKeepsLease(was, a) == was.seg # None /\ was.seg.live /\ "segment" \notin was.old
(* segment_route_shape_equal on a live, unexpired range.                      *)
KeepsLease(was, a) == /\ was.seg # None /\ was.seg.live
                      /\ "segment" \notin was.old /\ was.seg.advert = a
(* handle_segment_register, first critical section: a live range with the     *)
(* same shape keeps its lease; anything else gets a new lease whose fencing   *)
(* epoch is the bumped generation, and forgets its telemetry.                 *)
SegRegister(c, n, a) ==
    /\ Ready(c)
    /\ IF /\ HasRoom(n) /\ Home(n) # {}
          /\ \A s \in Held(n) : slot[s].expert => slot[s].model = ModelOf[a]
       THEN \E s \in Home(n) :
              LET was == Before(s, n)
                  keeps == KeepsLease(was, a)
                  g == IF keeps THEN gen ELSE gen + 1
                  seg == [advert |-> a, live |-> TRUE,
                          epoch |-> IF keeps THEN was.seg.epoch ELSE g,
                          tel |-> IF keeps /\ was.ctrl = c THEN was.seg.tel ELSE 0]
              IN  /\ ~keeps => MayBump(1)
                  /\ slot' = [slot EXCEPT ![s] =
                        [was EXCEPT !.seg = seg, !.ctrl = c, !.old = @ \ {"peer", "segment"},
                                    !.model = IF was.expert THEN @ ELSE ModelOf[a]]]
                  /\ gen' = g
                  /\ issued' = IF keeps THEN issued ELSE g
                  /\ reply' = [reply EXCEPT ![c] = s]
                  /\ UNCHANGED <<conn, bind, told, boot, view>>
       ELSE Refuse(c)
(* Second critical section: the lease is read again, sent, and the slot       *)
(* adopted. When the send fails the handler returns no peer, the thread ends  *)
(* and the slot keeps naming this connection.                                 *)
SegReply(c) ==
    /\ reply[c] # None /\ conn[c] = "open"
    /\ LET s == reply[c] IN
       /\ Used(s) /\ slot[s].seg # None
       /\ told' = [told EXCEPT ![c] = slot[s].seg.epoch]
       /\ Adopt(c, s, slot[s])
    /\ reply' = [reply EXCEPT ![c] = None]
    /\ UNCHANGED <<gen, boot, view, issued>>
SegReplyLost(c) ==
    /\ reply[c] # None /\ conn[c] = "open"
    /\ conn' = [conn EXCEPT ![c] = "closing"]
    /\ reply' = [reply EXCEPT ![c] = None]
    /\ UNCHANGED <<slot, bind, told, gen, boot, view, issued>>

(* handle_segment_compute_put: only the current control connection of the     *)
(* current lease may report; anything else ends the connection.               *)
ComputePut(c) ==
    /\ Ready(c) /\ told[c] # 0
    /\ IF /\ bind[c] # None /\ slot[bind[c]].seg # None
          /\ slot[bind[c]].seg.live /\ slot[bind[c]].ctrl = c
          /\ slot[bind[c]].seg.epoch = told[c]
       THEN /\ slot' = [slot EXCEPT ![bind[c]].seg.tel = told[c]]
            /\ UNCHANGED <<conn, bind, reply, told, gen, boot, view, issued>>
       ELSE Refuse(c)

(* handle_segment_routes and handle_segment_compute_get: expired ranges are   *)
(* retired, one generation each, before the snapshot is taken.                *)
Expired == {s \in Slot : /\ Used(s) /\ slot[s].seg # None
                         /\ slot[s].seg.live /\ "segment" \in slot[s].old}
Routes == {[name |-> slot[s].name, epoch |-> slot[s].seg.epoch, advert |-> slot[s].seg.advert] :
              s \in {x \in Slot : /\ Used(x) /\ slot[x].seg # None
                                  /\ slot[x].seg.live /\ "segment" \notin slot[x].old}}
SegRoutes ==
    LET g == gen + Cardinality(Expired) IN
    /\ MayBump(Cardinality(Expired))
    /\ slot' = [s \in Slot |-> IF s \in Expired THEN [slot[s] EXCEPT !.seg.live = FALSE] ELSE slot[s]]
    /\ gen' = g
    /\ view' = [gen |-> g, routes |-> Routes]
    /\ UNCHANGED <<conn, bind, reply, told, boot, issued>>

(* The end of conn_thread: ctrl_teardown.                                     *)
Close(c) ==
    /\ conn[c] # "closed" /\ reply[c] = None
    /\ conn' = [conn EXCEPT ![c] = "closed"]
    /\ slot' = IF bind[c] = None THEN slot
               ELSE [slot EXCEPT ![bind[c]].ctrl = IF @ = c THEN None ELSE @,
                                 ![bind[c]].refs = @ - 1]
    /\ bind' = [bind EXCEPT ![c] = None]
    /\ told' = [told EXCEPT ![c] = 0]
    /\ UNCHANGED <<reply, gen, boot, view, issued>>

(* g_stale_s passes without a heartbeat. Every heartbeat of a capability also *)
(* renews the peer, so the peer's timer is the last to run out.               *)
Age(s, t) ==
    /\ Used(s) /\ t \notin slot[s].old
    /\ t = "peer" => "segment" \in slot[s].old
    /\ slot' = [slot EXCEPT ![s].old = @ \cup {t}]
    /\ UNCHANGED <<conn, bind, reply, told, gen, boot, view, issued>>

(* The process dies, or segment_generation_bump aborts it, and restarts:      *)
(* segment_generation_init reserves the next durable epoch.                   *)
Restart ==
    /\ boot < MaxBoot
    /\ boot' = boot + 1 /\ gen' = boot' * Span + 1
    /\ slot' = [s \in Slot |-> None] /\ conn' = [c \in Conn |-> "closed"]
    /\ bind' = [c \in Conn |-> None] /\ reply' = [c \in Conn |-> None]
    /\ told' = [c \in Conn |-> 0]
    /\ UNCHANGED <<view, issued>>

Next == \/ \E c \in Conn :
              \/ Accept(c)
              \/ \E n \in Storage : Register(c, n)
              \/ \E n \in Compute, m \in Model, ok \in BOOLEAN : Ereg(c, n, m, ok)
              \/ \E n \in Compute, a \in Advert : SegRegister(c, n, a)
              \/ SegReply(c) \/ SegReplyLost(c) \/ ComputePut(c) \/ Close(c)
        \/ \E s \in Slot, t \in Timers : Age(s, t)
        \/ SegRoutes \/ Restart
Spec == Init /\ [][Next]_vars
------------------------------------------------------------------------------
(* peer_slot_new and ctrl_teardown: a slot that a connection thread still     *)
(* points at is neither free nor handed to another name, and is referenced    *)
(* exactly once per such thread.                                              *)
RefsExact == \A s \in Slot :
    LET users == {c \in Conn : bind[c] = s} IN
    IF Used(s) THEN slot[s].refs = Cardinality(users) ELSE users = {}
(* segment_generation_init and segment_generation_bump: the fencing epoch a   *)
(* chatter cached names one peer and one route shape, now and after restarts, *)
(* slot reuse and re-registration.                                            *)
EpochNamesRoute ==
    /\ \A r \in view.routes, s \in Slot :
          Used(s) /\ slot[s].seg # None /\ slot[s].seg.epoch = r.epoch
          => slot[s].name = r.name /\ slot[s].seg.advert = r.advert
    /\ \A s, t \in Slot :
          (s # t /\ Used(s) /\ Used(t) /\ slot[s].seg # None /\ slot[t].seg # None)
          => slot[s].seg.epoch # slot[t].seg.epoch
(* handle_segment_compute_put: stored telemetry was reported for the lease    *)
(* the slot holds now, never for an earlier one.                              *)
TelemetryIsOwn == \A s \in Slot :
    Used(s) /\ slot[s].seg # None => slot[s].seg.tel \in {0, slot[s].seg.epoch}
(* Both: a lease names its route and its measurements.                        *)
LeaseNamesRoute == EpochNamesRoute /\ TelemetryIsOwn
(* A slot stays while a thread points at it, and its lease names its route.   *)
PeersSound == RefsExact /\ LeaseNamesRoute
(* The route generation a chatter sees never goes back, restarts included,    *)
(* and every new lease is fenced above every lease issued before it.          *)
GenerationGrows ==
    [][/\ view'.gen >= view.gen
       /\ \A s \in Slot : (slot'[s] # None /\ slot'[s].seg # None) =>
             \/ slot'[s].seg.epoch > issued
             \/ slot[s] # None /\ slot[s].seg # None
                /\ slot'[s].seg.epoch = slot[s].seg.epoch]_vars
(* The comment of peer_slot_new promises that the table is a cap on live      *)
(* peers only: a slot's control connection is one that is still open.         *)
ControlIsOpen == \A s \in Slot :
    Used(s) /\ slot[s].ctrl # None => conn[slot[s].ctrl] # "closed"
=============================================================================
