--------------------------- MODULE GatewayDemand ---------------------------
(***************************************************************************)
(* What the API gateway knows about the demand for each model.  Every HTTP *)
(* request runs in a child process of its own that reports the start, the  *)
(* admission and the end of its chat over a private datagram pair; the     *)
(* parent counts them in one-second buckets and the elastic and portfolio  *)
(* controllers, forked from the parent, decide on the snapshot they        *)
(* inherit.  Idle evidence takes memory away from a model, so what matters *)
(* is that the gateway never believes in an idleness it did not observe:   *)
(* datagrams can be refused, a child can be killed between any two of them,*)
(* the table of models is small, and buckets are reused.                   *)
(* (runtime/lumabri_demand.h, lumabri_demand_runtime.h, the loop of        *)
(* api_serve in runtime/lumabri_api.h.)                                    *)
(***************************************************************************)
EXTENDS Integers, FiniteSets, Sequences, SequencesExt, FiniteSetsExt

CONSTANTS Slots,     \* children[LMB_API_CHILDREN], a set of naturals
          Model,     \* the models clients ask for
          Cells,     \* the entries of the table, LMB_DEMAND_MODELS
          Window,    \* LMB_DEMAND_WINDOW, in seconds
          MaxTime,   \* bound: the last second considered
          MaxReqs    \* bound: requests served in total

VARIABLES now,       \* the parent's monotonic clock, in seconds
          child,     \* slot -> the child process, or NoChild
          worker,    \* slot -> the parent's LmbDemandWorker
          table,     \* cell -> the parent's LmbDemandModel
          lost,      \* [ms, count]: the last telemetry loss; count is 0 or more than 0
          began,     \* history: <<model, second>> of every chat that began
          served     \* connections accepted so far, up to MaxReqs

vars == <<now, child, worker, table, lost, began, served>>

Never == -1
NoChild == [at |-> "none"]
NoWorker == [cell |-> 0, seq |-> 0, admitted |-> FALSE, ended |-> FALSE, uncertain |-> FALSE]
Untouched == [second |-> Never, started |-> 0]
NoEntry == [id |-> "none", pending |-> 0, admitted |-> 0, activity |-> Never,
            buckets |-> [b \in 0 .. Window - 1 |-> Untouched]]

-----------------------------------------------------------------------------
(* lmb_demand_count, for the one counter idleness depends on *)
Counted(e, starts) ==
  LET b == now % Window
      old == IF e.buckets[b].second = now THEN e.buckets[b]
             ELSE [Untouched EXCEPT !.second = now]
  IN [e EXCEPT !.buckets[b] = [old EXCEPT !.started = @ + starts], !.activity = now]

(* lmb_demand_summary: what the buckets say of the last Window seconds *)
Started(e) ==
  MapThenSumSet(LAMBDA b : e.buckets[b].started,
                {b \in 0 .. Window - 1 : /\ e.buckets[b].second # Never
                                         /\ now - e.buckets[b].second < Window})

(* Mutant: an entry is reused one second too early. *)
BugVacant(e) == e.pending = 0 /\ e.admitted = 0 /\ (e.activity = Never \/ now - e.activity >= Window - 1)

(* The condition of lmb_demand_model under which an entry may be replaced *)
Vacant(e) == e.pending = 0 /\ e.admitted = 0 /\ (e.activity = Never \/ now - e.activity >= Window + 1)

(* lmb_demand_model: the entry of m, the last vacant one, or none (0) *)
CellOf(m) ==
  LET known == {c \in Cells : table[c].id = m}
      vacant == {c \in Cells : Vacant(table[c])}
  IN IF known # {} THEN Min(known) ELSE IF vacant # {} THEN Max(vacant) ELSE 0

(* The parent's state, as the steps below thread it *)
Parent == [worker |-> worker, table |-> table, lost |-> lost]

(* lmb_demand_loss *)
Lose(p) == [p EXCEPT !.lost = [ms |-> now, count |-> 1]]

(* lmb_demand_worker_loss *)
WorkerLose(p, s) == Lose([p EXCEPT !.worker[s].uncertain = TRUE])

(* uncertain_workers, and lmb_demand_window_complete *)
Uncertain == {s \in Slots : worker[s].uncertain}
Complete ==
  /\ Uncertain = {}
  /\ now >= Window
  /\ lost.count = 0 \/ now - lost.ms >= Window + 1

(* The first test of lmb_demand_event *)
Expected(w, e) == e.seq = w.seq + 1 /\ ~w.ended

(* lmb_demand_event: one datagram of slot s.  An event that is not the next *)
(* of its worker, a start with no room in the table, or an admission or an  *)
(* end of a worker that never started makes the worker uncertain.           *)
Event(p, s, e) ==
  LET w == p.worker[s]
      bad == WorkerLose(p, s)
      good(c, f) == [p EXCEPT !.worker[s] = [f EXCEPT !.seq = e.seq], !.table[f.cell] = c]
      cell == CellOf(e.model)
      m == p.table[w.cell]
  IN CASE ~Expected(w, e) -> bad
       [] e.kind = "start" ->
            IF w.seq # 0 \/ w.cell # 0 \/ cell = 0 THEN bad
            ELSE LET fresh == IF p.table[cell].id = e.model THEN p.table[cell]
                              ELSE [NoEntry EXCEPT !.id = e.model]
                 IN good(Counted([fresh EXCEPT !.pending = @ + 1], 1), [w EXCEPT !.cell = cell])
       [] w.cell = 0 -> bad
       [] e.kind = "admit" ->
            IF w.admitted \/ m.pending = 0 THEN bad
            ELSE good(Counted([m EXCEPT !.pending = @ - 1, !.admitted = @ + 1], 0),
                      [w EXCEPT !.admitted = TRUE])
       [] OTHER ->
            IF (IF w.admitted THEN m.admitted ELSE m.pending) = 0 THEN bad
            ELSE good(Counted(IF w.admitted THEN [m EXCEPT !.admitted = @ - 1]
                              ELSE [m EXCEPT !.pending = @ - 1], 0),
                      [w EXCEPT !.ended = TRUE])

(* api_demand_drain: every datagram waiting in the channel of s *)
Drain(p, s) == FoldLeft(LAMBDA q, e : Event(q, s, e), p, child[s].queue)

(* lmb_demand_reap, after the last drain: a child killed or exiting with an *)
(* error is a loss, and so is one that never reported its end               *)
Reaped(p, s, uncertain) ==
  LET w == p.worker[s]
      q == IF uncertain THEN Lose(p) ELSE p
      m == q.table[w.cell]
      closed == Counted(IF w.admitted THEN [m EXCEPT !.admitted = @ - 1]
                        ELSE [m EXCEPT !.pending = @ - 1], 0)
      r == IF w.cell # 0 /\ ~w.ended THEN Lose([q EXCEPT !.table[w.cell] = closed]) ELSE q
  IN [r EXCEPT !.worker[s] = NoWorker]

-----------------------------------------------------------------------------
Init ==
  /\ now = 0
  /\ child = [s \in Slots |-> NoChild]
  /\ worker = [s \in Slots |-> NoWorker]
  /\ table = [c \in Cells |-> NoEntry]
  /\ lost = [ms |-> Never, count |-> 0]
  /\ began = {}
  /\ served = 0

Set(p) == worker' = p.worker /\ table' = p.table /\ lost' = p.lost

(* api_serve accepts a connection when a slot is free and forks a child *)
Accept(s) ==
  /\ child[s].at = "none"
  /\ s = Min({t \in Slots : child[t].at = "none"})
  /\ served < MaxReqs
  /\ served' = served + 1
  /\ \E m \in Model :
       child' = [child EXCEPT ![s] = [at |-> "new", model |-> m, seq |-> 0, since |-> Never,
                                      queue |-> <<>>, refused |-> FALSE, blind |-> FALSE]]
  /\ UNCHANGED <<now, worker, table, lost, began>>

(* api_demand_send: the sequence number moves on even when the kernel      *)
(* refuses the datagram; the child then exits with status 75               *)
Send(s, kind, next) ==
  LET c == child[s]
      e == [seq |-> c.seq + 1, kind |-> kind, model |-> c.model]
      since == IF kind = "start" THEN now ELSE c.since
  IN \/ child' = [child EXCEPT ![s] = [c EXCEPT !.seq = e.seq, !.queue = Append(@, e),
                                                !.at = next, !.since = since, !.blind = FALSE]]
     \/ child' = [child EXCEPT ![s] = [c EXCEPT !.seq = e.seq, !.refused = TRUE, !.at = next,
                                                !.since = since, !.blind = (kind = "start") \/ @]]

(* api_chat_run reports: the chat begins once the request is authorised, is *)
(* admitted or not, and ends; a request that is refused earlier (bad token, *)
(* unknown model) only exits                                                *)
Chat(s) ==
  /\ \/ child[s].at = "new" /\ Send(s, "start", "open") /\ began' = began \cup {<<child[s].model, now>>}
     \/ child[s].at = "open" /\ Send(s, "admit", "turn") /\ UNCHANGED began
     \/ child[s].at \in {"open", "turn"} /\ Send(s, "end", "over") /\ UNCHANGED began
  /\ UNCHANGED <<now, worker, table, lost, served>>

(* The child exits, or is killed by its alarm or by a crash *)
Exit(s) ==
  /\ child[s].at \notin {"none", "dead"}
  /\ \E killed \in BOOLEAN :
       /\ ~killed => child[s].at \in {"new", "over"}
       /\ child' = [child EXCEPT ![s] = [@ EXCEPT !.at = "dead", !.refused = @ \/ killed]]
  /\ UNCHANGED <<now, worker, table, lost, began, served>>

(* One pass of api_serve over slot s: drain, and reap a child that ended *)
Collect(s) ==
  /\ child[s].at # "none"
  /\ IF child[s].at = "dead"
     THEN /\ Set(Reaped(Drain(Parent, s), s, child[s].refused))
          /\ child' = [child EXCEPT ![s] = NoChild]
     ELSE /\ child[s].queue # <<>>
          /\ Set(Drain(Parent, s))
          /\ child' = [child EXCEPT ![s].queue = <<>>]
  /\ UNCHANGED <<now, began, served>>

Second ==
  /\ now < MaxTime
  /\ now' = now + 1
  /\ UNCHANGED <<child, worker, table, lost, began, served>>

Next == Second \/ \E s \in Slots : Accept(s) \/ Chat(s) \/ Exit(s) \/ Collect(s)

Spec == Init /\ [][Next]_vars

-----------------------------------------------------------------------------
(* What lmb_elastic_choose takes for idleness of a model: a complete        *)
(* observation window in which nothing is open, admitted or just started    *)
Idle(m) ==
  /\ Complete
  /\ \A c \in Cells : table[c].id = m =>
       table[c].pending = 0 /\ table[c].admitted = 0 /\ Started(table[c]) = 0

(* The chats of m the parent could know about: its start was not refused,   *)
(* and it is no longer waiting in the channel                               *)
Visible(s) == child[s].at # "none" /\ child[s].since # Never /\ ~child[s].blind /\ child[s].queue = <<>>

(* "A restarted observer starts a new window, never invents an idle         *)
(* history": when the gateway takes a model for idle, no chat of it that    *)
(* reached the observer is running, and none began in the last Window       *)
(* seconds except those whose report is still under way; and its counters   *)
(* are exactly the workers it holds, whatever was lost, killed or replaced. *)
DemandSound ==
  /\ \A m \in Model : Idle(m) =>
       /\ \A s \in Slots : Visible(s) /\ child[s].model = m => child[s].at \in {"over", "dead"}
       /\ \A b \in began : b[1] = m /\ now - b[2] < Window =>
            \E s \in Slots : /\ child[s].at # "none" /\ child[s].model = m
                             /\ child[s].since = b[2] /\ ~Visible(s)
  /\ \A c \in Cells :
       /\ table[c].pending = Cardinality({s \in Slots : worker[s].cell = c /\ ~worker[s].admitted /\ ~worker[s].ended})
       /\ table[c].admitted = Cardinality({s \in Slots : worker[s].cell = c /\ worker[s].admitted /\ ~worker[s].ended})

=============================================================================
