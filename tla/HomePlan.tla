------------------------------- MODULE HomePlan ------------------------------
(* The preparation of a model on several donors (home_request_chat_direct,    *)
(* lumabri_home_session.h, lumabri_home_request_plan.h) by a keeper of its    *)
(* own, and the window that waits for it (home_prepare_wait). The keeper's    *)
(* monitor thread alone reads what donors report, always a phase of the past; *)
(* its main thread acts on the last report. Donors behave as in HomeDonor,    *)
(* reduced to one transaction.                                                *)
EXTENDS Integers, Sequences, FiniteSets
CONSTANTS Donors, Edge, Hybrid, Background, MaxFaults
VARIABLES step, asked,        \* the keeper's main thread; donors offered to so far
          committed, coordinator, host_started, prepared,
          seen, failed, monitor,   \* HomeSession: phase, failed; the monitor runs
          out, in,            \* connections: commands, and a report on its way
          phase, held, retained, open,   \* donors: the transaction; the connection is known as open
          was,                \* donor -> phases it has been in
          plan, library, result, job,    \* on disk: the two records of the plan, ready_observed, the job
          window, faults
keeper == <<step, asked, committed, coordinator, host_started, prepared>>
session == <<seen, failed, monitor>>
donor == <<phase, held, retained, was>>
disk == <<plan, library, result, job>>
vars == <<keeper, session, out, in, donor, open, disk, window, faults>>

Others == Donors \ {Edge}
Ended == {"rejected", "failed", "closed"}
Done(d) == phase[d] \in {"segment", "ready"}
Init ==
    /\ step = "index" /\ asked = {} /\ committed = FALSE /\ coordinator = FALSE
    /\ host_started = FALSE /\ prepared = FALSE
    /\ seen = [d \in Donors |-> "pending"] /\ failed = FALSE /\ monitor = FALSE
    /\ out = [d \in Donors |-> <<>>] /\ in = [d \in Donors |-> "none"]
    /\ phase = [d \in Donors |-> "idle"] /\ held = [d \in Donors |-> FALSE]
    /\ retained = [d \in Donors |-> FALSE] /\ open = [d \in Donors |-> FALSE]
    /\ was = [d \in Donors |-> {}]
    /\ plan = FALSE /\ library = FALSE /\ result = "none" /\ job = "running"
    /\ window = (IF Background THEN "wait" ELSE "none") /\ faults = 0
Fault == faults < MaxFaults /\ faults' = faults + 1
Well == UNCHANGED faults
Send(d, op) == out' = [out EXCEPT ![d] = Append(@, op)]
At(place) == step' = place
-----------------------------------------------------------------------------
(* The allocation's name is on disk before anyone hears of it. Then the       *)
(* source is indexed; it may fail, or be cancelled.                           *)
Index ==
    /\ step = "index"
    /\ \/ At("offer") /\ result' = "assigned" /\ Well
       \/ At("close") /\ Fault /\ result' \in {"none", "assigned"}
    /\ UNCHANGED <<asked, committed, coordinator, host_started, prepared, session, out, in, donor, open,
                   plan, library, job, window>>
(* home_offer_plan: one after the other; the first report must be "pending".  *)
OfferTo(d) ==
    /\ step = "offer" /\ d \notin asked /\ asked' = asked \cup {d}
    /\ \/ /\ Well /\ open' = [open EXCEPT ![d] = TRUE] /\ phase' = [phase EXCEPT ![d] = "pending"]
          /\ IF asked' = Donors THEN At("prepare") /\ monitor' = TRUE ELSE UNCHANGED <<step, monitor>>
       \/ Fault /\ At("close") /\ UNCHANGED <<open, phase, monitor>>
    /\ UNCHANGED <<committed, coordinator, host_started, prepared, seen, failed, out, in, held, retained, was,
                   disk, window>>
(* Mutant: a plan is committed as soon as somebody accepts.                   *)
BugAccepted == \E d \in Donors : seen[d] = "accepted"
Accepted == \A d \in Donors : seen[d] = "accepted"
Prepared(d) == seen[d] \in {"segment", "starting", "ready"}
(* Nothing loads until everyone has accepted; with a Hybrid plan the          *)
(* coordinator only when its accelerators are ready.                          *)
Commit ==
    /\ step = "prepare" /\ ~failed /\ ~committed /\ Accepted /\ committed' = TRUE
    /\ out' = [d \in Donors |-> IF Hybrid /\ d = Edge THEN out[d] ELSE Append(out[d], "commit")]
    /\ UNCHANGED <<step, asked, coordinator, host_started, prepared, session, in, donor, open, disk, window, faults>>
Coordinate ==
    /\ step = "prepare" /\ ~failed /\ Hybrid /\ committed /\ ~coordinator
    /\ \A d \in Others : seen[d] = "segment"
    /\ coordinator' = TRUE /\ out' = [out EXCEPT ![Edge] = @ \o <<"routes", "commit">>]
    /\ UNCHANGED <<step, asked, committed, host_started, prepared, session, in, donor, open, disk, window, faults>>
StartHost ==
    /\ step = "prepare" /\ ~failed /\ committed /\ ~host_started /\ \A d \in Donors : Prepared(d)
    /\ host_started' = TRUE /\ Send(Edge, "start")
    /\ UNCHANGED <<step, asked, committed, coordinator, prepared, session, in, donor, open, disk, window, faults>>
(* The host is ready: the plan is recorded twice, and from here on a failure  *)
(* of the conversation is no roll-back. A keeper has no conversation.         *)
Record ==
    /\ step = "prepare" /\ ~failed /\ host_started /\ seen[Edge] = "ready"
    /\ \/ /\ plan' = TRUE /\ library' = TRUE /\ prepared' = TRUE /\ Well
          /\ At(IF Background THEN "close" ELSE "chat")
       \/ /\ Fault /\ plan' \in BOOLEAN /\ UNCHANGED <<library, prepared>> /\ At("close")
    /\ UNCHANGED <<asked, committed, coordinator, host_started, session, out, in, donor, open, result, job, window>>
Chat == /\ step = "chat" /\ At("close")
        /\ UNCHANGED <<asked, committed, coordinator, host_started, prepared, session, out, in, donor, open, disk, window, faults>>
(* The owner cancels, the watchdog fires, or a donor is lost.                 *)
GiveUp ==
    /\ step = "prepare" /\ At("close") /\ (IF failed THEN Well ELSE Fault)
    /\ UNCHANGED <<asked, committed, coordinator, host_started, prepared, session, out, in, donor, open, disk, window>>
(* home_session_close, once the monitor is joined: DETACH for a prepared      *)
(* plan, CANCEL for any other, and the connection ends. CANCEL may be lost    *)
(* with the connection.                                                       *)
Close ==
    /\ step = "close" /\ monitor' = FALSE /\ At("settle")
    /\ \E lost \in SUBSET asked :
        /\ IF lost = {} THEN Well ELSE Fault
        /\ out' = [d \in Donors |-> IF d \notin asked THEN out[d]
                     ELSE IF d \in lost THEN Append(out[d], "eof")
                     ELSE out[d] \o <<IF prepared THEN "detach" ELSE "cancel", "eof">>]
    /\ UNCHANGED <<asked, committed, coordinator, host_started, prepared, seen, failed, in, donor, open, disk, window>>
(* ready_observed, then the verdict of the job.                               *)
Settle ==
    LET good == prepared /\ ~failed IN
    /\ step = "settle" /\ At("done")
    /\ \/ /\ Well /\ result' = (IF good THEN "ready" ELSE result) /\ job' = (IF good THEN "done" ELSE "failed")
       \/ Fault /\ good /\ job' = "failed" /\ UNCHANGED result
    /\ UNCHANGED <<asked, committed, coordinator, host_started, prepared, session, out, in, donor, open, plan, library, window>>
(* The keeper dies: its connections end, and the job stays as it was.         *)
Crash ==
    /\ step \notin {"done", "dead"} /\ Fault /\ At("dead") /\ monitor' = FALSE
    /\ out' = [d \in Donors |-> IF d \in asked THEN Append(out[d], "eof") ELSE out[d]]
    /\ UNCHANGED <<asked, committed, coordinator, host_started, prepared, seen, failed, in, donor, open, disk, window>>
-----------------------------------------------------------------------------
(* home_session_keepalive: each pulse brings the phase a donor was in. One    *)
(* that ended, or cannot be reached, fails the session for good.              *)
Report(d) ==
    /\ open[d] /\ monitor /\ in[d] = "none" /\ in' = [in EXCEPT ![d] = phase[d]]
    /\ UNCHANGED <<keeper, session, out, donor, open, disk, window, faults>>
Receive(d) ==
    /\ monitor /\ ~failed /\ in[d] # "none" /\ in' = [in EXCEPT ![d] = "none"]
    /\ seen' = [seen EXCEPT ![d] = in[d]] /\ failed' = (in[d] \in Ended)
    /\ UNCHANGED <<keeper, monitor, out, donor, open, disk, window, faults>>
Unreachable(d) ==
    /\ monitor /\ ~failed /\ d \in asked /\ in[d] = "none" /\ (IF open[d] THEN Fault ELSE Well) /\ failed' = TRUE
    /\ UNCHANGED <<keeper, seen, monitor, out, in, donor, open, disk, window>>
-----------------------------------------------------------------------------
(* Donors. Move: a transaction enters a phase.                                *)
Move(d, p) == phase' = [phase EXCEPT ![d] = p] /\ was' = [was EXCEPT ![d] = @ \cup {p}]
Free(d, p) == Move(d, p) /\ held' = [held EXCEPT ![d] = FALSE] /\ UNCHANGED retained
(* home_donor_lost_requester.                                                 *)
Lost(d) ==
    /\ open' = [open EXCEPT ![d] = FALSE]
    /\ IF held[d] /\ (phase[d] = "ready" \/ (d # Edge /\ phase[d] = "segment"))
       THEN retained' = [retained EXCEPT ![d] = TRUE] /\ UNCHANGED <<phase, held, was>>
       ELSE Free(d, IF phase[d] = "idle" THEN "idle" ELSE "closed")
(* The owner decides.                                                         *)
Decide(d) ==
    /\ phase[d] = "pending"
    /\ \/ Move(d, "accepted") /\ held' = [held EXCEPT ![d] = TRUE] /\ Well
       \/ Move(d, "rejected") /\ UNCHANGED held /\ Fault
    /\ UNCHANGED <<keeper, session, out, in, retained, open, disk, window>>
Heard(d) ==
    /\ open[d] /\ out[d] # <<>> /\ out' = [out EXCEPT ![d] = Tail(@)]
    /\ LET op == Head(out[d]) IN
       CASE op = "commit" /\ phase[d] = "accepted" ->
              Move(d, "loading") /\ UNCHANGED <<held, retained, open>>
         [] op = "routes" /\ phase[d] = "accepted" -> UNCHANGED <<donor, open>>
         [] op = "start" /\ phase[d] = "segment" /\ d = Edge ->
              Move(d, "starting") /\ UNCHANGED <<held, retained, open>>
         [] op = "cancel" -> Free(d, "closed") /\ UNCHANGED open
         [] OTHER -> Lost(d)
    /\ UNCHANGED <<keeper, session, in, disk, window, faults>>
(* Engines get ready, or fail at any time, retained or not.                   *)
Progress(d) ==
    /\ \/ phase[d] = "loading" /\ Move(d, "segment")
       \/ phase[d] = "starting" /\ Move(d, "ready")
    /\ UNCHANGED <<keeper, session, out, in, held, retained, open, disk, window, faults>>
Breaks(d) ==
    /\ phase[d] \in {"loading", "segment", "starting", "ready"} /\ Fault
    /\ Move(d, "failed") /\ held' = [held EXCEPT ![d] = FALSE] /\ retained' = [retained EXCEPT ![d] = FALSE]
    /\ UNCHANGED <<keeper, session, out, in, open, disk, window>>
-----------------------------------------------------------------------------
(* Mutant: the window believes the record of a keeper that is gone.           *)
BugKeeperGone == FALSE
KeeperGone == step = "dead"
(* home_prepare_wait: the record says how it ended; a record that says        *)
(* "running" without a keeper behind it is a failure. The window may close.   *)
Window ==
    /\ window = "wait"
    /\ \/ job # "running" /\ window' = job
       \/ job = "running" /\ KeeperGone /\ window' = "failed"
    /\ UNCHANGED <<keeper, session, out, in, donor, open, disk, faults>>
Detach == /\ window = "wait" /\ Fault /\ window' = "away"
          /\ UNCHANGED <<keeper, session, out, in, donor, open, disk>>
Keeper == \/ Index \/ Commit \/ Coordinate \/ StartHost \/ Record \/ Chat \/ (failed /\ GiveUp) \/ Close \/ Settle
          \/ \E d \in Donors : OfferTo(d)
Monitor(d) == Report(d) \/ Receive(d) \/ (~open[d] /\ Unreachable(d))
Next == \/ Keeper \/ GiveUp \/ Crash \/ Window \/ Detach
        \/ \E d \in Donors : Monitor(d) \/ Unreachable(d) \/ Decide(d) \/ Heard(d) \/ Progress(d) \/ Breaks(d)
(* Threads and donors run, engines load or fail, and owners answer.           *)
Spec == /\ Init /\ [][Next]_vars /\ WF_vars(Keeper) /\ WF_vars(Window)
        /\ \A d \in Donors : WF_vars(Monitor(d)) /\ WF_vars(Decide(d)) /\ WF_vars(Heard(d)) /\ WF_vars(Progress(d))
-----------------------------------------------------------------------------
Loaded(d) == was[d] \cap {"loading", "segment", "starting", "ready"} # {}
(* Nobody loads before everybody has accepted, the host starts when all the   *)
(* ranges are ready and a Hybrid coordinator when its accelerators are; a     *)
(* plan that was recorded as ready has been ready everywhere; a donor outlives*)
(* the keeper as retained only with its range ready, and what the keeper      *)
(* prepared is not cancelled by it.                                           *)
PlanSound ==
    /\ \A d \in Donors : Loaded(d) => \A e \in Donors : "accepted" \in was[e]
    /\ (host_started \/ plan) => \A e \in Donors : "segment" \in was[e]
    /\ Hybrid /\ Loaded(Edge) => \A e \in Others : "segment" \in was[e]
    /\ (plan \/ result = "ready") => "ready" \in was[Edge]
    /\ result = "ready" => plan /\ library
    /\ job = "done" => result = "ready"
    /\ window = "done" => result = "ready"
    /\ \A d \in Donors : retained[d] => held[d] /\ Done(d)
    /\ prepared => \A d \in Donors : \A n \in DOMAIN out[d] : out[d][n] # "cancel"
(* The preparation ends, and leaves nothing half loaded: every donor is free  *)
(* again or keeps a prepared range; and the window is never left waiting.     *)
Settled == /\ step \in {"done", "dead"} /\ window # "wait"
           /\ \A d \in Donors : held[d] => retained[d]
PlanEnds == <>[]Settled
=============================================================================
