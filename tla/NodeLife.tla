------------------------------ MODULE NodeLife ------------------------------
(***************************************************************************)
(* The life of a Segment node (segment_node.c): what it must have settled  *)
(* before it is advertised, the registration thread that keeps one         *)
(* connection to the tracker, the governor and the private control channel *)
(* that change what is advertised, and the shutdown that joins them all.   *)
(* The tracker is external: it answers registrations, forwards requests    *)
(* and forgets a node whose connection ended.                              *)
(***************************************************************************)
EXTENDS Integers, Sequences

CONSTANTS AutoRange,   \* --auto-range
          Local,       \* NODE_CONNECTIONS_MAX
          MaxToggles,  \* bound: changes of pressure and of the operator's mind
          MaxFaults,   \* bound: refusals, lost connections and lost calls
          MaxForwards, \* bound: requests the tracker forwards
          MaxLeases    \* bound: leases the tracker hands out

VARIABLES main,      \* what the main thread does next
          stop,      \* g_stop
          rstop,     \* registration.stop
          listen,    \* the listening socket is open
          range,     \* the tracker holds a range for this name
          pre,       \* the preflight byte the parent reads
          engine,    \* the engine is open
          link,      \* registration worker
          flags,     \* advert: DRAINING
          refresh,   \* registration.refresh_requested
          copy,      \* the advert being sent
          ready, lease, compute,   \* registration.ready, owner, samples
          gov,       \* governor: "idle", or what it is about to publish
          pressed, manual,         \* machine under pressure; manual_draining
          conns,     \* connection workers, and whether one is forwarded work
          told,      \* the tracker's record: "none", or DRAINING
          inbox,     \* from the tracker on this connection
          granted,   \* last lease the tracker handed out
          sampled, posted,         \* leases measured, leases reported
          toggles, forwards, faults

vars == <<main, stop, rstop, listen, range, pre, engine, link, flags, refresh, copy, ready, lease,
          compute, gov, pressed, manual, conns, told, inbox, granted, sampled, posted, toggles,
          forwards, faults>>
boot == <<main, stop, rstop, listen, range, pre, engine>>
reg == <<link, copy, ready, lease, compute, told, inbox, posted>>
admission == <<flags, refresh, gov, pressed, manual, toggles>>
others == <<conns, granted, sampled, forwards, faults>>

Init ==
  /\ main = "identity" /\ stop = FALSE /\ rstop = FALSE /\ listen = FALSE
  /\ range = FALSE /\ pre = "none" /\ engine = FALSE
  /\ link = "off" /\ flags = FALSE /\ refresh = FALSE /\ copy = FALSE
  /\ ready = FALSE /\ lease = 0 /\ compute = FALSE
  /\ gov = "off" /\ pressed \in BOOLEAN /\ manual = FALSE
  /\ conns = [served |-> 0, own |-> "none"]
  /\ told = "none" /\ inbox = <<>> /\ granted = 0 /\ sampled = {} /\ posted = {}
  /\ toggles = 0 /\ forwards = 0 /\ faults = 0

Fault == faults < MaxFaults /\ faults' = faults + 1
NoFault == faults' = faults
-----------------------------------------------------------------------------
(* Before anything is advertised                                            *)

(* Wait for the model's identity; an untrusted one ends the process         *)
Identity ==
  /\ main = "identity"
  /\ \/ stop /\ main' = "ended" /\ NoFault
     \/ ~stop /\ main' = "range" /\ NoFault
     \/ ~stop /\ Fault /\ main' = "ended"
  /\ UNCHANGED <<stop, rstop, listen, range, pre, engine, reg, admission, conns, granted, sampled, forwards>>

(* A range, or an answer that is lost on the way: the tracker has promised   *)
(* the range in both cases                                                   *)
auto_range_get == range' = TRUE /\ main' \in {"range", "budget"}
(* Ask the tracker for a range until it gives one, or the process stops: a   *)
(* stop noticed after the answer leaves the range to expire                  *)
Range ==
  /\ main = "range"
  /\ \/ AutoRange /\ ~stop /\ auto_range_get
     \/ ~AutoRange /\ range' = range /\ main' = "budget"
     \/ stop /\ AutoRange /\ range' = range /\ main' = "ended"
  /\ UNCHANGED <<stop, rstop, listen, pre, engine, reg, admission, others>>

(* auto_range_release, whose answer nobody waits for                         *)
Given == IF AutoRange THEN range' \in {FALSE, range} ELSE range' = range

(* Memory budget, checkpoint floor and lock limit, before weights are read:  *)
(* the parent is told which way it went                                      *)
Budget ==
  /\ main = "budget"
  /\ \/ main' = "open" /\ pre' = "P" /\ range' = range /\ NoFault
     \/ Fault /\ Given /\ main' = "ended" /\ pre' = "F"
  /\ UNCHANGED <<stop, rstop, listen, engine, reg, admission, conns, granted, sampled, forwards>>

(* Open the engine and seal its weights; without either the range goes back  *)
OpenEngine ==
  /\ main = "open"
  /\ \/ main' = "check" /\ engine' = TRUE /\ range' = range /\ NoFault
     \/ Fault /\ Given /\ main' = "ended" /\ engine' = engine
  /\ UNCHANGED <<stop, rstop, listen, pre, reg, admission, conns, granted, sampled, forwards>>

(* Capabilities, sessions, backend, memory left and limits                   *)
CheckEngine ==
  /\ main = "check"
  /\ \/ main' = "advert" /\ UNCHANGED <<range, engine>> /\ NoFault
     \/ Fault /\ Given /\ main' = "ended" /\ engine' = FALSE
  /\ UNCHANGED <<stop, rstop, listen, pre, reg, admission, conns, granted, sampled, forwards>>

(* The advert starts as the governor sees the machine                        *)
Advert ==
  /\ main = "advert" /\ main' = "listen" /\ flags' = pressed
  /\ UNCHANGED <<stop, rstop, listen, range, pre, engine, reg, refresh, gov, pressed, manual, toggles, others>>

(* Table, identity and listener: a failure here leaves the range to expire   *)
Listen ==
  /\ main = "listen"
  /\ \/ main' = "threads" /\ listen' = TRUE /\ engine' = engine /\ NoFault
     \/ Fault /\ main' = "ended" /\ engine' = FALSE /\ listen' = listen
  /\ UNCHANGED <<stop, rstop, range, pre, reg, admission, conns, granted, sampled, forwards>>

(* The registration thread first, then the others: one that cannot start     *)
(* ends the process once the registration thread has                         *)
Threads ==
  /\ main = "threads"
  /\ link' = "connect"
  /\ \/ main' = "ready" /\ gov' = "idle" /\ UNCHANGED <<stop, rstop>> /\ NoFault
     \/ Fault /\ main' = "abort" /\ gov' = gov /\ rstop' = TRUE /\ stop' \in {stop, TRUE}
  /\ UNCHANGED <<listen, range, pre, engine, copy, ready, lease, compute, told, inbox, posted,
                 flags, refresh, pressed, manual, toggles, conns, granted, sampled, forwards>>

Abort ==
  /\ main = "abort" /\ link = "off" /\ main' = "ended" /\ engine' = FALSE /\ gov' = "off"
  /\ UNCHANGED <<stop, rstop, listen, range, pre, reg, flags, refresh, pressed, manual, toggles, others>>

(* lmb_ready_notify: a parent that is gone stops the node                    *)
Ready ==
  /\ main = "ready" /\ main' = "serve"
  /\ \/ UNCHANGED <<stop, listen>> /\ NoFault
     \/ Fault /\ stop' = TRUE /\ listen' = FALSE
  /\ UNCHANGED <<rstop, range, pre, engine, reg, admission, conns, granted, sampled, forwards>>
-----------------------------------------------------------------------------
(* Serving                                                                   *)

(* connection_add *)
HasRoom == conns.served + (IF conns.own = "busy" THEN 1 ELSE 0) < Local

(* The accept loop: a connection beyond the table is closed at once.  The    *)
(* registration worker's own connection carries a forwarded request.         *)
Accept ==
  /\ main = "serve" /\ ~stop
  /\ \/ /\ HasRoom
        /\ conns' = [conns EXCEPT !.served = @ + 1]
     \/ /\ conns.own = "asked"
        /\ conns' = [conns EXCEPT !.own = IF HasRoom THEN "busy" ELSE "failed"]
  /\ UNCHANGED <<boot, reg, admission, granted, sampled, forwards, faults>>

(* A worker finishes: a client left, a reply was sent, or its socket was     *)
(* shut down.  A one-row run leaves a sample.                                *)
WorkerEnds ==
  /\ \/ conns.served > 0 /\ conns' = [conns EXCEPT !.served = @ - 1]
     \/ conns.own = "busy" /\ conns' = [conns EXCEPT !.own = "done"]
     \/ conns.own = "busy" /\ main = "close" /\ conns' = [conns EXCEPT !.own = "failed"]
  /\ compute' \in {compute, lease # 0}
  /\ sampled' = IF compute' THEN sampled \cup {lease} ELSE sampled
  /\ UNCHANGED <<boot, link, copy, ready, lease, told, inbox, posted, admission, granted, forwards, faults>>

(* The operator's stop signal closes the listener, whatever the threads do   *)
Signal ==
  /\ ~stop /\ main # "ended"
  /\ stop' = TRUE /\ listen' = FALSE
  /\ UNCHANGED <<main, rstop, range, pre, engine, reg, admission, others>>

Quiet == gov = "idle" /\ link = "off"

(* The accept loop ends; the registration thread is told and joined, then    *)
(* every connection is shut down and waited for, then the engine closes      *)
Stopping ==
  /\ \/ /\ main = "serve" /\ stop
        /\ main' = "join" /\ rstop' = TRUE /\ UNCHANGED <<engine, gov>>
     \/ /\ main = "join" /\ Quiet
        /\ main' = "close" /\ gov' = "off" /\ UNCHANGED <<rstop, engine>>
     \/ /\ main = "close" /\ conns.served = 0 /\ conns.own # "busy"
        /\ main' = "ended" /\ engine' = FALSE /\ UNCHANGED <<rstop, gov>>
  /\ UNCHANGED <<stop, listen, range, pre, reg, flags, refresh, pressed, manual, toggles, others>>
-----------------------------------------------------------------------------
(* What is advertised                                                        *)

(* The operator's drain is not looked at again under the lock *)
BugPublish(accepting) ==
  flags' = ~accepting /\ refresh' = (refresh \/ ~accepting # flags)

(* publish_admission, under the registration lock                            *)
Publish(accepting) ==
  LET draining == manual' \/ ~accepting
  IN flags' = draining /\ refresh' = (refresh \/ draining # flags)

(* The governor looks at the machine, and publishes what it saw later        *)
GovernorPolls ==
  /\ gov = "idle" /\ ~stop /\ ~rstop
  /\ gov' = IF pressed \/ manual THEN "drain" ELSE "accept"
  /\ UNCHANGED <<boot, reg, flags, refresh, pressed, manual, toggles, others>>
GovernorPublishes ==
  /\ gov \in {"drain", "accept"}
  /\ gov' = "idle" /\ manual' = manual
  /\ Publish(gov = "accept")
  /\ UNCHANGED <<boot, reg, pressed, toggles, others>>

(* An accepted DRAIN or RESUME: node_control_worker                          *)
Command(drain) ==
  /\ gov # "off" /\ ~stop /\ ~rstop /\ drain # manual /\ toggles < MaxToggles
  /\ manual' = drain /\ toggles' = toggles + 1
  /\ Publish(~drain /\ ~pressed)
  /\ UNCHANGED <<boot, reg, gov, pressed, others>>

Pressure ==
  /\ toggles < MaxToggles /\ toggles' = toggles + 1
  /\ pressed' = ~pressed
  /\ UNCHANGED <<boot, reg, flags, refresh, gov, manual, others>>
-----------------------------------------------------------------------------
(* The registration thread: registration_worker                              *)
Go(at) == link' = at
Kept == UNCHANGED <<boot, admission, conns, granted, sampled, forwards>>

(* Connect, authenticate and take a challenge, until told to stop            *)
Dial ==
  /\ link = "connect"
  /\ IF rstop THEN Go("off") ELSE Go("first")
  /\ NoFault /\ Kept /\ UNCHANGED <<copy, ready, lease, compute, told, inbox, posted>>

(* The outer iteration's end: close, and stop vouching for the lease         *)
Down ==
  /\ link = "down" /\ Go("connect")
  /\ ready' = FALSE /\ told' = "none" /\ inbox' = <<>>
  /\ NoFault /\ Kept /\ UNCHANGED <<copy, lease, compute, posted>>

(* tracker_register_send: a copy of the advert, taken under the lock ...     *)
CopyAdvert ==
  /\ link \in {"first", "beat"} /\ Go("send") /\ copy' = flags
  /\ NoFault /\ Kept /\ UNCHANGED <<ready, lease, compute, told, inbox, posted>>
(* ... signed and sent.  The tracker answers with a lease.                   *)
SendAdvert ==
  /\ link = "send"
  /\ \/ /\ Go("loop") /\ told' = IF copy THEN "draining" ELSE "open"
        /\ \E l \in {granted, granted + 1} :
             /\ l \in 1 .. MaxLeases /\ granted' = l
             /\ inbox' = Append(inbox, <<"lease", l>>)
        /\ NoFault
     \/ Fault /\ Go("down") /\ UNCHANGED <<told, inbox, granted>>
  /\ UNCHANGED <<boot, admission, conns, sampled, forwards, copy, ready, lease, compute, posted>>

(* The change flag is taken before the advert is read, so that a change that *)
(* races with the send is sent again; otherwise a heartbeat when it is due   *)
Turn ==
  /\ link = "loop"
  /\ IF rstop THEN Go("down") /\ refresh' = refresh
     ELSE /\ refresh' = FALSE
          /\ IF refresh THEN Go("beat")
             ELSE link' \in {"wait"} \cup (IF Len(inbox) = 0 THEN {"beat"} ELSE {})
  /\ NoFault
  /\ UNCHANGED <<boot, flags, gov, pressed, manual, toggles, conns, granted, sampled, forwards,
                 copy, ready, lease, compute, told, inbox, posted>>

(* tracker_registration_reply: samples belong to the lease they were taken   *)
(* under                                                                     *)
Renewed(l) == IF l # lease THEN FALSE ELSE compute
(* They are reported under the lease that is current now                     *)
tracker_compute_send == posted' = IF compute' THEN posted \cup {lease'} ELSE posted
Receive ==
  /\ link = "wait"
  /\ \/ /\ inbox = <<>> /\ Go("loop") /\ NoFault
        /\ UNCHANGED <<ready, lease, compute, told, inbox, posted>>
     \/ /\ inbox # <<>> /\ Head(inbox)[1] = "lease"
        /\ LET l == Head(inbox)[2]
           IN /\ lease' = l /\ ready' = TRUE /\ compute' = Renewed(l)
              /\ tracker_compute_send
        /\ inbox' = Tail(inbox) /\ Go("loop") /\ NoFault /\ UNCHANGED told
     \/ /\ inbox # <<>> /\ Head(inbox)[1] = "forward"
        /\ inbox' = Tail(inbox) /\ Go("forward") /\ NoFault
        /\ UNCHANGED <<ready, lease, compute, told, posted>>
     \/ /\ Fault /\ Go("down") /\ UNCHANGED <<ready, lease, compute, told, inbox, posted>>
  /\ Kept /\ UNCHANGED copy

(* A connection nobody accepts any more is waited for without a deadline *)
BugForward ==
  /\ link = "forward"
  /\ \/ /\ conns.own = "none" /\ listen /\ Go("forward") /\ conns' = [conns EXCEPT !.own = "asked"]
     \/ /\ conns.own = "none" /\ ~listen /\ Go("answer") /\ conns' = conns
     \/ /\ conns.own \in {"done", "failed"} /\ Go("answer") /\ conns' = [conns EXCEPT !.own = "none"]
  /\ NoFault
  /\ UNCHANGED <<boot, admission, granted, sampled, forwards, copy, ready, lease, compute, told, inbox, posted>>

(* handle_rseg_fwd: the request goes through the node's own port, so that it *)
(* meets the same checks as any other.  No listener, or no answer in time,   *)
(* is an answer too.                                                         *)
Forward ==
  /\ link = "forward"
  /\ \/ /\ conns.own = "none" /\ listen /\ Go("forward") /\ conns' = [conns EXCEPT !.own = "asked"]
     \/ /\ conns.own = "none" /\ ~listen /\ Go("answer") /\ conns' = conns
     \/ /\ conns.own \in {"done", "failed"} /\ Go("answer") /\ conns' = [conns EXCEPT !.own = "none"]
     \/ /\ conns.own = "asked" /\ (stop \/ main # "serve") /\ Go("answer")
        /\ conns' = [conns EXCEPT !.own = "none"]
  /\ NoFault
  /\ UNCHANGED <<boot, admission, granted, sampled, forwards, copy, ready, lease, compute, told, inbox, posted>>
Answer ==
  /\ link = "answer"
  /\ \/ Go("loop") /\ NoFault
     \/ Go("down") /\ Fault
  /\ Kept /\ UNCHANGED <<copy, ready, lease, compute, told, inbox, posted>>

(* The tracker relays a chatter's request                                    *)
Relays ==
  /\ told # "none" /\ forwards < MaxForwards /\ Len(inbox) < 2
  /\ forwards' = forwards + 1 /\ inbox' = Append(inbox, <<"forward">>)
  /\ UNCHANGED <<boot, admission, conns, granted, sampled, faults, link, copy, ready, lease, compute, told, posted>>

(* A range nobody registered for expires at the tracker                      *)
Expires ==
  /\ range /\ main = "ended" /\ range' = FALSE
  /\ UNCHANGED <<main, stop, rstop, listen, pre, engine, reg, admission, others>>

Main == Identity \/ Range \/ Budget \/ OpenEngine \/ CheckEngine \/ Advert \/ Listen \/ Threads
        \/ Abort \/ Ready \/ Stopping
Worker == Dial \/ Down \/ CopyAdvert \/ SendAdvert \/ Turn \/ Receive \/ Forward \/ Answer
Governor == GovernorPolls \/ GovernorPublishes

Next == Main \/ Worker \/ Governor \/ Accept \/ WorkerEnds \/ Signal \/ Relays \/ Expires
        \/ Pressure \/ \E d \in BOOLEAN : Command(d)

AcceptOwn == Accept /\ conns'.own # conns.own
(* The threads run; a forwarded call that main could take is taken           *)
Fairness ==
  /\ WF_vars(Main) /\ WF_vars(Worker) /\ WF_vars(Governor) /\ WF_vars(WorkerEnds)
  /\ WF_vars(AcceptOwn)

Spec == Init /\ [][Next]_vars /\ Fairness
-----------------------------------------------------------------------------
(* A node is in the tracker's record only while its engine is open and       *)
(* checked; an admission change is never lost between the thread that makes  *)
(* it and the one that sends it; an operator's drain survives a governor     *)
(* that looked at the machine before it; samples are reported under the      *)
(* lease they were taken under; a parent told of a failed preflight meets no *)
(* engine; the engine closes after every thread that could use it.           *)
LifeSound ==
  /\ told # "none" => engine /\ pre = "P"
  /\ link = "wait" /\ ~refresh => told = (IF flags THEN "draining" ELSE "open")
  /\ manual => flags
  /\ posted \subseteq sampled
  /\ pre = "F" => main = "ended" /\ ~engine
  /\ main = "ended" => link = "off" /\ ~engine
  /\ conns.served + (IF conns.own = "busy" THEN 1 ELSE 0) <= Local
  /\ ~engine => conns = [served |-> 0, own |-> "none"] \/ conns.own = "failed"

(* A stopped node ends; one that goes on serving is advertised again after   *)
(* every loss of its connection, and pressure reaches the tracker's record   *)
Stopped == stop => main = "ended"
Advertised == main = "serve" => stop \/ told # "none"
PressureTold == main = "serve" /\ pressed => stop \/ manual \/ told = "draining"
LifeEnds == []<>Stopped /\ []<>Advertised /\ []<>PressureTold
=============================================================================
