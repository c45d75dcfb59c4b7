---------------------------- MODULE TrackerRelay -----------------------------
(* Relaying through the tracker: a request for a peer nobody can dial waits   *)
(* in that peer's mailbox (RREAD, RSEG: one at a time) or in one of its EXEC  *)
(* slots (REXEC, TEXEC, TMAN), goes out on whichever control connection of    *)
(* the peer looks first, and is answered, failed over or abandoned at a       *)
(* deadline while late replies keep arriving (tracker.c).                     *)
EXTENDS Integers, FiniteSets, Sequences
CONSTANTS Peer, Conn,
          Reader,     \* handle_rread requests
          Seg,        \* handle_rseg requests
          Exec,       \* handle_rexec requests: any holder will do
          Target,     \* handle_texec and handle_tman requests
          Wanted,     \* the peer a Seg or Target request names
          Inflight,   \* REXEC_INFLIGHT
          Concurrency,\* g_rseg_source_concurrency
          MaxConnects,\* bound on control connections
          None
Request == Reader \cup Seg \cup Exec \cup Target
Boxed == Reader \cup Seg
VARIABLES tun,    \* Conn -> the peer its thread serves, or None
          ctrl,   \* Peer -> its newest control connection, or None
          wire,   \* Conn -> frames sent and not yet answered
          box,    \* Peer -> mailbox [who, id, sent, done, from]; idle when who is None
          rex,    \* Peer -> pending EXECs, a set of [id, who, done, from]
          outq,   \* Peer -> frames waiting to be sent
          next,   \* Peer -> rq_next
          pc, answer,   \* Request -> stage, outcome
          cand, at,     \* Request -> the peers it may try, the one it is at
          refs,   \* Peer -> references held by requests
          rate,   \* RSEG calls in flight from the source
          connects
vars == <<tun, ctrl, wire, box, rex, outq, next, pc, cand, at, answer, refs, rate, connects>>
Idle == [who |-> None, id |-> 0, sent |-> FALSE, done |-> FALSE, from |-> None]

Init == /\ tun = [c \in Conn |-> None] /\ ctrl = [p \in Peer |-> None]
        /\ wire = [c \in Conn |-> {}] /\ box = [p \in Peer |-> Idle]
        /\ rex = [p \in Peer |-> {}] /\ outq = [p \in Peer |-> <<>>]
        /\ next = [p \in Peer |-> 0] /\ pc = [r \in Request |-> "new"]
        /\ cand = [r \in Request |-> <<>>] /\ at = [r \in Request |-> 1] /\ answer = [r \in Request |-> None]
        /\ refs = [p \in Peer |-> 0] /\ rate = 0 /\ connects = 0

(* A peer registers on a connection: the newest control connection wins.      *)
Connect(c, p) ==
    /\ tun[c] = None /\ connects < MaxConnects
    /\ tun' = [tun EXCEPT ![c] = p] /\ ctrl' = [ctrl EXCEPT ![p] = c]
    /\ connects' = connects + 1
    /\ UNCHANGED <<wire, box, rex, outq, next, pc, cand, at, answer, refs, rate>>

(* Every way a request ends returns what it took: the references to all its   *)
(* candidates and, for RSEG, its place in the source's quota.                 *)
Tries(r) == {cand[r][i] : i \in DOMAIN cand[r]}
End(r, out) ==
    /\ pc' = [pc EXCEPT ![r] = "done"] /\ answer' = [answer EXCEPT ![r] = out]
    /\ refs' = [p \in Peer |-> refs[p] - IF p \in Tries(r) THEN 1 ELSE 0]
    /\ rate' = IF r \in Seg /\ pc[r] # "new" THEN rate - 1 ELSE rate
    /\ UNCHANGED <<cand, at>>
(* rseg_rate_enter refuses a source that has too many calls in flight.        *)
Refuse(r) ==
    /\ pc[r] = "new"
    /\ \/ r \in Seg /\ rate >= Concurrency
       \/ r \in Boxed \cup Exec /\ \A p \in Peer : ctrl[p] = None
       \/ r \in Seg \cup Target /\ ctrl[Wanted[r]] = None
    /\ End(r, "refused")
    /\ UNCHANGED <<tun, ctrl, connects, wire, box, rex, outq, next>>
(* The peer is referenced, so that its slot outlives the wait.                *)
Take(r, p) ==
    /\ pc[r] = "new" /\ ctrl[p] # None
    /\ refs' = [refs EXCEPT ![p] = @ + 1]
    /\ cand' = [cand EXCEPT ![r] = <<p>>] /\ pc' = [pc EXCEPT ![r] = "wait"]
    /\ UNCHANGED <<tun, ctrl, connects, wire, box, rex, outq, next, at, answer>>
(* handle_rread takes any live holder; handle_texec and handle_tman the peer  *)
(* they name; handle_rseg too, within the source's quota.                     *)
SelectHolder(r, p) == r \in Reader /\ Take(r, p) /\ UNCHANGED rate
SelectTarget(r) == r \in Target /\ Take(r, Wanted[r]) /\ UNCHANGED rate
SelectSeg(r) == r \in Seg /\ rate < Concurrency /\ Take(r, Wanted[r]) /\ rate' = rate + 1
(* handle_rexec references every live holder and tries them one by one: the   *)
(* ones outside their failure cooldown first, which is any order here.        *)
Orders == {q \in [1..Cardinality({p \in Peer : ctrl[p] # None}) -> {p \in Peer : ctrl[p] # None}] :
              \A i, j \in DOMAIN q : i # j => q[i] # q[j]}
SelectAll(r) ==
    /\ pc[r] = "new" /\ r \in Exec
    /\ \E q \in Orders :
          /\ q # <<>>
          /\ cand' = [cand EXCEPT ![r] = q]
          /\ refs' = [p \in Peer |-> refs[p] + IF ctrl[p] # None THEN 1 ELSE 0]
    /\ pc' = [pc EXCEPT ![r] = "wait"]
    /\ UNCHANGED <<tun, ctrl, connects, wire, box, rex, outq, next, at, answer, rate>>

At(r) == cand[r][at[r]]
(* The mailbox of handle_rread and handle_rseg: one request at a time; an     *)
(* RSEG call gives up when the queue deadline passes first.                   *)
PostBox(r) ==
    LET p == At(r) IN
    /\ pc[r] = "wait" /\ r \in Boxed /\ box[p].who = None
    /\ next' = [next EXCEPT ![p] = @ + 1]
    /\ box' = [box EXCEPT ![p] = [Idle EXCEPT !.who = r, !.id = next[p] + 1]]
    /\ pc' = [pc EXCEPT ![r] = "posted"]
    /\ UNCHANGED <<tun, ctrl, connects, wire, rex, outq, cand, at, answer, refs, rate>>
QueueTimeout(r) ==
    /\ pc[r] = "wait" /\ r \in Seg /\ box[At(r)].who # None
    /\ End(r, "failed")
    /\ UNCHANGED <<tun, ctrl, connects, wire, box, rex, outq, next>>
(* Mutant: the requester waits for the answer and for nothing else.           *)
BugWakes(done) == done
(* The requester wakes on the answer or at RELAY_WAIT_S, which may come first;*)
(* it takes what is there and frees the mailbox.                              *)
Wakes(done) == done \in BOOLEAN
FinishBox(r) ==
    LET p == At(r) IN
    /\ pc[r] = "posted" /\ r \in Boxed /\ Wakes(box[p].done)
    /\ End(r, IF box[p].from # None THEN box[p].from ELSE "failed")
    /\ box' = [box EXCEPT ![p] = Idle]
    /\ UNCHANGED <<tun, ctrl, connects, wire, rex, outq, next>>

(* relay_forward: take an EXEC slot and queue the frame, or find every slot   *)
(* taken until the deadline.                                                  *)
PostExec(r) ==
    LET p == At(r) IN
    /\ pc[r] = "wait" /\ r \notin Boxed /\ Cardinality(rex[p]) < Inflight
    /\ next' = [next EXCEPT ![p] = @ + 1]
    /\ rex' = [rex EXCEPT ![p] = @ \cup {[id |-> next[p] + 1, who |-> r, done |-> FALSE, from |-> None]}]
    /\ outq' = [outq EXCEPT ![p] = Append(@, [id |-> next[p] + 1, who |-> r])]
    /\ pc' = [pc EXCEPT ![r] = "posted"]
    /\ UNCHANGED <<tun, ctrl, connects, wire, box, cand, at, answer, refs, rate>>
(* handle_rexec moves on to the next candidate; handle_texec and handle_tman  *)
(* fail over to nobody.                                                       *)
AfterFailure(r) ==
    IF at[r] < Len(cand[r])
    THEN /\ at' = [at EXCEPT ![r] = @ + 1] /\ pc' = [pc EXCEPT ![r] = "wait"]
         /\ UNCHANGED <<cand, answer, refs, rate>>
    ELSE End(r, "failed")
Saturated(r) ==
    /\ pc[r] = "wait" /\ r \notin Boxed /\ Cardinality(rex[At(r)]) = Inflight
    /\ AfterFailure(r)
    /\ UNCHANGED <<tun, ctrl, connects, wire, box, rex, outq, next>>
FinishExec(r) ==
    LET p == At(r)
        e == CHOOSE x \in rex[p] : x.who = r
    IN  /\ pc[r] = "posted" /\ r \notin Boxed /\ Wakes(e.done)
        /\ rex' = [rex EXCEPT ![p] = @ \ {e}]
        /\ IF e.from # None THEN End(r, e.from) ELSE AfterFailure(r)
        /\ UNCHANGED <<tun, ctrl, connects, wire, box, outq, next>>

(* conn_thread of any connection that serves the peer: forward the mailbox    *)
(* once, then drain the EXEC queue.                                           *)
Forward(c) ==
    LET p == tun[c] IN
    /\ p # None
    /\ box[p].who # None /\ ~box[p].sent /\ ~box[p].done
    /\ box' = [box EXCEPT ![p].sent = TRUE]
    /\ wire' = [wire EXCEPT ![c] = @ \cup {[id |-> box[p].id, who |-> box[p].who]}]
    /\ UNCHANGED <<tun, ctrl, connects, rex, outq, next, pc, cand, at, answer, refs, rate>>
Drain(c) ==
    LET p == tun[c] IN
    /\ p # None /\ outq[p] # <<>>
    /\ wire' = [wire EXCEPT ![c] = @ \cup {Head(outq[p])}]
    /\ outq' = [outq EXCEPT ![p] = Tail(@)]
    /\ UNCHANGED <<tun, ctrl, connects, box, rex, next, pc, cand, at, answer, refs, rate>>
(* Mutant: the reply goes to whoever waits, whatever its id.                  *)
BugIsFor(frame, id) == TRUE
IsFor(frame, id) == frame.id = id
(* The peer answers a frame, well or badly and as late as it likes; the       *)
(* control thread hands the reply to whoever still waits under that id        *)
(* (relay_complete).                                                          *)
Complete(c, f, ok) ==
    LET p == tun[c]
        hit == {e \in rex[p] : ~e.done /\ IsFor(f, e.id)}
        boxed == f.who \in Boxed /\ box[p].who # None /\ box[p].sent
                 /\ IsFor(f, box[p].id) /\ ~box[p].done
    IN  /\ p # None /\ f \in wire[c]
        /\ wire' = [wire EXCEPT ![c] = @ \ {f}]
        /\ IF f.who \notin Boxed /\ hit # {}
           THEN /\ rex' = [rex EXCEPT ![p] = (@ \ hit) \cup
                             {[e EXCEPT !.done = TRUE, !.from = IF ok THEN f.who ELSE None] : e \in hit}]
                /\ box' = box
           ELSE /\ box' = IF boxed THEN [box EXCEPT ![p].done = TRUE,
                                      ![p].from = IF ok THEN f.who ELSE None] ELSE box
                /\ rex' = rex
        /\ UNCHANGED <<tun, ctrl, connects, outq, next, pc, cand, at, answer, refs, rate>>

(* ctrl_teardown: whatever was pending on the peer fails, even what a newer   *)
(* connection of the same peer was carrying.                                  *)
Teardown(c) ==
    LET p == tun[c] IN
    /\ p # None
    /\ tun' = [tun EXCEPT ![c] = None]
    /\ ctrl' = [ctrl EXCEPT ![p] = IF @ = c THEN None ELSE @]
    /\ wire' = [wire EXCEPT ![c] = {}]
    /\ box' = IF box[p].who # None /\ ~box[p].done
              THEN [box EXCEPT ![p].done = TRUE] ELSE box
    /\ rex' = [rex EXCEPT ![p] = {IF e.done THEN e ELSE [e EXCEPT !.done = TRUE] : e \in @}]
    /\ outq' = [outq EXCEPT ![p] = <<>>]
    /\ UNCHANGED <<connects, next, pc, cand, at, answer, refs, rate>>

Step(r) == \/ Refuse(r) \/ SelectAll(r) \/ SelectTarget(r) \/ SelectSeg(r)
           \/ \E p \in Peer : SelectHolder(r, p)
           \/ PostBox(r) \/ QueueTimeout(r) \/ FinishBox(r)
           \/ PostExec(r) \/ Saturated(r) \/ FinishExec(r)
Next == \/ \E r \in Request : Step(r)
        \/ \E c \in Conn :
              \/ \E p \in Peer : Connect(c, p)
              \/ Forward(c) \/ Drain(c) \/ Teardown(c)
              \/ \E f \in wire[c], ok \in BOOLEAN : Complete(c, f, ok)
Spec == Init /\ [][Next]_vars
(* Every request runs on a thread of its own and every wait in it has a       *)
(* deadline, so a request's own next step is eventually taken.                *)
FairSpec == Spec /\ \A r \in Request : WF_vars(Step(r))
------------------------------------------------------------------------------
(* relay_complete: a requester is only ever handed the answer to its own      *)
(* request, however late, repeated or reordered the replies are and whatever  *)
(* took over the mailbox or the slot meanwhile.                               *)
AnswerIsOwn == \A r \in Request : answer[r] \in {None, "refused", "failed", r}
(* Every exit path gives back the peer references, the mailbox, the EXEC slot *)
(* and the source's quota, no more and no less.                               *)
NothingLeaks ==
    /\ rate = Cardinality({r \in Seg : pc[r] \in {"wait", "posted"}})
    /\ \A p \in Peer :
        /\ refs[p] = Cardinality({r \in Request : /\ pc[r] \in {"wait", "posted"}
                                                  /\ p \in Tries(r)})
        /\ box[p].who # None <=> \E r \in Boxed : pc[r] = "posted" /\ At(r) = p
        /\ Cardinality(rex[p]) = Cardinality({r \in Exec \cup Target : pc[r] = "posted" /\ At(r) = p})
(* Every relayed request ends, even when the peer never answers, reconnects   *)
(* at will, or another request holds its mailbox.                             *)
Done(r) == pc[r] = "done"
RelayEnds == \A r \in Request : []<>Done(r)
=============================================================================
