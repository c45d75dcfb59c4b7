---------------------------- MODULE GatewayTurn ----------------------------
(***************************************************************************)
(* Chat turns at the API gateway.  Every HTTP request is a process: it     *)
(* takes one of its user's permits, reads the route of its model, takes    *)
(* the admission cell of one approved replica, connects to the host, and   *)
(* relays the engine's framed reply to the client.  When the replica fails *)
(* in the middle of the answer the request replays the same prompt and     *)
(* seed on another replica, checking what the client already saw byte for  *)
(* byte; it may wait for a replacement the elastic controller publishes.   *)
(* Cells and permits are kernel locks: they end with their process.        *)
(* (api_connection_dispatch, api_chat_run in runtime/lumabri_api.h,        *)
(* lumabri_replica_admission.h, lumabri_managed_models.h,                  *)
(* lumabri_reply_stream.h, lumabri_replay_prefix.h,                        *)
(* lumabri_recovery_wait.h, lumabri_api_access.h.)                         *)
(***************************************************************************)
EXTENDS Integers, FiniteSets, Sequences, SequencesExt, FiniteSetsExt

CONSTANTS Req,        \* requests, all of one user
          Alloc,      \* approved replicas
          First,      \* the replicas routed at the start
          Spare,      \* the replica the elastic controller may publish
          Cells,      \* the admission cells, LMB_REPLICA_CELLS: 1 .. n
          Permits,    \* the user's permits, LMB 2: 1 .. n
          Text,       \* replica -> what its engine answers to this prompt
          MaxFaults   \* bound: engine failures, killed requests, edits

Free == 0
Unset == "none"

(* Frames of the serve codec, one symbol for a header line: 1 .. 9 is DATA  *)
(* with so many bytes of text.  Text symbols may look like headers.         *)
Newline == 10
Done == 11
Error == 12

VARIABLES req,      \* request -> its process
          cell,     \* cell -> [owner, id]: the lock and the saved bytes
          permit,   \* permit -> owner
          route,    \* the published replicas of the model
          granted,  \* the user's token still allows the model
          faults    \* faults used

vars == <<req, cell, permit, route, granted, faults>>

-----------------------------------------------------------------------------
(* The engine's reply to the prompt: its text as two DATA frames *)
Frames(a) ==
  LET t == Text[a]
  IN <<1, t[1], Newline, Len(t) - 1>> \o Tail(t) \o <<Newline, Done>>

NoReply == [remaining |-> 0, terminator |-> FALSE, status |-> "more"]

NewReq == [at |-> "new", contract |-> {}, left |-> {}, tried |-> <<>>, alloc |-> Unset,
           wait |-> FALSE, pipe |-> <<>>, reply |-> NoReply,
           sent |-> <<>>, matched |-> 0, target |-> 0, mismatch |-> FALSE, outcome |-> "none"]

Init ==
  /\ req = [r \in Req |-> NewReq]
  /\ cell = [c \in Cells |-> [owner |-> Free, id |-> Unset]]
  /\ permit = [p \in Permits |-> Free]
  /\ route = First
  /\ granted = TRUE
  /\ faults = 0

(* close() of a lock, or the end of the process *)
Released(locks, r) == [c \in DOMAIN locks |-> IF locks[c].owner = r THEN [locks[c] EXCEPT !.owner = Free] ELSE locks[c]]

(* The request is answered: its permits and its cell are closed *)
Over(r, q, outcome) ==
  /\ req' = [req EXCEPT ![r] = [q EXCEPT !.at = "over", !.outcome = outcome, !.pipe = <<>>, !.left = {}]]
  /\ cell' = Released(cell, r)
  /\ permit' = [p \in Permits |-> IF permit[p] = r THEN Free ELSE permit[p]]

-----------------------------------------------------------------------------
(* lmb_api_user_permit: the first free permit of the user, or 429 *)
Arrive(r) ==
  /\ req[r].at = "new"
  /\ IF ~granted THEN Over(r, req[r], "refused")
     ELSE IF \A p \in Permits : permit[p] # Free THEN Over(r, req[r], "busy")
     ELSE /\ permit' = [permit EXCEPT ![Min({p \in Permits : permit[p] = Free})] = r]
          /\ \E wait \in BOOLEAN :
               req' = [req EXCEPT ![r] = [@ EXCEPT !.at = "open", !.contract = route, !.left = route, !.wait = wait]]
          /\ UNCHANGED cell
  /\ UNCHANGED <<route, granted, faults>>

(* Mutant: the scan takes the first unlocked cell without looking further. *)
BugCellFor(a) ==
  LET open == {c \in Cells : cell[c].owner = Free}
  IN IF open = {} THEN 0 ELSE Min(open)

(* lmb_replica_admit, under the guard of the directory: scan the cells in   *)
(* order; a locked cell with the same bytes means busy, an unlocked one     *)
(* with the same bytes is taken at once, else the first unlocked one is     *)
CellFor(a) ==
  LET same == {c \in Cells : cell[c].id = a}
      open == {c \in Cells : cell[c].owner = Free}
  IN IF same # {} THEN IF Min(same) \in open THEN Min(same) ELSE 0
     ELSE IF open = {} THEN 0 ELSE Min(open)

(* One candidate of api_model_open_ex, in whatever order the preference     *)
(* gives: its saved plan may not match, its cell may be taken, the guard    *)
(* may be busy                                                              *)
Admit(r) ==
  /\ req[r].at \in {"open", "reopen"}
  /\ \E a \in req[r].left :
       \/ /\ CellFor(a) # 0
          /\ cell' = [cell EXCEPT ![CellFor(a)] = [owner |-> r, id |-> a]]
          /\ req' = [req EXCEPT ![r] = [@ EXCEPT !.left = @ \ {a}, !.alloc = a,
                                                 !.at = IF @ = "open" THEN "connect" ELSE "reconnect"]]
       \/ /\ CellFor(a) = 0 \/ faults < MaxFaults
          /\ req' = [req EXCEPT ![r].left = @ \ {a}]
          /\ UNCHANGED cell
  /\ faults' = IF cell' = cell /\ \A a \in req[r].left : CellFor(a) # 0 THEN faults + 1 ELSE faults
  /\ UNCHANGED <<permit, route, granted>>

(* api_plan_open and api_route_engine_matches.  A first attempt then goes   *)
(* straight to the prompt; a recovery checks the client and its authority   *)
(* once more before any text leaves the process.                            *)
Connect(r) ==
  /\ req[r].at \in {"connect", "reconnect"}
  /\ \/ /\ faults < MaxFaults
        /\ faults' = faults + 1
        /\ cell' = Released(cell, r)
        /\ req' = [req EXCEPT ![r] = [@ EXCEPT !.alloc = Unset, !.at = IF @ = "connect" THEN "open" ELSE "reopen"]]
        /\ UNCHANGED permit
     \/ /\ req[r].at = "reconnect" /\ ~granted
        /\ Over(r, req[r], "failed")
        /\ UNCHANGED faults
     \/ /\ req[r].at = "connect" \/ granted
        /\ req' = [req EXCEPT ![r] =
             [@ EXCEPT !.at = "stream", !.tried = Append(@, req[r].alloc), !.left = {},
                       !.pipe = Frames(req[r].alloc), !.reply = NoReply,
                       !.matched = 0, !.target = Len(req[r].sent), !.mismatch = FALSE]]
        /\ UNCHANGED <<cell, permit, faults>>
  /\ UNCHANGED <<route, granted>>

(* No candidate is left: 429 or 503 on a first attempt; a recovery waits if *)
(* the turn asked for it and a policy covers the route, else it ends        *)
NoneLeft(r) ==
  /\ req[r].at \in {"open", "reopen"}
  /\ req[r].left = {}
  /\ IF req[r].at = "reopen" /\ req[r].wait
     THEN req' = [req EXCEPT ![r].at = "waiting"] /\ UNCHANGED <<cell, permit>>
     ELSE Over(r, req[r], IF req[r].at = "open" THEN "busy" ELSE "failed")
  /\ UNCHANGED <<route, granted, faults>>

(* api_recovery_wait: look at the route again until the deadline; any       *)
(* replica of the settled route that was not tried yet may be opened        *)
Waiting(r) ==
  /\ req[r].at = "waiting"
  /\ \/ Over(r, req[r], "failed")
     \/ /\ granted
        /\ route \ Range(req[r].tried) # {}
        /\ req' = [req EXCEPT ![r] = [@ EXCEPT !.at = "reopen", !.left = route \ Range(req[r].tried)]]
        /\ UNCHANGED <<cell, permit>>
  /\ UNCHANGED <<route, granted, faults>>

-----------------------------------------------------------------------------
(* lmb_replay_feed, one byte of text: compared while it repeats what the    *)
(* client saw, emitted after that                                           *)
Replayed(q, e) ==
  IF q.matched < q.target
  THEN IF q.sent[q.matched + 1] = e THEN [q EXCEPT !.matched = @ + 1]
       ELSE [q EXCEPT !.mismatch = TRUE, !.reply.status = "aborted"]
  ELSE [q EXCEPT !.sent = Append(@, e)]

(* lmb_reply_feed and lmb_reply_line, one symbol of the engine's pipe *)
Fed(q, e) ==
  LET s == q.reply
  IN IF s.remaining > 0 THEN Replayed([q EXCEPT !.reply.remaining = @ - 1], e)
     ELSE IF s.terminator
          THEN [q EXCEPT !.reply.terminator = FALSE,
                         !.reply.status = IF e = Newline THEN @ ELSE "invalid"]
     ELSE IF e \in 1 .. 9 THEN [q EXCEPT !.reply.remaining = e, !.reply.terminator = TRUE]
     ELSE IF e = Done THEN [q EXCEPT !.reply.status = "done"]
     ELSE IF e = Error THEN [q EXCEPT !.reply.status = "error"]
     ELSE q

(* The polling loop of api_chat_run reads what the engine sent *)
Read(r) ==
  /\ req[r].at = "stream" /\ req[r].reply.status = "more" /\ req[r].pipe # <<>>
  /\ req' = [req EXCEPT ![r] = Fed([@ EXCEPT !.pipe = Tail(@)], Head(req[r].pipe))]
  /\ UNCHANGED <<cell, permit, route, granted, faults>>

(* The replica dies or reports a retryable error after any frame or byte *)
EngineFails(r) ==
  /\ req[r].at = "stream" /\ req[r].reply.status = "more"
  /\ faults < MaxFaults
  /\ faults' = faults + 1
  /\ req' = [req EXCEPT ![r] = [@ EXCEPT !.reply.status = "lost", !.pipe = <<>>]]
  /\ UNCHANGED <<cell, permit, route, granted>>

(* The replicas a recovery may use: those of the original contract that are *)
(* still routed, without the ones already tried                             *)
Others(r) == (req[r].contract \cap route) \ Range(req[r].tried)

(* The end of one attempt.  A lost replica is replaced at most twice, after *)
(* the user's authority is read again; the old cell is closed first.        *)
Recover(r) ==
  /\ req[r].at = "stream" /\ req[r].reply.status = "lost"
  /\ IF (Cardinality(req[r].contract) > 1 \/ req[r].wait) /\ Len(req[r].tried) < 3 /\ granted
     THEN /\ req' = [req EXCEPT ![r] = [@ EXCEPT !.at = "reopen", !.alloc = Unset, !.left = Others(r)]]
          /\ cell' = Released(cell, r)
          /\ UNCHANGED permit
     ELSE Over(r, req[r], "failed")
  /\ UNCHANGED <<route, granted, faults>>

(* lmb_replay_complete *)
Complete(q) == ~q.mismatch /\ q.matched = q.target

(* The terminal event: "done" only for a whole answer that repeated all the *)
(* client had seen; the host is cleaned up and the cell closed before it    *)
Answer(r) ==
  /\ req[r].at = "stream" /\ req[r].reply.status \in {"done", "error", "invalid", "aborted"}
  /\ Over(r, req[r], IF req[r].reply.status = "done" /\ Complete(req[r]) THEN "done" ELSE "failed")
  /\ UNCHANGED <<route, granted, faults>>

(* The browser stops, or the alarm of LMB_API_TURN_SECONDS kills the        *)
(* process: nothing but kernel locks is left to give back                   *)
Stops(r) ==
  /\ req[r].at \notin {"new", "over"}
  /\ Over(r, req[r], "stopped")
  /\ UNCHANGED <<route, granted, faults>>

(* The operator revokes the user, or the controller publishes or withdraws  *)
(* a replica                                                                *)
Operator ==
  /\ faults < MaxFaults
  /\ faults' = faults + 1
  /\ \/ granted' = FALSE /\ UNCHANGED route
     \/ route' = route \cup {Spare} /\ UNCHANGED granted
     \/ \E a \in route : route' = route \ {a} /\ UNCHANGED granted
  /\ UNCHANGED <<req, cell, permit>>

Step(r) == Arrive(r) \/ Admit(r) \/ Connect(r) \/ NoneLeft(r) \/ Waiting(r) \/ Read(r)
           \/ EngineFails(r) \/ Recover(r) \/ Answer(r)

Next == Operator \/ \E r \in Req : Step(r) \/ Stops(r)

Spec == Init /\ [][Next]_vars

-----------------------------------------------------------------------------
Holds(r, a) == req[r].at \in {"connect", "reconnect", "stream"} /\ req[r].alloc = a

(* Two turns never share a replica and never exceed the user's permits, and *)
(* a lock is held only by a live turn: kernel locks, not saved bytes, own   *)
(* capacity.  What the client has seen is always the beginning of what one  *)
(* replica answered, no replica is asked twice, and a turn reported as      *)
(* "done" delivered one replica's answer whole, fake headers included.      *)
TurnSound ==
  /\ \A r, s \in Req, a \in Alloc : r # s => ~(Holds(r, a) /\ Holds(s, a))
  /\ \A c \in Cells : cell[c].owner # Free => Holds(cell[c].owner, cell[c].id)
  /\ \A r \in Req, a \in Alloc : Holds(r, a) => \E c \in Cells : cell[c] = [owner |-> r, id |-> a]
  /\ \A r \in Req : req[r].at \notin {"new", "over"} <=> \E p \in Permits : permit[p] = r
  /\ \A r \in Req :
       /\ req[r].sent = <<>> \/ \E a \in Range(req[r].tried) : IsPrefix(req[r].sent, Text[a])
       /\ Cardinality(Range(req[r].tried)) = Len(req[r].tried)
       /\ req[r].outcome = "done" => req[r].sent = Text[Last(req[r].tried)]

=============================================================================
