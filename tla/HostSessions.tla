----------------------------- MODULE HostSessions ----------------------------
(* A hosted engine that several clients share (lumabri_host_sessions.h and    *)
(* lumabri_host_protocol.h). Each connection gets a slot of the engine, with  *)
(* a KV state of its own; whole turns queue for the one pipe to the engine.   *)
(* The engine (segment_serve_loop) reads commands and writes frames; ids in   *)
(* them are the clients' own, and may well coincide. A frame and the KV state *)
(* remember here whose they are.                                              *)
EXTENDS Integers, Sequences, FiniteSets
CONSTANTS Slots, MaxConns, MaxTurns, MaxRev, MaxFaults
VARIABLES at, conn,          \* a slot's worker and its connection
          reset_needed, admitted, requests, workers,
          mode, revision, stop, sealed,   \* LmbHostControl, pool.stop, a receipt was sent
          main, cur,         \* the acceptor and the slot it works on
          turns,             \* the FIFO of lmb_run_gate, its head is the owner
          cmd, frames, dead, \* the two pipes; the engine is gone
          running, kv, stuck,\* the turn in work; slot -> whose turns; CLOSE is pending
          next, asked, gone, faults,
          heard              \* every client read frames of its own turns only
pool == <<at, conn, reset_needed, admitted, requests, workers>>
control == <<mode, revision, stop, sealed>>
engine == <<running, kv, stuck, dead>>
clients == <<next, asked, gone, heard>>
vars == <<pool, control, main, cur, turns, cmd, frames, engine, clients, faults>>

Slot == 1 .. Slots
NoTurn == [slot |-> 0, conn |-> 0]
Init ==
    /\ at = [s \in Slot |-> "free"] /\ conn = [s \in Slot |-> 0]
    /\ reset_needed = [s \in Slot |-> FALSE] /\ admitted = [s \in Slot |-> FALSE]
    /\ requests = 0 /\ workers = 0
    /\ mode = "open" /\ revision = 1 /\ stop = FALSE /\ sealed = FALSE
    /\ main = "accept" /\ cur = 0 /\ turns = <<>> /\ cmd = <<>> /\ frames = <<>>
    /\ running = NoTurn /\ kv = [s \in Slot |-> {}] /\ stuck = [s \in Slot |-> FALSE] /\ dead = FALSE
    /\ next = 1 /\ asked = 0 /\ gone = {} /\ heard = TRUE /\ faults = 0
Fault == faults < MaxFaults /\ faults' = faults + 1
Well == UNCHANGED faults
Go(s, place) == at' = [at EXCEPT ![s] = place]
Write(op, s) == cmd' = Append(cmd, [op |-> op, slot |-> s, conn |-> IF s = 0 THEN 0 ELSE conn[s]])
-----------------------------------------------------------------------------
(* host_sessions_run: a HELLO takes the first free slot; when the greeting or *)
(* the thread fails, the slot is free again.                                  *)
Accept ==
    LET free == {s \in Slot : at[s] = "free"} IN
    /\ main = "accept" /\ ~stop /\ next <= MaxConns /\ next' = next + 1
    /\ IF free = {} \/ mode # "open" THEN UNCHANGED <<at, conn, workers>>
       ELSE LET s == CHOOSE s \in free : \A t \in free : s <= t IN
            Go(s, "receive") /\ conn' = [conn EXCEPT ![s] = next] /\ workers' = workers + 1
    /\ UNCHANGED <<reset_needed, admitted, requests, control, main, cur, turns, cmd, frames, engine, asked, gone, heard, faults>>
(* host_session_control, lmb_host_control_apply: fenced by revision; the      *)
(* repetition of what was just done is no conflict.                           *)
Control(action, expected) ==
    LET to == CASE action = "drain" -> "draining" [] action = "resume" -> "open" [] OTHER -> "retired"
        again == revision > 1 /\ expected = revision - 1 /\ mode = to
        ok == /\ ~again /\ mode # "retired" /\ expected = revision
              /\ action = "retire" => mode = "draining" /\ workers = 0 /\ requests = 0
    IN
    /\ main = "accept" /\ ~stop /\ (ok => revision < MaxRev)
    /\ mode' = IF ok THEN to ELSE mode
    /\ revision' = IF ok THEN revision + 1 ELSE revision
    /\ main' = IF mode' = "retired" THEN "seal" ELSE main
    /\ UNCHANGED <<pool, stop, sealed, cur, turns, cmd, frames, engine, clients, faults>>
(* Mutant: the receipt does not wait for the sessions.                        *)
BugUnsealed == {}
Unsealed == {s \in Slot : reset_needed[s]}
(* A receipt needs the confirmed end of every conversation of every slot.     *)
Seal ==
    /\ main = "seal"
    /\ IF Unsealed = {} THEN sealed' = TRUE /\ main' = "accept" /\ UNCHANGED <<cur, cmd>>
       ELSE LET s == CHOOSE s \in Unsealed : \A t \in Unsealed : s <= t IN
            cur' = s /\ Write("reset", s) /\ main' = "sealing" /\ UNCHANGED sealed
    /\ UNCHANGED <<pool, mode, revision, stop, turns, frames, engine, clients, faults>>
(* host_reset_conversation waits for its own acknowledgement: done, pending,  *)
(* or a codec that is damaged or late.                                        *)
Acked(op) == frames # <<>> /\ Head(frames).op = op /\ frames' = Tail(frames) /\ Well
Broken == (IF dead /\ frames = <<>> THEN Well ELSE Fault) /\ UNCHANGED frames
Sealing ==
    /\ main = "sealing"
    /\ \/ /\ Acked("done_reset") /\ reset_needed' = [reset_needed EXCEPT ![cur] = FALSE]
          /\ main' = "seal" /\ UNCHANGED stop
       \/ Acked("pending") /\ main' = "accept" /\ UNCHANGED <<reset_needed, stop>>
       \/ Broken /\ main' = "accept" /\ stop' = TRUE /\ UNCHANGED reset_needed
    /\ UNCHANGED <<at, conn, admitted, requests, workers, mode, revision, sealed, cur, turns, cmd, engine, clients>>
(* The end: every socket is shut down, and the workers are waited for.        *)
Join ==
    /\ main = "accept" /\ stop /\ main' = "join" /\ gone' = {conn[s] : s \in Slot} \ {0}
    /\ UNCHANGED <<pool, control, cur, turns, cmd, frames, engine, next, asked, heard, faults>>
-----------------------------------------------------------------------------
Hung(s) == conn[s] \in gone
Leaves(s) ==
    \E n \in DOMAIN turns :
       turns[n] = s /\ turns' = [k \in 1 .. Len(turns) - 1 |-> turns[IF k < n THEN k ELSE k + 1]]
(* host_session_receive: a whole SUBMIT, kept until its turn comes; or the    *)
(* client is gone, idle for too long, or the host drains or stops.            *)
Receive(s) ==
    /\ at[s] = "receive"
    /\ \/ /\ ~stop /\ mode = "open" /\ ~Hung(s) /\ asked < MaxTurns
          /\ asked' = asked + 1 /\ Go(s, "admit")
       \/ (stop \/ mode # "open" \/ Hung(s) \/ asked = MaxTurns) /\ Go(s, "close") /\ UNCHANGED asked
    /\ UNCHANGED <<conn, reset_needed, admitted, requests, workers, control, main, cur, turns, cmd, frames,
                   engine, next, gone, heard, faults>>
(* Admission and draining exclude each other; then the request queues.        *)
Admit(s) ==
    /\ at[s] = "admit"
    /\ IF mode # "open" THEN Go(s, "close") /\ UNCHANGED <<admitted, requests, turns>>
       ELSE /\ admitted' = [admitted EXCEPT ![s] = TRUE] /\ requests' = requests + 1
            /\ IF Hung(s) THEN Go(s, "close") /\ UNCHANGED turns
               ELSE Go(s, "queued") /\ turns' = Append(turns, s)
    /\ UNCHANGED <<conn, reset_needed, workers, control, main, cur, cmd, frames, engine, clients, faults>>
(* A queued client that says anything, or leaves, or waits for too long, goes.*)
Queued(s) ==
    /\ at[s] = "queued"
    /\ \/ Head(turns) = s /\ ~Hung(s) /\ ~stop /\ Go(s, "own") /\ Well /\ UNCHANGED turns
       \/ /\ Hung(s) \/ stop
          /\ Leaves(s) /\ Go(s, "close") /\ Well
       \/ Head(turns) # s /\ Fault /\ Leaves(s) /\ Go(s, "close")
    /\ UNCHANGED <<conn, reset_needed, admitted, requests, workers, control, main, cur, cmd, frames, engine, clients>>
(* host_session_worker with the turn: whatever an earlier connection left in  *)
(* the slot is reset first.                                                   *)
Own(s) ==
    /\ at[s] = "own"
    /\ IF stop THEN Leaves(s) /\ Go(s, "close") /\ UNCHANGED cmd
       ELSE /\ UNCHANGED turns
            /\ IF reset_needed[s] THEN Write("reset", s) /\ Go(s, "resetting")
               ELSE Write("submit", s) /\ Go(s, "bridge")
    /\ UNCHANGED <<conn, reset_needed, admitted, requests, workers, control, main, cur, frames, engine, clients, faults>>
Resetting(s) ==
    /\ at[s] = "resetting"
    /\ \/ /\ Acked("done_reset") /\ reset_needed' = [reset_needed EXCEPT ![s] = FALSE]
          /\ Write("submit", s) /\ Go(s, "bridge") /\ UNCHANGED <<turns, stop>>
       \/ Acked("pending") /\ Leaves(s) /\ Go(s, "close") /\ UNCHANGED <<reset_needed, cmd, stop>>
       \/ Broken /\ stop' = TRUE /\ Leaves(s) /\ Go(s, "close") /\ UNCHANGED <<reset_needed, cmd>>
    /\ UNCHANGED <<conn, admitted, requests, workers, mode, revision, sealed, main, cur, engine, clients>>
(* Mutant: only DONE ends a turn.                                             *)
BugEnds(f) == f.op = "done"
Ends(f) == f.op \in {"done", "error"}
(* host_bridge: frames go to the client until the one that ends its turn.     *)
Bridge(s) ==
    /\ at[s] = "bridge" /\ frames # <<>> /\ frames' = Tail(frames)
    /\ heard' = (heard /\ Head(frames).conn = conn[s])
    /\ IF Ends(Head(frames))
       THEN /\ Leaves(s) /\ Go(s, "receive")
            /\ admitted' = [admitted EXCEPT ![s] = FALSE] /\ requests' = requests - 1
       ELSE UNCHANGED <<turns, at, admitted, requests>>
    /\ UNCHANGED <<conn, reset_needed, workers, control, main, cur, cmd, engine, next, asked, gone, faults>>
(* The client cancels its own turn.                                           *)
ClientCancel(s) ==
    /\ at[s] = "bridge" /\ ~Hung(s) /\ Fault /\ Write("cancel", s)
    /\ UNCHANGED <<pool, control, main, cur, turns, frames, engine, clients>>
(* It is gone, or the turn is late: the turn is cancelled.                    *)
Abandon(s) ==
    /\ at[s] = "bridge" /\ (IF Hung(s) THEN Well ELSE Fault)
    /\ IF stop THEN Leaves(s) /\ Go(s, "close") /\ UNCHANGED cmd
       ELSE Write("cancel", s) /\ Go(s, "drain") /\ UNCHANGED turns
    /\ UNCHANGED <<conn, reset_needed, admitted, requests, workers, control, main, cur, frames, engine, clients>>
BridgeBreaks(s) ==
    /\ at[s] = "bridge" /\ dead /\ frames = <<>>
    /\ stop' = TRUE /\ Leaves(s) /\ Go(s, "close")
    /\ UNCHANGED <<conn, reset_needed, admitted, requests, workers, mode, revision, sealed, main, cur, cmd, frames,
                   engine, clients, faults>>
(* Mutant: the turn is given up with its last frames still in the pipe.       *)
BugDrain(s) ==
    /\ at[s] = "drain" /\ Leaves(s) /\ Go(s, "close")
    /\ UNCHANGED <<conn, reset_needed, admitted, requests, workers, control, main, cur, cmd, frames,
                   engine, clients, faults>>
(* Its last frames are drained before the reset is written.                   *)
Drain(s) ==
    /\ at[s] = "drain"
    /\ \/ /\ frames # <<>> /\ frames' = Tail(frames) /\ Well
          /\ IF Ends(Head(frames)) THEN Write("reset", s) /\ Go(s, "clear") ELSE UNCHANGED <<cmd, at>>
          /\ UNCHANGED <<turns, stop>>
       \/ Broken /\ stop' = TRUE /\ Leaves(s) /\ Go(s, "close") /\ UNCHANGED cmd
    /\ UNCHANGED <<conn, reset_needed, admitted, requests, workers, mode, revision, sealed, main, cur, engine, clients>>
Clear(s) ==
    /\ at[s] = "clear"
    /\ \/ (Acked("done_reset") \/ Acked("pending")) /\ UNCHANGED stop
       \/ Broken /\ stop' = TRUE
    /\ Leaves(s) /\ Go(s, "close")
    /\ UNCHANGED <<conn, reset_needed, admitted, requests, workers, mode, revision, sealed, main, cur, cmd, engine, clients>>
(* A host with a single slot resets it at once ...                            *)
LastReset(s) ==
    /\ at[s] = "last"
    /\ \/ Acked("done_reset") /\ reset_needed' = [reset_needed EXCEPT ![s] = FALSE] /\ UNCHANGED stop
       \/ Acked("pending") /\ reset_needed' = [reset_needed EXCEPT ![s] = TRUE] /\ UNCHANGED stop
       \/ Broken /\ reset_needed' = [reset_needed EXCEPT ![s] = TRUE] /\ stop' = TRUE
    /\ Go(s, "free")
    /\ conn' = [conn EXCEPT ![s] = 0] /\ workers' = workers - 1
    /\ requests' = IF admitted[s] THEN requests - 1 ELSE requests
    /\ admitted' = [admitted EXCEPT ![s] = FALSE]
    /\ UNCHANGED <<mode, revision, sealed, main, cur, turns, cmd, engine, clients>>
(* ... and any other one leaves that to the next turn in the slot.            *)
Close(s) ==
    /\ at[s] = "close" /\ gone' = gone \ {conn[s]}
    /\ IF Slots = 1 /\ ~stop
       THEN Write("reset", s) /\ Go(s, "last") /\ UNCHANGED <<conn, workers, requests, admitted, reset_needed>>
       ELSE /\ Go(s, "free") /\ conn' = [conn EXCEPT ![s] = 0] /\ workers' = workers - 1
            /\ requests' = IF admitted[s] THEN requests - 1 ELSE requests
            /\ admitted' = [admitted EXCEPT ![s] = FALSE]
            /\ reset_needed' = [reset_needed EXCEPT ![s] = TRUE]
            /\ UNCHANGED cmd
    /\ UNCHANGED <<control, main, cur, turns, frames, engine, next, asked, heard, faults>>
-----------------------------------------------------------------------------
(* segment_serve_loop. conversation_reset closes the remote sessions, or      *)
(* cannot and keeps their identities.                                         *)
Say(op, s, c) == frames' = Append(frames, [op |-> op, slot |-> s, conn |-> c])
ResetSlot(s) ==
    \/ Well /\ kv' = [kv EXCEPT ![s] = {}] /\ stuck' = [stuck EXCEPT ![s] = FALSE]
    \/ kv[s] # {} /\ Fault /\ stuck' = [stuck EXCEPT ![s] = TRUE] /\ UNCHANGED kv
EngineReset ==
    LET c == Head(cmd) IN
    /\ ~dead /\ cmd # <<>> /\ c.op = "reset" /\ running = NoTurn /\ cmd' = Tail(cmd)
    /\ ResetSlot(c.slot) /\ Say(IF stuck'[c.slot] THEN "pending" ELSE "done_reset", c.slot, c.conn)
    /\ UNCHANGED <<pool, control, main, cur, turns, running, dead, clients>>
EngineSubmit ==
    LET c == Head(cmd) IN
    /\ ~dead /\ cmd # <<>> /\ c.op = "submit" /\ running = NoTurn /\ cmd' = Tail(cmd)
    /\ IF stuck[c.slot]
       THEN /\ ResetSlot(c.slot) /\ UNCHANGED running
            /\ Say("error", c.slot, c.conn)
       ELSE running' = [slot |-> c.slot, conn |-> c.conn] /\ Well
            /\ Say("accept", c.slot, c.conn) /\ UNCHANGED <<kv, stuck>>
    /\ UNCHANGED <<pool, control, main, cur, turns, dead, clients>>
(* lmb_serve_control_reader: a CANCEL during the turn ends it, a late one is  *)
(* ignored; any other command during a turn is the end of the engine.         *)
EngineCancel ==
    /\ ~dead /\ cmd # <<>> /\ (running # NoTurn \/ Head(cmd).op = "cancel") /\ cmd' = Tail(cmd)
    /\ IF running = NoTurn THEN Well /\ UNCHANGED <<kv, stuck, frames, running, dead>>
       ELSE IF Head(cmd).op # "cancel" THEN dead' = TRUE /\ Well /\ UNCHANGED <<kv, stuck, frames, running>>
       ELSE /\ ResetSlot(running.slot) /\ Say("error", running.slot, running.conn)
            /\ running' = NoTurn /\ UNCHANGED dead
    /\ UNCHANGED <<pool, control, main, cur, turns, clients>>
EngineRuns ==
    /\ ~dead /\ running # NoTurn /\ running' = NoTurn
    /\ Say("done", running.slot, running.conn)
    /\ kv' = [kv EXCEPT ![running.slot] = @ \cup {running.conn}]
    /\ UNCHANGED <<pool, control, main, cur, turns, cmd, stuck, dead, clients, faults>>
EngineDies ==
    /\ Fault /\ ~dead /\ dead' = TRUE
    /\ UNCHANGED <<pool, control, main, cur, turns, cmd, frames, running, kv, stuck, clients>>
Leave(s) == /\ conn[s] # 0 /\ at[s] # "last" /\ ~Hung(s) /\ gone' = gone \cup {conn[s]}
            /\ UNCHANGED <<pool, control, main, cur, turns, cmd, frames, engine, next, asked, heard, faults>>

Worker(s) == \/ Receive(s) \/ Admit(s) \/ Queued(s) \/ Own(s) \/ Resetting(s) \/ Bridge(s)
             \/ (Hung(s) /\ Abandon(s)) \/ BridgeBreaks(s) \/ Drain(s) \/ Clear(s) \/ LastReset(s) \/ Close(s)
Main == Seal \/ Sealing \/ Join
Engine == EngineReset \/ EngineSubmit \/ EngineCancel \/ EngineRuns
Next == \/ Main \/ Accept \/ Engine \/ EngineDies
        \/ \E a \in {"drain", "resume", "retire"}, r \in {revision - 1, revision} : Control(a, r)
        \/ \E s \in Slot : Worker(s) \/ ClientCancel(s) \/ Abandon(s) \/ Leave(s)
(* Threads and the engine run.                                                *)
Spec == /\ Init /\ [][Next]_vars
        /\ WF_vars(Main) /\ WF_vars(Engine) /\ \A s \in Slot : WF_vars(Worker(s))
-----------------------------------------------------------------------------
(* What a client reads belongs to its own turns, and no turn starts in a slot *)
(* that still holds another conversation, whoever left it, however its last   *)
(* turn ended; only the owner of the turn gate has anything in the pipes; the *)
(* pool's counts are exact; and a retirement receipt means that no            *)
(* conversation is left anywhere.                                             *)
HostSound ==
    /\ heard
    /\ running # NoTurn /\ ~stuck[running.slot] => kv[running.slot] \subseteq {running.conn}
    /\ running # NoTurn /\ cmd # <<>> /\ ~stop => Head(cmd).op = "cancel"
    /\ (cmd # <<>> \/ frames # <<>>) /\ ~stop /\ main # "sealing" =>
         \/ \E s \in Slot : at[s] \in {"resetting", "bridge", "drain", "clear", "last"}
         \/ frames = <<>> /\ \A n \in DOMAIN cmd : cmd[n].op = "cancel"
    /\ workers = Cardinality({s \in Slot : at[s] # "free"})
    /\ requests = Cardinality({s \in Slot : admitted[s]})
    /\ sealed => \A s \in Slot : kv[s] = {} /\ at[s] = "free"
(* A client that is gone gives its slot back, wherever its turn was.          *)
Back(s) == conn[s] \in gone => at[s] = "free"
SlotsComeBack == \A s \in Slot : []<>Back(s)
=============================================================================
