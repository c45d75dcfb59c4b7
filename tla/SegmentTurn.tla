----------------------------- MODULE SegmentTurn -----------------------------
(* A turn of the Segment chat (segment_chat.c). The Edge keeps, on one donor  *)
(* of every stage of the model, a session that holds the KV state of the      *)
(* conversation; tokens go through the stages in order, in chunks of MaxRows. *)
(* Donors die and come back under another lease, registrations of others move *)
(* the tracker's generation, requests and replies are lost, sessions expire.  *)
(* The Edge then opens another chain, restores the last checkpoint, replays   *)
(* what came after it, and goes on. A session's state is the history of the   *)
(* tokens it has run; an activation is the history it was computed from.      *)
EXTENDS Integers, Sequences, SequencesExt, FiniteSets
CONSTANTS Stages, Peer, StageOf,
          First,           \* the prompt that starts a chat
          User,            \* token of a user that continues one
          MaxRows, Wanted, Eos, MaxTurns, MaxFaults
VARIABLES sess,            \* Peer -> (session id -> history)
          lease, gen,      \* Peer -> its lease; the tracker's route generation
          view,            \* what discovery last heard of them
          conv,            \* SegmentConversation
          pc, prompt, out, off,  \* off: tokens that went through every stage
          i, act, again,   \* stage in work, its input, the chunk is a second try
          fresh, tried, failed, dead, refreshes, stale,   \* conversation_recover
          shots,           \* conversation_checkpoint: snapshots so far
          result, turns, faults
world == <<sess, lease, gen>>
turn == <<prompt, out, off>>
rec == <<fresh, tried, failed, dead, refreshes, stale>>
rest == <<result, turns, shots>>
vars == <<world, view, conv, pc, turn, i, act, again, rec, rest, faults>>

Stage == 1 .. Stages
Wrong == <<-1>>
(* The engine: the token it picks depends on every token of the history, in   *)
(* order.                                                                     *)
Pick(h) == FoldLeft(LAMBDA a, t : (3 * a + t + 1) % 7, 0, h)
Link(p, v, id) == [peer |-> p, lease |-> v.lease[p], gen |-> v.gen, id |-> id,
                   pos |-> 0, open |-> FALSE]
NoConv == [active |-> FALSE, chain |-> <<>>, gen |-> 0, committed |-> <<>>,
           ckpt |-> 0, snaps |-> [s \in Stage |-> Wrong]]
Now == [lease |-> lease, gen |-> gen]
Init ==
    /\ sess = [p \in Peer |-> <<>>] /\ lease = [p \in Peer |-> 1] /\ gen = 1
    /\ view = Now /\ conv = NoConv
    /\ pc = "idle" /\ prompt = <<>> /\ out = <<>> /\ off = 0
    /\ i = 1 /\ act = <<>> /\ again = FALSE
    /\ fresh = <<>> /\ tried = {} /\ failed = 0 /\ dead = FALSE
    /\ refreshes = 0 /\ stale = FALSE
    /\ shots = <<>> /\ result = "done" /\ turns = 0 /\ faults = 0

Fault == faults < MaxFaults /\ faults' = faults + 1
Well == UNCHANGED faults
Go(s) == pc' = s /\ i' = 1
(* A session id is random: nobody else uses it.                               *)
NewId == CHOOSE n \in 1 .. 20 :
    /\ \A p \in Peer : n \notin DOMAIN sess[p]
    /\ \A s \in DOMAIN conv.chain : conv.chain[s].id # n
Held(l) == l.id \in DOMAIN sess[l.peer]
Put(l, h) == sess' = [sess EXCEPT ![l.peer] = [n \in DOMAIN @ \cup {l.id} |-> IF n = l.id THEN h ELSE @[n]]]
Without(l) == [sess EXCEPT ![l.peer] = [n \in DOMAIN @ \ {l.id} |-> @[n]]]
-----------------------------------------------------------------------------
(* The world: a donor restarts; some other donor registers; a session that    *)
(* nobody used for its time to live is dropped.                               *)
Crash(p) ==
    /\ Fault /\ sess' = [sess EXCEPT ![p] = <<>>]
    /\ lease' = [lease EXCEPT ![p] = @ + 1] /\ gen' = gen + 1
    /\ UNCHANGED <<view, conv, pc, turn, i, act, again, rec, rest>>
Bump == /\ Fault /\ gen' = gen + 1
        /\ UNCHANGED <<sess, lease, view, conv, pc, turn, i, act, again, rec, rest>>
Expire(p, n) ==
    /\ IF pc = "idle" /\ n \in {conv.chain[s].id : s \in DOMAIN conv.chain} THEN Fault
       ELSE Well /\ \A l \in Range(conv.chain) \cup Range(fresh) : l.id # n
    /\ sess' = [sess EXCEPT ![p] = [m \in DOMAIN @ \ {n} |-> @[m]]]
    /\ UNCHANGED <<lease, gen, view, conv, pc, turn, i, act, again, rec, rest>>
-----------------------------------------------------------------------------
(* SUBMIT: a chat goes on, another one begins, or the same prompt comes again.*)
Asked == {First, prompt \o out \o <<User>>} \cup (IF prompt = <<>> THEN {} ELSE {prompt})
SamePrefix(p) == IsPrefix(conv.committed, p)
(* serve_select_chain: a donor for every stage of the model; which one scores *)
(* best is not this module's matter.                                          *)
Routes == {route \in [Stage -> Peer] : \A s \in Stage : StageOf[route[s]] = s}
(* conversation_route_equal and the reuse of the resident prefix.             *)
Submit(p, route) ==
    LET new == IF view' = view THEN view ELSE Now
        same == /\ conv.active /\ conv.gen = new.gen
                /\ \A s \in Stage : conv.chain[s].peer = route[s]
    IN
    /\ pc = "idle" /\ turns < MaxTurns /\ turns' = turns + 1
    /\ view' \in {view, Now}
    /\ prompt' = p /\ out' = <<>> /\ again' = FALSE /\ act' = <<>>
    /\ fresh' = [s \in Stage |-> Link(route[s], new, 0)]
    /\ IF same /\ SamePrefix(p)
       THEN /\ off' = Len(conv.committed)
            /\ Go(IF Len(conv.committed) >= Len(p) THEN "fail" ELSE "run")
       ELSE off' = 0 /\ Go("reset")
    /\ result' = "busy"
    /\ UNCHANGED <<world, conv, tried, failed, dead, refreshes, stale, shots, faults>>
(* remote_close: up to four attempts, confirmed or not.                       *)
Close(l, confirmed) ==
    IF ~l.open THEN confirmed /\ Well /\ UNCHANGED sess
    ELSE IF confirmed THEN Well /\ sess' = Without(l)
    ELSE Fault /\ sess' \in {sess, Without(l)}
(* RESET_SLOT between two turns: the chat leaves its slot.                    *)
ResetSlot ==
    /\ pc = "idle" /\ conv.chain # <<>> /\ turns < MaxTurns /\ Go("clear")
    /\ UNCHANGED <<world, view, conv, turn, act, again, rec, rest, faults>>
(* conversation_reset, stage by stage; an unconfirmed session is remembered.  *)
Reset ==
    /\ pc \in {"reset", "fail", "clear"} /\ i <= Len(conv.chain)
    /\ \E ok \in BOOLEAN :
        /\ Close(conv.chain[i], ok)
        /\ conv' = [conv EXCEPT !.chain[i].open = ~ok, !.snaps[i] = Wrong]
    /\ i' = i + 1
    /\ UNCHANGED <<lease, gen, view, pc, turn, act, again, rec, rest>>
(* Then the chain of the new turn is opened under one new session id; a turn  *)
(* that failed, or that cannot release the old sessions, ends.                *)
ResetDone ==
    LET kept == \E l \in Range(conv.chain) : l.open
        left == IF kept THEN [conv EXCEPT !.active = FALSE, !.committed = <<>>, !.ckpt = 0]
                ELSE NoConv
    IN
    /\ pc \in {"reset", "fail", "clear"} /\ i > Len(conv.chain)
    /\ IF pc # "reset"
       THEN /\ Go("idle") /\ conv' = left /\ UNCHANGED fresh
            /\ result' = IF pc = "fail" THEN "failed" ELSE result
       ELSE IF kept THEN Go("fail") /\ conv' = left /\ UNCHANGED <<result, fresh>>
       ELSE /\ conv' = [NoConv EXCEPT !.chain = [s \in Stage |-> [fresh[s] EXCEPT !.id = NewId]],
                                      !.gen = view.gen]
            /\ fresh' = <<>> /\ Go("open") /\ UNCHANGED result
    /\ refreshes' = 0
    /\ UNCHANGED <<world, view, turn, act, again, tried, failed, dead, stale, turns, shots, faults>>
-----------------------------------------------------------------------------
(* What a donor answers to OPEN; a lost OPEN may have made the session.       *)
Fits(l) == l.lease = lease[l.peer] /\ l.gen = gen
Opened(l) == Fits(l) /\ Well /\ Put(l, <<>>)
NotOpened(l) ==
    \/ ~Fits(l) /\ Well /\ UNCHANGED sess
    \/ Fault /\ UNCHANGED sess
    \/ Fits(l) /\ Fault /\ Put(l, <<>>)
(* Mutant: a refresh is not counted.                                          *)
BugRefreshed == refreshes
Refreshed == refreshes + 1
(* remote_open_current: a stale generation of the same lease is refreshed,    *)
(* twice at most; the tracker that answers may know no newer one.             *)
Open ==
    /\ pc = "open" /\ i <= Stages
    /\ \/ /\ Opened(conv.chain[i])
          /\ conv' = [conv EXCEPT !.chain[i].open = TRUE, !.active = (i = Stages)]
          /\ refreshes' = 0
          /\ IF i = Stages THEN Go("run") ELSE i' = i + 1 /\ UNCHANGED pc
       \/ NotOpened(conv.chain[i]) /\ Go("fail") /\ UNCHANGED <<conv, refreshes>>
       \/ /\ ~Fits(conv.chain[i]) /\ refreshes < 2 /\ conv.chain[i].lease = lease[conv.chain[i].peer]
          /\ \E g \in {gen, conv.chain[i].gen} : conv' = [conv EXCEPT !.chain[i].gen = g]
          /\ refreshes' = Refreshed
          /\ Well /\ UNCHANGED <<sess, pc, i>>
    /\ UNCHANGED <<lease, gen, view, turn, act, again, fresh, tried, failed, dead, stale, rest>>

History == prompt \o out
ToRun(from, all) == SubSeq(all, from + 1, IF from + MaxRows < Len(all) THEN from + MaxRows ELSE Len(all))
Rows == IF off < Len(prompt) THEN ToRun(off, prompt) ELSE ToRun(off, History)
(* A RUN is executed once, at the position both sides agree on; sent directly *)
(* and again through the relay, its second answer is a duplicate's. What      *)
(* comes back was computed from what the stage holds.                         *)
Executes(l) == Held(l) /\ l.pos = Len(sess[l.peer][l.id])
After(l, rows) == sess[l.peer][l.id] \o rows
Output(l, rows, s) == IF s = 1 \/ act = After(l, rows) THEN After(l, rows) ELSE Wrong
NotRun(l, rows) ==
    \/ ~Executes(l) /\ Well /\ UNCHANGED sess /\ dead' = FALSE
    \/ Fault /\ UNCHANGED sess /\ dead' \in BOOLEAN
    \/ Executes(l) /\ Fault /\ Put(l, After(l, rows)) /\ dead' = TRUE
(* segment_generate: a chunk of the prompt or the last token through stage i. *)
Run ==
    LET l == conv.chain[i] IN
    /\ pc = "run" /\ i <= Stages
    /\ Executes(l) /\ Well /\ Put(l, After(l, Rows))
    /\ act' = Output(l, Rows, i) /\ i' = i + 1
    /\ conv' = [conv EXCEPT !.chain[i].pos = @ + Len(Rows)]
    /\ UNCHANGED <<lease, gen, view, pc, turn, again, rec, rest>>
(* The last row selects a token once the prompt has gone through; the token   *)
(* that ends the answer is not run.                                           *)
Select ==
    LET now == off + Len(Rows)
        said == IF now < Len(prompt) THEN out ELSE Append(out, Pick(act))
    IN
    /\ pc = "run" /\ i > Stages
    /\ off' = now /\ out' = said
    /\ IF said # <<>> /\ (Len(said) = Wanted \/ Last(said) = Eos) THEN Go("save") ELSE Go("run")
    /\ again' = FALSE /\ act' = <<>>
    /\ UNCHANGED <<world, view, conv, prompt, rec, rest, faults>>
(* A failed stage is recovered once per chunk.                                *)
RunFails ==
    /\ pc = "run" /\ i <= Stages /\ NotRun(conv.chain[i], Rows)
    /\ IF again THEN Go("fail") /\ UNCHANGED <<failed, tried, refreshes, view, stale>>
       ELSE /\ Go("choose") /\ failed' = i /\ tried' = {} /\ refreshes' = 0 /\ stale' = FALSE
            /\ view' \in {view, Now}
    /\ act' = <<>>
    /\ UNCHANGED <<lease, gen, conv, turn, again, fresh, rest>>
(* The chat is cancelled, or whoever reads it is gone: seen between two       *)
(* chunks, and once more before DONE.                                         *)
Cancel == /\ (pc = "run" /\ i = 1) \/ pc = "save"
          /\ Fault /\ Go("fail") /\ shots' = <<>>
          /\ UNCHANGED <<world, view, conv, turn, act, again, rec, result, turns>>
-----------------------------------------------------------------------------
(* recovery_route_better: after a refusal the same donor comes first, after a *)
(* dead transport the others; every donor of the range is tried once.         *)
Best == LET all == {p \in Peer \ tried : StageOf[p] = failed}
            here == all \cap {conv.chain[failed].peer}
            first == IF dead THEN all \ here ELSE here
        IN IF first = {} THEN all ELSE first
Choose ==
    /\ pc = "choose"
    /\ IF Best = {} THEN Go("fail") /\ UNCHANGED <<fresh, tried, stale>>
       ELSE \E p \in Best :
            /\ tried' = tried \cup {p} /\ stale' = FALSE
            /\ fresh' = [s \in Stage |-> Link(IF s = failed THEN p ELSE conv.chain[s].peer, view, NewId)]
            /\ Go("reopen")
    /\ UNCHANGED <<world, view, conv, turn, act, again, failed, dead, refreshes, rest, faults>>
(* conversation_recover_attempt: every stage is opened under one new id ...   *)
Reopen ==
    /\ pc = "reopen"
    /\ \/ /\ Opened(fresh[i]) /\ fresh' = [fresh EXCEPT ![i].open = TRUE] /\ UNCHANGED stale
          /\ IF conv.ckpt > 0 THEN pc' = "restore" /\ UNCHANGED i
             ELSE IF i = Stages THEN Go("replay") ELSE i' = i + 1 /\ UNCHANGED pc
       \/ /\ NotOpened(fresh[i]) /\ Go("drop") /\ UNCHANGED fresh
          /\ stale' = (~Fits(fresh[i]))
    /\ UNCHANGED <<lease, gen, view, conv, turn, act, again, tried, failed, dead, refreshes, rest>>
(* ... and restored at the common checkpoint ...                              *)
Restore ==
    LET l == fresh[i] IN
    /\ pc = "restore"
    /\ \/ /\ Held(l) /\ conv.snaps[i] # Wrong /\ Len(conv.snaps[i]) = conv.ckpt
          /\ Well /\ Put(l, conv.snaps[i])
          /\ fresh' = [fresh EXCEPT ![i].pos = conv.ckpt]
          /\ IF i = Stages THEN Go("replay") ELSE i' = i + 1 /\ pc' = "reopen"
       \/ (IF Held(l) THEN Fault ELSE Well) /\ Go("drop") /\ UNCHANGED <<sess, fresh>>
    /\ UNCHANGED <<lease, gen, view, conv, turn, act, again, tried, failed, dead, refreshes, stale, rest>>
(* Mutant: the replay starts with the turn, not with the checkpoint.          *)
BugFrom(l) == IF l.pos = 0 THEN Len(conv.committed) ELSE l.pos
From(l) == l.pos
(* ... then what was run since is run again, chunk by chunk.                  *)
Replay ==
    LET l == fresh[i]
        rows == ToRun(From(l), SubSeq(History, 1, off)) IN
    /\ pc = "replay"
    /\ IF From(l) >= off /\ i = 1 THEN Go("swap") /\ Well /\ UNCHANGED <<sess, fresh, stale>>
       ELSE \/ /\ Executes(l) /\ Well /\ Put(l, After(l, rows))
               /\ fresh' = [fresh EXCEPT ![i].pos = @ + Len(rows)]
               /\ i' = (i % Stages) + 1 /\ UNCHANGED <<pc, stale>>
            \/ /\ (IF Executes(l) THEN Fault ELSE Well) /\ UNCHANGED <<sess, fresh>> /\ stale' = FALSE
               /\ Go("drop")
    /\ UNCHANGED <<lease, gen, view, conv, turn, act, again, tried, failed, dead, refreshes, rest>>
(* The new chain takes over, stage by stage; the old session is closed, but   *)
(* not over a transport that is dead, and forgotten either way.               *)
Swap ==
    /\ pc = "swap"
    /\ IF i = failed /\ dead THEN Well /\ UNCHANGED sess
       ELSE \E ok \in BOOLEAN : Close(conv.chain[i], ok)
    /\ conv' = [conv EXCEPT !.chain[i] = fresh[i],
                            !.gen = IF i = Stages THEN view.gen ELSE @]
    /\ IF i = Stages THEN Go("run") /\ again' = TRUE /\ fresh' = <<>>
       ELSE i' = i + 1 /\ UNCHANGED <<pc, again, fresh>>
    /\ UNCHANGED <<lease, gen, view, turn, act, tried, failed, dead, refreshes, stale, rest>>
(* A failed attempt gives its sessions back; after a stale answer the view is *)
(* refreshed, twice at most, and every donor may be tried again.              *)
Drop ==
    /\ pc = "drop"
    /\ \E ok \in BOOLEAN : Close(fresh[i], ok)
    /\ IF i < Stages THEN i' = i + 1 /\ UNCHANGED <<pc, fresh, tried, refreshes, view>>
       ELSE /\ Go("choose") /\ fresh' = <<>>
            /\ \/ /\ stale /\ refreshes < 2 /\ refreshes' = Refreshed /\ tried' = {}
                  /\ view' \in {view, Now}
               \/ UNCHANGED <<view, refreshes, tried>>
    /\ UNCHANGED <<lease, gen, conv, turn, act, again, failed, dead, stale, rest>>
-----------------------------------------------------------------------------
HasReplica == \E p \in Peer : \A l \in Range(conv.chain) : l.peer # p
(* remote_snapshot: the state at the position both sides agree on.            *)
Snapshot(l, ok) == IF ok THEN Executes(l) /\ Well ELSE IF Executes(l) THEN Fault ELSE Well
(* conversation_checkpoint: the snapshots of all stages, or none.             *)
Save ==
    LET l == conv.chain[i] IN
    /\ pc = "save" /\ HasReplica /\ i <= Stages
    /\ \/ Snapshot(l, TRUE) /\ i' = i + 1 /\ shots' = Append(shots, sess[l.peer][l.id])
       \/ Snapshot(l, FALSE) /\ i' = Stages + 1 /\ shots' = <<>>
    /\ UNCHANGED <<world, view, conv, pc, turn, act, again, rec, result, turns>>
(* Mutant: the token that ended the answer is counted as resident too.        *)
BugResident == History
Resident == Front(History)
(* The turn is committed: every token but the last one is resident.           *)
Commit ==
    /\ pc = "save" /\ (HasReplica => i > Stages)
    /\ conv' = [conv EXCEPT !.committed = Resident,
                  !.ckpt = IF shots # <<>> THEN Len(Resident) ELSE @,
                  !.snaps = IF shots # <<>> THEN shots ELSE @]
    /\ result' = "done" /\ Go("idle") /\ shots' = <<>>
    /\ UNCHANGED <<world, view, turn, act, again, rec, turns, faults>>

Step == \/ Reset \/ ResetDone \/ Open \/ Run \/ Select \/ RunFails \/ Choose \/ Reopen \/ Restore
        \/ Replay \/ Swap \/ Drop \/ Save \/ Commit
Next == \/ Step \/ Cancel \/ Bump \/ ResetSlot
        \/ \E p \in Peer : Crash(p) \/ \E n \in DOMAIN sess[p] : Expire(p, n)
        \/ \E p \in Asked, route \in Routes : Submit(p, route)
(* The Edge goes on: no call waits for ever, every one has a deadline.        *)
Spec == Init /\ [][Next]_vars /\ WF_vars(Step)
-----------------------------------------------------------------------------
(* However often donors die, routes move, sessions expire and replies are     *)
(* lost, in whatever step of a turn, and whether the state was reused,        *)
(* restored or replayed: the answer is the model's own continuation of the    *)
(* prompt, with no token lost, doubled or computed from a gap.                *)
Promise == INSTANCE Answer WITH
    Prompts <- Seq(Nat), asked <- prompt, answer <- out, mode <- result
AnswerIsKept == Promise!Spec
(* Every turn ends, with its answer or with a failure.                        *)
TurnsEnd == []<>(result # "busy")
=============================================================================
