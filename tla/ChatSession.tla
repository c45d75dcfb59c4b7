----------------------------- MODULE ChatSession -----------------------------
(***************************************************************************)
(* lumabri chat: processes of one machine, each with an engine child (or a *)
(* socket to a host) and, when its user shares, donor children.  model_    *)
(* boot tries a Segment chain and falls back to the expert engine; the     *)
(* compute donor needs the machine's lease, which its child inherits.      *)
(* Signals, crashes of any process and lines of the user interleave.       *)
(* (cmd_chat, model_boot, role_start, role_start_segment, engine_spawn,    *)
(* segment_engine_spawn, engine_wait_ready, engine_stop, on_sigint and     *)
(* host_connect in lumabri.c, lmb_machine_compute_lease_acquire in         *)
(* lumabri_machine.c.)                                                     *)
(***************************************************************************)
EXTENDS Integers, FiniteSets

CONSTANTS Chats,     \* the chat processes
          Hosted,    \* those with --host
          Shares,    \* chat -> subset of {"disk", "compute"}: its --role
          MaxLines,  \* bound: lines a user enters
          MaxFaults  \* bound: processes that crash

VARIABLES at,      \* chat -> where it is
          eng,     \* chat -> its engine: [st, seg, known]
          kid,     \* chat -> "disk", "compute" -> state of that donor
          listed,  \* chat -> donors in the published child table
          lease,   \* who holds the machine's compute lease open
          stop,    \* chat -> g_stopping
          roled,   \* chats whose role_start ran: once, also when it got nothing
          lines, faults

vars == <<at, eng, kid, listed, lease, stop, roled, lines, faults>>

Roles == {"disk", "compute"}
NoEngine == [st |-> "none", seg |-> FALSE, known |-> FALSE]
Ended == {"done", "left", "killed"}
Running == {"running", "termed"}

Init ==
  /\ at = [c \in Chats |-> "boot"]
  /\ eng = [c \in Chats |-> NoEngine]
  /\ kid = [c \in Chats |-> [r \in Roles |-> "none"]]
  /\ listed = [c \in Chats |-> {}]
  /\ lease = {}
  /\ stop = [c \in Chats |-> FALSE]
  /\ roled = {}
  /\ lines = 0
  /\ faults = 0

Goes(c, step) == at' = [at EXCEPT ![c] = step]
Engine(c, e) == eng' = [eng EXCEPT ![c] = e]

(* After a boot: the donors, the first time *)
Booted(c) == IF c \in roled THEN "prompt" ELSE "roles"

(* The fork of an engine, which inherits the lease when its chat holds it *)
Spawn(c, seg) ==
  /\ Engine(c, [st |-> "up", seg |-> seg, known |-> FALSE])
  /\ lease' = IF <<c, "chat">> \in lease THEN lease \cup {<<c, "engine">>} ELSE lease
  /\ Goes(c, "publish")

-----------------------------------------------------------------------------
(* host_connect: a session of a host, whose socket the handler knows *)
Connected == [st |-> "ready", seg |-> FALSE, known |-> TRUE]

(* model_boot: the swarm does not have the model, a Segment chain is tried  *)
(* when nobody executes experts, or the expert engine starts at once; a     *)
(* hosted chat connects instead                                             *)
Boot(c) ==
  /\ at[c] = "boot"
  /\ \/ Goes(c, "fail") /\ UNCHANGED <<eng, lease>>
     \/ c \in Hosted /\ Engine(c, Connected) /\ Goes(c, Booted(c)) /\ UNCHANGED lease
     \/ c \notin Hosted /\ \E seg \in BOOLEAN : Spawn(c, seg)
  /\ UNCHANGED <<kid, listed, stop, roled, lines, faults>>

(* engine_spawn and segment_engine_spawn after the fork: from here on the   *)
(* handler knows the engine                                                 *)
PublishEngine(c) ==
  /\ at[c] = "publish"
  /\ eng' = [eng EXCEPT ![c].known = TRUE]
  /\ Goes(c, "ready")
  /\ UNCHANGED <<kid, listed, lease, stop, roled, lines, faults>>

(* engine_wait_ready: a Segment miss falls back to the expert engine unless *)
(* Segment is required; an engine that never became ready ends the chat     *)
WaitReady(c) ==
  /\ at[c] = "ready"
  /\ \/ eng[c].st = "ready" /\ Goes(c, Booted(c)) /\ UNCHANGED <<eng, lease>>
     \/ eng[c].st = "exited" /\ eng[c].seg /\ Spawn(c, FALSE)
     \/ eng[c].st = "exited" /\ Engine(c, NoEngine) /\ Goes(c, "fail") /\ UNCHANGED lease
  /\ UNCHANGED <<kid, listed, stop, roled, lines, faults>>

(* cmd_chat returns at once when a boot failed, also after /model: donors   *)
(* of an earlier boot are left to the kernel (child_follow_parent)          *)
Fail(c) ==
  /\ at[c] = "fail"
  /\ Goes(c, "left")
  /\ kid' = [kid EXCEPT ![c] = [r \in Roles |-> IF @[r] = "running" THEN "termed" ELSE @[r]]]
  /\ lease' = lease \ {<<c, "chat">>}
  /\ UNCHANGED <<eng, listed, stop, roled, lines, faults>>

-----------------------------------------------------------------------------
(* Mutant: the lease closes on exec. *)
BugInherit(c) == lease

(* A compute donor inherits the open lease *)
Inherit(c) == lease \cup {<<c, "compute">>}

(* role_start, once: the disk donor, then the compute donor under the lease *)
StartDisk(c) ==
  /\ at[c] = "roles"
  /\ Goes(c, "compute")
  /\ IF "disk" \in Shares[c] /\ c \notin Hosted
     THEN /\ kid' = [kid EXCEPT ![c]["disk"] = "running"]
          /\ listed' = [listed EXCEPT ![c] = @ \cup {"disk"}]
     ELSE UNCHANGED <<kid, listed>>
  /\ roled' = roled \cup {c}
  /\ UNCHANGED <<eng, lease, stop, lines, faults>>

(* The lease is taken without waiting; a Segment donor is preferred when    *)
(* the chat runs on Segment, and is not in the child table before it        *)
(* answered its pre-flight                                                  *)
StartCompute(c) ==
  /\ at[c] = "compute"
  /\ IF "compute" \notin Shares[c] \/ c \in Hosted \/ lease # {}
     THEN Goes(c, "prompt") /\ UNCHANGED <<kid, listed, lease>>
     ELSE \/ /\ kid' = [kid EXCEPT ![c]["compute"] = "running"]
             /\ lease' = Inherit(c) \cup {<<c, "chat">>}
             /\ \/ eng[c].seg /\ Goes(c, "preflight") /\ UNCHANGED listed
                \/ listed' = [listed EXCEPT ![c] = @ \cup {"compute"}] /\ Goes(c, "prompt")
          \/ \* nothing could be started: the lease is given back
             Goes(c, "prompt") /\ UNCHANGED <<kid, listed, lease>>
  /\ UNCHANGED <<eng, stop, roled, lines, faults>>

(* The end of role_start_segment: kept when it said P within the deadline,  *)
(* else ended, and reaped before the expert donor starts                    *)
Preflight(c) ==
  /\ at[c] = "preflight"
  /\ \/ listed' = [listed EXCEPT ![c] = @ \cup {"compute"}] /\ Goes(c, "prompt") /\ UNCHANGED kid
     \/ /\ kid' = [kid EXCEPT ![c]["compute"] = IF @ = "running" THEN "termed" ELSE @]
        /\ Goes(c, "refused")
        /\ UNCHANGED listed
  /\ UNCHANGED <<eng, lease, stop, roled, lines, faults>>

Refused(c) ==
  /\ at[c] = "refused" /\ kid[c]["compute"] = "exited"
  /\ Goes(c, "prompt")
  /\ \/ /\ kid' = [kid EXCEPT ![c]["compute"] = "running"]
        /\ lease' = Inherit(c)
        /\ listed' = [listed EXCEPT ![c] = @ \cup {"compute"}]
     \/ /\ kid' = [kid EXCEPT ![c]["compute"] = "none"]
        /\ lease' = lease \ {<<c, "chat">>}
        /\ UNCHANGED listed
  /\ UNCHANGED <<eng, stop, roled, lines, faults>>

-----------------------------------------------------------------------------
(* The prompt polls the stop flag; a line starts a turn, ends the chat or   *)
(* switches the model                                                       *)
Prompt(c) ==
  /\ at[c] = "prompt"
  /\ IF stop[c] THEN Goes(c, "close") /\ UNCHANGED <<eng, lines>>
     ELSE /\ lines < MaxLines
          /\ lines' = lines + 1
          /\ \/ Goes(c, "close") /\ UNCHANGED eng
             \/ c \notin Hosted /\ Goes(c, "switch") /\ UNCHANGED eng
             \/ /\ Goes(c, "turn")
                /\ eng' = [eng EXCEPT ![c].st = IF @ = "ready" THEN "busy" ELSE @]
  /\ UNCHANGED <<kid, listed, lease, stop, roled, faults>>

(* The streaming of a reply ends with the reply, with a request that        *)
(* failed, or with the end of the stream                                    *)
Turn(c) ==
  /\ at[c] = "turn"
  /\ eng[c].st \in {"replied", "exited", "termed"}
  /\ IF eng[c].st = "replied" /\ ~stop[c]
     THEN Goes(c, "prompt") /\ eng' = [eng EXCEPT ![c].st = "ready"]
     ELSE eng[c].st # "termed" /\ Goes(c, "close") /\ UNCHANGED eng
  /\ UNCHANGED <<kid, listed, lease, stop, roled, lines, faults>>

(* engine_stop: EOF lets a Segment gateway close its sessions for a bounded *)
(* time, then SIGTERM; the child is always waited for.  A socket is closed  *)
StopEngine(c) ==
  /\ at[c] \in {"close", "switch"}
  /\ LET e == eng[c]
         next == IF at[c] = "close" THEN "donors" ELSE "boot"
     IN CASE c \in Hosted \/ e.st \in {"none", "exited"} -> Engine(c, NoEngine) /\ Goes(c, next)
          [] e.st = "termed" -> eng' = [eng EXCEPT ![c].known = FALSE] /\ e.known /\ UNCHANGED at
          [] e.st = "eof" -> eng' = [eng EXCEPT ![c].st = "termed"] /\ UNCHANGED at
          [] OTHER -> Engine(c, [st |-> IF e.seg /\ ~stop[c] THEN "eof" ELSE "termed", seg |-> e.seg, known |-> FALSE])
                      /\ UNCHANGED at
  /\ UNCHANGED <<kid, listed, lease, stop, roled, lines, faults>>

(* The end of cmd_chat: each donor is unpublished, ended and waited for,    *)
(* then the lease is closed                                                 *)
StopDonors(c) ==
  /\ at[c] = "donors"
  /\ IF \E r \in listed[c] : kid[c][r] = "running"
     THEN /\ kid' = [kid EXCEPT ![c] = [r \in Roles |-> IF r \in listed[c] /\ @[r] = "running" THEN "termed" ELSE @[r]]]
          /\ UNCHANGED <<at, lease>>
     ELSE /\ \A r \in listed[c] : kid[c][r] = "exited"
          /\ Goes(c, "done")
          /\ lease' = lease \ {<<c, "chat">>}
          /\ UNCHANGED kid
  /\ UNCHANGED <<eng, listed, stop, roled, lines, faults>>

-----------------------------------------------------------------------------
(* Mutant: the handler forgets the engine. *)
BugAsked(c) == eng[c]

(* What the handler does to the engine it knows: SIGTERM, or the socket     *)
(* shut down for reading                                                    *)
Asked(c) ==
  IF ~eng[c].known \/ eng[c].st \in {"none", "exited"} THEN eng[c]
  ELSE [eng[c] EXCEPT !.st = IF c \in Hosted THEN "exited" ELSE "termed"]

(* on_sigint, first signal *)
Signal(c) ==
  /\ at[c] \notin Ended /\ ~stop[c]
  /\ stop' = [stop EXCEPT ![c] = TRUE]
  /\ eng' = [eng EXCEPT ![c] = Asked(c)]
  /\ kid' = [kid EXCEPT ![c] = [r \in Roles |-> IF r \in listed[c] /\ @[r] = "running" THEN "termed" ELSE @[r]]]
  /\ UNCHANGED <<at, listed, lease, roled, lines, faults>>

(* The second signal, or a crash: the kernel ends the donors, the engine    *)
(* reads end of file, the lease closes with the process                     *)
Killed(c) ==
  /\ at[c] \notin Ended
  /\ \/ stop[c] /\ UNCHANGED faults
     \/ faults < MaxFaults /\ faults' = faults + 1
  /\ Goes(c, "killed")
  /\ eng' = [eng EXCEPT ![c].st = IF @ \in {"none", "exited"} THEN @ ELSE "termed"]
  /\ kid' = [kid EXCEPT ![c] = [r \in Roles |-> IF @[r] = "running" THEN "termed" ELSE @[r]]]
  /\ lease' = lease \ {<<c, "chat">>}
  /\ UNCHANGED <<listed, stop, roled, lines>>

(* The engine: it becomes ready or exits, answers a turn, and ends when it  *)
(* is asked to                                                              *)
Becomes(c, s) ==
  /\ eng' = [eng EXCEPT ![c].st = s]
  /\ lease' = IF s = "exited" THEN lease \ {<<c, "engine">>} ELSE lease
  /\ UNCHANGED <<at, kid, listed, stop, roled, lines, faults>>

EngineBoots(c) == eng[c].st = "up" /\ \E s \in {"ready", "exited"} : Becomes(c, s)
EngineReplies(c) == eng[c].st = "busy" /\ \E s \in {"replied", "exited"} : Becomes(c, s)
EngineEnds(c) == eng[c].st \in {"termed", "eof"} /\ Becomes(c, "exited")

(* A donor ends when it is asked to, or crashes; its copy of the lease ends *)
DonorEnds(c) ==
  /\ \E r \in Roles :
       /\ \/ kid[c][r] = "termed" /\ UNCHANGED faults
          \/ kid[c][r] = "running" /\ faults < MaxFaults /\ faults' = faults + 1
       /\ kid' = [kid EXCEPT ![c][r] = "exited"]
       /\ lease' = lease \ {<<c, r>>}
  /\ UNCHANGED <<at, eng, listed, stop, roled, lines>>

Steps(c) ==
  \/ Boot(c) \/ PublishEngine(c) \/ WaitReady(c) \/ Fail(c) \/ StartDisk(c) \/ StartCompute(c) \/ Preflight(c)
  \/ Refused(c) \/ Prompt(c) \/ Turn(c) \/ StopEngine(c) \/ StopDonors(c)

Next ==
  \E c \in Chats :
    Steps(c) \/ Signal(c) \/ Killed(c) \/ EngineBoots(c) \/ EngineReplies(c) \/ EngineEnds(c) \/ DonorEnds(c)

Spec == Init /\ [][Next]_vars

Told(r, c) == kid[c][r] = "termed" /\ DonorEnds(c)
(* Each process runs, an engine that boots becomes ready or exits, and what *)
(* is asked to end ends; a reply may never come.                            *)
Fairness ==
  \A c \in Chats :
    /\ WF_vars(Steps(c)) /\ WF_vars(EngineBoots(c)) /\ WF_vars(EngineEnds(c))
    /\ \A r \in Roles : WF_vars(Told(r, c))

FairSpec == Spec /\ Fairness

-----------------------------------------------------------------------------
(* Whoever crashes or is killed, at most one compute donor lives on the     *)
(* machine, and a chat that ended in order leaves no process behind.        *)
OneDonorPerMachine ==
  /\ Cardinality({c \in Chats : kid[c]["compute"] \in Running}) <= 1
  /\ \A c \in Chats : at[c] = "done" => eng[c].st = "none" /\ \A r \in Roles : kid[c][r] \notin Running

(* One signal ends a chat, wherever it is, although the engine may never    *)
(* answer the turn it is in.                                                *)
Stopped(c) == stop[c] => at[c] \in Ended
ChatStops == \A c \in Chats : []<>Stopped(c)

=============================================================================
