----------------------------- MODULE Supervisor -----------------------------
(***************************************************************************)
(* lumabri serve: what one command starts on a machine, and the loop that  *)
(* keeps it running.  The loop owns the child table; an asynchronous       *)
(* signal handler reads only the published slots, between any two of its   *)
(* assignments.  Children exit, are killed, or refuse a slice that does    *)
(* not fit (exit 3).  The length of a restart delay is abstracted.         *)
(* (cmd_serve, spawn_tracked_logged, child_publish, child_unpublish and    *)
(* on_sigint in lumabri.c.)                                                *)
(***************************************************************************)
EXTENDS Integers, Sequences, SequencesExt

CONSTANTS Layers,   \* layers of the model
          Chunks,   \* LUMABRI_SEGMENT_CHUNKS
          MaxPids   \* bound: processes ever started

VARIABLES at,       \* where the supervisor is
          kids,     \* pid -> [prog, state]: started processes, in order
          slots,    \* g_children: slot -> pid
          argv,     \* g_cargv: slot -> program to start again
          sig,      \* g_signal_children: slot -> pid, 0 for none
          n,        \* g_nchildren
          stopping

vars == <<at, kids, slots, argv, sig, n, stopping>>

Pid == 1 .. MaxPids

(* The slices of an origin: as equal as whole layers allow, never empty *)
Slices ==
  LET chunks == IF Chunks > Layers THEN Layers ELSE Chunks
  IN [k \in 1 .. chunks |-> <<"segment", (Layers * (k - 1)) \div chunks, (Layers * k) \div chunks>>]

Slot == 1 .. (3 + Len(Slices))
Alive(p) == kids[p].state \in {"running", "termed"}

(* The topology cmd_serve resolves before it forks: a donor of disk serves  *)
(* only bytes, and a joined host computes only with the machine's lease     *)
Plan(join, disk, experts, segments, lease) ==
  LET compute == ~disk /\ (join => lease)
      When(c, s) == IF c THEN s ELSE <<>>
  IN When(~join, <<<<"tracker">>>>) \o <<<<"maintainer">>>>
     \o When(compute /\ experts, <<<<"experts">>>>) \o When(compute /\ segments, Slices)

Init ==
  /\ at = [step |-> "plan"]
  /\ kids = <<>>
  /\ slots = [i \in Slot |-> 0]
  /\ argv = [i \in Slot |-> <<>>]
  /\ sig = [i \in Slot |-> 0]
  /\ n = 0
  /\ stopping = FALSE

(* Every port is tried before anything is started: a taken one ends it *)
Prepare ==
  /\ at.step = "plan"
  /\ \E join, disk, experts, segments, lease \in BOOLEAN :
       at' \in {[step |-> "ended"], [step |-> "start", todo |-> Plan(join, disk, experts, segments, lease)]}
  /\ UNCHANGED <<kids, slots, argv, sig, n, stopping>>

Fork(prog) == kids' = Append(kids, [prog |-> prog, state |-> "running"])

(* spawn_tracked_logged for each program; the handlers are installed last *)
Start ==
  /\ at.step = "start"
  /\ IF at.todo = <<>> THEN at' = [step |-> "wait"] /\ UNCHANGED <<kids, slots, argv, sig, n>>
     ELSE /\ Fork(Head(at.todo))
          /\ argv' = [argv EXCEPT ![n + 1] = Head(at.todo)]
          /\ slots' = [slots EXCEPT ![n + 1] = Len(kids) + 1]
          /\ sig' = [sig EXCEPT ![n + 1] = Len(kids) + 1]
          /\ n' = n + 1
          /\ at' = [at EXCEPT !.todo = Tail(@)]
  /\ UNCHANGED stopping

(* wait(): a child that ended is reaped, and its slot decides *)
Wait ==
  /\ at.step = "wait" /\ n > 0
  /\ \E p \in DOMAIN kids :
       /\ kids[p].state \in {"exited", "refused"}
       /\ kids' = [kids EXCEPT ![p].state = "reaped"]
       /\ LET i == CHOOSE j \in 1 .. n : slots[j] = p
          IN at' = IF ~stopping /\ kids[p].state = "exited" THEN [step |-> "delay", slot |-> i, dead |-> p]
                   ELSE [step |-> "move", slot |-> i]
  /\ UNCHANGED <<slots, argv, sig, n, stopping>>

(* After the delay the slot's program is started again *)
Restart ==
  /\ at.step = "delay" /\ Len(kids) < MaxPids
  /\ Fork(argv[at.slot])
  /\ at' = [step |-> "publish", slot |-> at.slot, dead |-> at.dead, new |-> Len(kids) + 1]
  /\ UNCHANGED <<slots, argv, sig, n, stopping>>

(* child_publish of the restarted child *)
Publish ==
  /\ at.step = "publish"
  /\ slots' = [slots EXCEPT ![at.slot] = at.new]
  /\ sig' = [sig EXCEPT ![at.slot] = at.new]
  /\ at' = [step |-> "wait"]
  /\ UNCHANGED <<kids, argv, n, stopping>>

(* Mutant: the last slot is cleared before its child is moved. *)
BugMove ==
  /\ at.step = "move"
  /\ slots' = [slots EXCEPT ![at.slot] = slots[n]]
  /\ sig' = [sig EXCEPT ![n] = 0]
  /\ at' = [step |-> "clear", slot |-> at.slot]
  /\ UNCHANGED <<kids, argv, n, stopping>>

(* The last child moves into the free slot: published there first *)
Move ==
  /\ at.step = "move"
  /\ slots' = [slots EXCEPT ![at.slot] = slots[n]]
  /\ sig' = [sig EXCEPT ![at.slot] = IF at.slot # n THEN slots[n] ELSE @]
  /\ at' = [step |-> "clear", slot |-> at.slot]
  /\ UNCHANGED <<kids, argv, n, stopping>>

(* child_unpublish of the last slot *)
Clear ==
  /\ at.step = "clear"
  /\ slots' = [slots EXCEPT ![n] = 0]
  /\ sig' = [sig EXCEPT ![n] = 0]
  /\ n' = n - 1
  /\ at' = [step |-> "wait"]
  /\ UNCHANGED <<kids, argv, stopping>>

(* The loop ends with its last child *)
End ==
  /\ at.step = "wait" /\ n = 0
  /\ at' = [step |-> "ended"]
  /\ UNCHANGED <<kids, slots, argv, sig, n, stopping>>

-----------------------------------------------------------------------------
Terminated(pids) ==
  kids' = [p \in DOMAIN kids |-> IF p \in pids /\ kids[p].state = "running"
                                 THEN [kids[p] EXCEPT !.state = "termed"] ELSE kids[p]]

(* on_sigint: the published children are asked to end; a second signal is   *)
(* _exit, after which the kernel signals every child (child_follow_parent)  *)
Signal ==
  /\ at.step \notin {"plan", "start", "ended"}
  /\ IF stopping THEN Terminated(DOMAIN kids) /\ at' = [step |-> "ended"] /\ UNCHANGED stopping
     ELSE Terminated({sig[i] : i \in Slot}) /\ stopping' = TRUE /\ UNCHANGED at
  /\ UNCHANGED <<slots, argv, sig, n>>

(* A child ends; a slice may refuse its range *)
Ends(p) ==
  /\ p \in DOMAIN kids /\ Alive(p)
  /\ \E how \in {"exited", "refused"} :
       /\ how = "refused" => kids[p].prog \in Range(Slices)
       /\ kids' = [kids EXCEPT ![p].state = how]
  /\ UNCHANGED <<at, slots, argv, sig, n, stopping>>

Loop == Start \/ Wait \/ Restart \/ Publish \/ Move \/ Clear \/ End
Next == Prepare \/ Loop \/ Signal \/ \E p \in Pid : Ends(p)

Spec == Init /\ [][Next]_vars

-----------------------------------------------------------------------------
(* Whenever the signal arrives, also half-way through a removal, it finds   *)
(* every child that is still alive in a published slot, but for the one     *)
(* being started; and the loop never ends with a child left.                *)
SignalReachesAll ==
  /\ at.step \notin {"plan", "ended"} =>
       \A p \in DOMAIN kids : Alive(p) => p \in {sig[i] : i \in Slot} \/ (at.step = "publish" /\ p = at.new)
  /\ at.step = "wait" /\ n = 0 => \A p \in DOMAIN kids : ~Alive(p)

(* "A supervisor that cannot name or restart what died is just a process    *)
(* that happens to be the parent": what is started again is what died.      *)
RestartsWhatDied == at.step = "publish" => kids[at.new].prog = kids[at.dead].prog

=============================================================================
