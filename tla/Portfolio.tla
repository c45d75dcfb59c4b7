------------------------------ MODULE Portfolio ------------------------------
(***************************************************************************)
(* The route registry and the portfolio policy that moves whole measured   *)
(* portfolios between candidates.  A child of the gateway ticks: it        *)
(* reconciles the saved policy with one registry snapshot, chooses a       *)
(* candidate, saves the intent and publishes all routes in one compare-    *)
(* and-swap.  It may be killed between any two effects, a publication may  *)
(* be in place although it reported a failure, and the operator edits,     *)
(* removes and re-creates routes meanwhile.                                *)
(* (runtime/lumabri_route_registry.h, runtime/lumabri_portfolio_controller *)
(* .h, planner/lumabri_portfolio_policy.h and _policy_store.h,             *)
(* api_capacity_apply_checked in runtime/lumabri_capacity_probe.h.)        *)
(***************************************************************************)
EXTENDS Integers, FiniteSets

CONSTANTS Models,     \* the models of the policy
          Cand,       \* the candidates, as numbers
          Price,      \* candidate -> declared cost per hour
          Ceiling,    \* the owner's ceiling
          MinSaving,  \* hysteresis and switch cost, as one saving to reach
          Cooldown, MaxTime,
          MaxEdits,   \* bound: operator actions
          MaxFaults   \* bound: killed ticks and failed writes

Foreign == 0          \* replicas of no candidate
NoChoice == -1
NoRoute == [rev |-> 0, reps |-> NoChoice]

VARIABLES reg,      \* model -> [rev, reps]: the published registry snapshot
          pol,      \* the saved policy record
          tick,     \* the controller's child: where it is, its copy p, its choice
          now,
          edited,   \* history: models edited since the policy was configured
          switched, \* history: when the policy last published, or NoChoice
          edits, faults

vars == <<reg, pol, tick, now, edited, switched, edits, faults>>

NoTick == [at |-> "off"]
Whole(c) == [m \in Models |-> c]

-----------------------------------------------------------------------------
(* lmb_route_save_many: every expected revision must match, or none of the  *)
(* routes becomes visible                                                   *)
Saved(routes, expected) ==
  IF \A m \in Models : reg[m].rev = expected[m] THEN routes ELSE reg

(* Mutant: an intent found by a later tick is taken as never published. *)
BugReconcile(p, routes, time) ==
  LET q == [p EXCEPT !.pending = NoChoice, !.targets = Whole(NoRoute)]
  IN IF p.pending # NoChoice \/ routes = p.routes THEN q ELSE [q EXCEPT !.faulted = TRUE]

(* lmb_policy_reconcile against one registry snapshot: the exact intended   *)
(* records, or the exact old ones; anything else stops automation           *)
Reconcile(p, routes, time) ==
  LET q == [p EXCEPT !.pending = NoChoice, !.targets = Whole(NoRoute)]
  IN IF p.pending # NoChoice /\ routes = p.targets
     THEN [q EXCEPT !.current = p.pending, !.last = time, !.routes = p.targets]
     ELSE IF routes = p.routes THEN q
     ELSE [q EXCEPT !.faulted = TRUE]

(* api_policy_due and the first guard of api_policy_tick *)
Due(p) == p.pending # NoChoice \/ (p.enabled /\ ~p.faulted)

Affordable(c) == Price[c] <= Ceiling

(* lmb_portfolio_policy_choose: the cheapest passing candidate within the   *)
(* budget, the current one among equals and then the first; a switch from a *)
(* candidate that still passes must pay for itself                          *)
Choice(p, passing, time) ==
  LET fit == {c \in passing : Affordable(c)}
      cheapest == {c \in fit : \A d \in fit : Price[c] <= Price[d]}
      best == IF p.current \in cheapest THEN p.current ELSE CHOOSE c \in cheapest : \A d \in cheapest : c <= d
  IN CASE ~p.enabled \/ p.faulted \/ p.pending # NoChoice -> NoChoice
       [] p.last # NoChoice /\ time - p.last < Cooldown -> NoChoice
       [] fit = {} -> NoChoice
       [] OTHER -> IF best = p.current THEN NoChoice
                   ELSE IF p.current \notin fit \/ Price[p.current] - Price[best] >= MinSaving THEN best
                   ELSE NoChoice

Init ==
  /\ reg = [m \in Models |-> [rev |-> 1, reps |-> 1]]
  /\ pol = [enabled |-> TRUE, faulted |-> FALSE, pending |-> NoChoice, current |-> 1, routes |-> reg,
            targets |-> Whole(NoRoute), last |-> NoChoice]
  /\ tick = NoTick
  /\ now = 0
  /\ edited = {}
  /\ switched = NoChoice
  /\ edits = 0
  /\ faults = 0

-----------------------------------------------------------------------------
(* lmb_policy_save: a failed write may or may not have replaced the record *)
Save(p) ==
  \/ pol' = p /\ UNCHANGED faults
  \/ faults < MaxFaults /\ faults' = faults + 1 /\ UNCHANGED pol

(* api_policy_tick up to its decision.  A tick that found an intent only    *)
(* reconciles it                                                            *)
Begin ==
  /\ tick = NoTick /\ Due(pol)
  /\ LET p == Reconcile(pol, reg, now)
     IN tick' = IF pol.pending # NoChoice \/ p.faulted THEN [at |-> "end", p |-> p] ELSE [at |-> "check", p |-> p]
  /\ UNCHANGED <<reg, pol, now, edited, switched, edits, faults>>

End ==
  /\ tick.at = "end"
  /\ Save(tick.p)
  /\ tick' = NoTick
  /\ UNCHANGED <<reg, now, edited, switched, edits>>

(* After a save that must succeed, the measured candidates are loaded and   *)
(* evaluated: any of them may pass, and a replaced record faults the policy *)
Check ==
  /\ tick.at = "check"
  /\ \/ faults < MaxFaults /\ faults' = faults + 1 /\ tick' = NoTick /\ UNCHANGED pol
     \/ tick' = [at |-> "end", p |-> [tick.p EXCEPT !.faulted = TRUE]] /\ UNCHANGED <<pol, faults>>
     \/ /\ \E passing \in SUBSET Cand :
             LET c == Choice(tick.p, passing, now)
             IN tick' = IF c = NoChoice THEN [at |-> "end", p |-> tick.p]
                        ELSE [at |-> "apply", p |-> tick.p, next |-> c]
        /\ UNCHANGED <<pol, faults>>
  /\ UNCHANGED <<reg, now, edited, switched, edits>>

(* api_capacity_apply_checked up to its callback: the routes must still be  *)
(* at the revisions the policy knows, the evidence still pass and the hosts *)
(* answer                                                                   *)
Apply ==
  /\ tick.at = "apply"
  /\ \/ /\ \A m \in Models : reg[m].rev = tick.p.routes[m].rev
        /\ tick' = [at |-> "intent", next |-> tick.next,
                    p |-> [tick.p EXCEPT !.pending = tick.next,
                             !.targets = [m \in Models |-> [rev |-> reg[m].rev + 1, reps |-> tick.next]]]]
     \/ tick' = [at |-> "settle", p |-> tick.p]
  /\ UNCHANGED <<reg, pol, now, edited, switched, edits, faults>>

(* api_policy_intent: nothing is published before the intent is saved *)
Intent ==
  /\ tick.at = "intent"
  /\ \/ pol' = tick.p /\ tick' = [tick EXCEPT !.at = "publish"] /\ UNCHANGED faults
     \/ /\ faults < MaxFaults /\ faults' = faults + 1
        /\ pol' \in {pol, tick.p}
        /\ tick' = [at |-> "settle", p |-> tick.p]
  /\ UNCHANGED <<reg, now, edited, switched, edits>>

(* lmb_route_save_many under the registry's lock; lmb_route_registry_       *)
(* publish may rename and then report a failure, or fail before it          *)
Publish ==
  /\ tick.at = "publish"
  /\ \/ /\ reg' = Saved(tick.p.targets, [m \in Models |-> tick.p.routes[m].rev])
        /\ switched' = IF reg' # reg THEN now ELSE switched
        /\ UNCHANGED faults
     \/ faults < MaxFaults /\ faults' = faults + 1 /\ UNCHANGED <<reg, switched>>
  /\ tick' = [at |-> "settle", p |-> tick.p]
  /\ UNCHANGED <<pol, now, edited, edits>>

(* Whatever was reported, the registry says what happened *)
Settle ==
  /\ tick.at = "settle"
  /\ tick' = [at |-> "end", p |-> Reconcile(tick.p, reg, now)]
  /\ UNCHANGED <<reg, pol, now, edited, switched, edits, faults>>

Kill ==
  /\ tick # NoTick
  /\ faults < MaxFaults
  /\ faults' = faults + 1
  /\ tick' = NoTick
  /\ UNCHANGED <<reg, pol, now, edited, switched, edits>>

-----------------------------------------------------------------------------
Edit == edits < MaxEdits /\ edits' = edits + 1

(* lmb_route_save of an update or a creation, lmb_route_remove, and         *)
(* lmb_route_save_many of an operator's capacity-apply: all under the same  *)
(* lock, all at the revision the operator read                              *)
EditRoutes ==
  /\ Edit
  /\ \E c \in Cand \cup {Foreign} :
       \/ \E m \in Models :
            /\ reg' = [reg EXCEPT ![m] = [rev |-> @.rev + 1, reps |-> c]]
            /\ edited' = edited \cup {m}
       \/ \E m \in Models :
            /\ reg[m] # NoRoute
            /\ reg' = [reg EXCEPT ![m] = NoRoute]
            /\ edited' = edited \cup {m}
       \/ /\ c # Foreign
          /\ \A m \in Models : reg[m] # NoRoute
          /\ reg' = [m \in Models |-> [rev |-> reg[m].rev + 1, reps |-> c]]
          /\ edited' = Models
  /\ switched' = NoChoice
  /\ UNCHANGED <<pol, tick, now, faults>>

(* api_policy_configure, under the lock the tick holds: disable, or start   *)
(* from the registry as the operator proposed it                            *)
Configure ==
  /\ Edit
  /\ tick = NoTick
  /\ LET old == IF pol.pending # NoChoice THEN Reconcile(pol, reg, now) ELSE pol
     IN \/ /\ pol' = [old EXCEPT !.enabled = FALSE]
           /\ UNCHANGED edited
        \/ /\ \E c \in Cand :
                /\ \A m \in Models : reg[m].reps = c
                /\ pol' = [old EXCEPT !.enabled = TRUE, !.faulted = FALSE, !.pending = NoChoice, !.current = c,
                                      !.routes = reg, !.targets = Whole(NoRoute)]
           /\ edited' = {}
  /\ UNCHANGED <<reg, tick, now, switched, faults>>

Time ==
  /\ now < MaxTime
  /\ now' = now + 1
  /\ UNCHANGED <<reg, pol, tick, edited, switched, edits, faults>>

Ticks == Begin \/ Check \/ Apply \/ Intent \/ Publish \/ Settle \/ End
Next == Ticks \/ Kill \/ EditRoutes \/ Configure \/ Time

Spec == Init /\ [][Next]_vars

-----------------------------------------------------------------------------
(* While nobody else edits the routes: a policy at rest knows at which      *)
(* candidate all its models are, whatever was killed, failed to save or     *)
(* reported a failure after the fact; and it never publishes a second       *)
(* change within the cooldown of the first.                                 *)
PortfolioSound ==
  edited = {} =>
    /\ tick = NoTick /\ pol.pending = NoChoice /\ ~pol.faulted =>
         reg = pol.routes /\ \A m \in Models : reg[m].reps = pol.current
    /\ tick.at = "publish" /\ switched # NoChoice => now - switched >= Cooldown

=============================================================================
