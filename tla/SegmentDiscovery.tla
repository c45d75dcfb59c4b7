-------------------------- MODULE SegmentDiscovery ---------------------------
(* Where a chat finds the stages of its model. lumabri_segment_discovery.c    *)
(* keeps the newest route snapshot: a worker fetches one at intervals or on   *)
(* request, and a failing-over chat fetches one itself; select_chain          *)
(* (segment_chat.c) then picks the chain. A snapshot is named by its route    *)
(* generation; trackers behind one address may answer with an older one.      *)
EXTENDS Integers, Sequences, SequencesExt, FiniteSets, FiniteSetsExt
CONSTANTS Chat, MaxGen,
          Layers, Ranges, Offered   \* chain selection: entries, how many are offered
VARIABLES gen,              \* generation of the tracker
          snapshot,         \* newest one held, 0: none
          asked,            \* refresh_requested
          worker, next,     \* the worker's place and what it fetched
          at, fetched, seen, since,   \* Chat -> same; last answer; gen when it asked
          owed,             \* a refresh was requested that no later fetch answered
          entries           \* the snapshot offered to select_chain
disc == <<gen, snapshot, asked, worker, next, at, fetched, seen, since, owed>>
vars == <<disc, entries>>

Init ==
    /\ gen = 1 /\ snapshot = 0 /\ asked = FALSE /\ worker = "top" /\ next = 0
    /\ at = [c \in Chat |-> "idle"] /\ fetched = [c \in Chat |-> 0]
    /\ seen = [c \in Chat |-> 0] /\ since = [c \in Chat |-> 0] /\ owed = FALSE
    /\ \E s \in kSubset(Offered, Ranges) : entries \in {SetToSeq(s), Reverse(SetToSeq(s))}
Register ==
    /\ gen < MaxGen /\ gen' = gen + 1
    /\ UNCHANGED <<snapshot, asked, worker, next, at, fetched, seen, since, owed, entries>>
(* Mutant: a generation that the worker fetched is always published.          *)
BugNewest(g) == g
(* Equal generations replace telemetry, a lower one is a stale tracker's.     *)
Newest(g) == IF g >= snapshot THEN g ELSE snapshot
(* disc_worker: the request is taken before the fetch it causes.              *)
Top == /\ worker = "top" /\ asked' = FALSE /\ owed' = FALSE /\ worker' = "fetch"
       /\ UNCHANGED <<gen, snapshot, next, at, fetched, seen, since, entries>>
(* lmb_seg_routes_fetch: an answer, old or new, or none.                      *)
Fetch ==
    /\ worker = "fetch"
    /\ \/ next' \in 1 .. gen /\ worker' = "publish"
       \/ worker' = "wait" /\ UNCHANGED next
    /\ UNCHANGED <<gen, snapshot, asked, at, fetched, seen, since, owed, entries>>
(* Mutant: a request is cleared once something was fetched.                   *)
BugPublish ==
    /\ worker = "publish" /\ snapshot' = Newest(next) /\ worker' = "wait" /\ asked' = FALSE
    /\ UNCHANGED <<gen, next, at, fetched, seen, since, owed, entries>>
(* Published after the probes, under the lock.                                *)
Publish ==
    /\ worker = "publish" /\ snapshot' = Newest(next) /\ worker' = "wait"
    /\ UNCHANGED <<gen, asked, next, at, fetched, seen, since, owed, entries>>
(* The wait ends when somebody asks, or after the interval.                   *)
Waits == /\ worker = "wait" /\ worker' = "top"
         /\ UNCHANGED <<gen, snapshot, asked, next, at, fetched, seen, since, owed, entries>>
Wake == asked /\ Waits
Interval == ~asked /\ Waits
lmb_seg_discovery_request_refresh ==
    /\ asked' = TRUE /\ owed' = TRUE
    /\ UNCHANGED <<gen, snapshot, worker, next, at, fetched, seen, since, entries>>
lmb_seg_discovery_snapshot(c) ==
    /\ at[c] = "idle" /\ snapshot # 0 /\ seen' = [seen EXCEPT ![c] = snapshot]
    /\ UNCHANGED <<gen, snapshot, asked, worker, next, at, fetched, since, owed, entries>>
(* lmb_seg_discovery_refresh_now: a fetch without the lock ...                *)
RefreshBegin(c) ==
    /\ at[c] = "idle" /\ at' = [at EXCEPT ![c] = "fetch"]
    /\ since' = [since EXCEPT ![c] = snapshot]
    /\ UNCHANGED <<gen, snapshot, asked, worker, next, fetched, seen, owed, entries>>
RefreshFetch(c) ==
    /\ at[c] = "fetch"
    /\ \/ /\ \E g \in 1 .. gen : fetched' = [fetched EXCEPT ![c] = g]
          /\ at' = [at EXCEPT ![c] = "publish"]
       \/ at' = [at EXCEPT ![c] = "idle"] /\ UNCHANGED fetched
    /\ UNCHANGED <<gen, snapshot, asked, worker, next, seen, since, owed, entries>>
(* ... then the newest of both is kept and returned.                          *)
RefreshEnd(c) ==
    /\ at[c] = "publish"
    /\ snapshot' = Newest(fetched[c])
    /\ seen' = [seen EXCEPT ![c] = snapshot']
    /\ at' = [at EXCEPT ![c] = "idle"]
    /\ UNCHANGED <<gen, asked, worker, next, fetched, since, owed, entries>>
Worker == Top \/ Fetch \/ Publish \/ Wake
Next == \/ Worker \/ Interval \/ Register \/ lmb_seg_discovery_request_refresh
        \/ \E c \in Chat : \/ lmb_seg_discovery_snapshot(c) \/ RefreshBegin(c)
                           \/ RefreshFetch(c) \/ RefreshEnd(c)
(* The worker runs; its interval may be as long as an hour, so that nothing   *)
(* rests on its end.                                                          *)
Spec == Init /\ [][Next]_vars /\ WF_vars(Worker)
-----------------------------------------------------------------------------
(* select_chain. An entry is a range of layers some donor runs as a whole:    *)
(* [begin, end, degraded, us, load, direct].                                  *)
Count == Len(entries)
Own(e) == <<IF e.degraded THEN e.end - e.begin ELSE 0, e.us, 1, e.load>>
Plus(a, b) == [n \in 1 .. 4 |-> a[n] + b[n]]
Less(a, b) == \E n \in 1 .. 4 : a[n] < b[n] /\ \A m \in 1 .. n - 1 : a[m] = b[m]
Cheapest(costs) == CHOOSE c \in costs : \A d \in costs : ~Less(d, c)
Unknown == <<>>
(* Mutant: the way to the end is that of the first donor found.               *)
BugThrough(cost, n) ==
    LET on == {j \in 1 .. Count : entries[j].begin = entries[n].end /\ cost[j] # Unknown}
    IN IF entries[n].end = Layers THEN {Own(entries[n])}
       ELSE {Plus(Own(entries[n]), cost[j]) : j \in {j \in on : \A k \in on : j <= k}}
(* Ways to the last layer through entry n, given the best known ones.         *)
Through(cost, n) ==
    IF entries[n].end = Layers THEN {Own(entries[n])}
    ELSE {Plus(Own(entries[n]), cost[j]) :
          j \in {j \in 1 .. Count : entries[j].begin = entries[n].end /\ cost[j] # Unknown}}
Relax(cost, n) ==
    LET ways == Through(cost, n) IN
    IF ways # {} /\ (cost[n] = Unknown \/ Less(Cheapest(ways), cost[n]))
    THEN [cost EXCEPT ![n] = Cheapest(ways)] ELSE cost
Pass(cost, p) == FoldLeft(Relax, cost, [n \in 1 .. Count |-> n])
Costs == FoldLeft(Pass, [n \in 1 .. Count |-> Unknown], [p \in 1 .. Count |-> p])
(* From the first layer, always the cheapest way on; then a direct one, then  *)
(* the longest.                                                               *)
Better(cost, a, b) ==
    \/ Less(cost[a], cost[b])
    \/ /\ cost[a] = cost[b]
       /\ \/ entries[a].direct /\ ~entries[b].direct
          \/ entries[a].direct = entries[b].direct /\ entries[a].end > entries[b].end
Follow(chain, p) ==
    LET cost == Costs
        cursor == IF chain = <<>> THEN 0 ELSE entries[Last(chain)].end
        on == {n \in 1 .. Count : cost[n] # Unknown /\ entries[n].begin = cursor}
        best == {a \in on : \A b \in on : ~Better(cost, b, a)}
    IN IF cursor = Layers \/ on = {} THEN chain ELSE Append(chain, CHOOSE a \in best : \A b \in best : a <= b)
select_chain == FoldLeft(Follow, <<>>, [p \in 1 .. Count |-> p])
(* lmb_seg_route_complete: the boundaries reachable from the first layer.     *)
Reach(set, p) == set \cup {entries[n].end : n \in {n \in 1 .. Count : entries[n].begin \in set}}
Complete == Layers \in FoldLeft(Reach, {0}, [p \in 1 .. Count |-> p])
-----------------------------------------------------------------------------
(* disc_worker, refresh_now: what a chat is told never moves back, although   *)
(* two threads publish what trackers of different age told them; and what a   *)
(* failing-over chat gets is not older than what was known when it asked.     *)
ViewsMoveForward ==
    [][/\ snapshot' >= snapshot
       /\ \A c \in Chat : seen'[c] >= seen[c] /\ (seen'[c] # seen[c] => seen'[c] >= since[c])]_disc
(* A refresh requested at any moment, while the worker fetches or probes too, *)
(* is not lost: a fetch that begins later answers it, without the interval.   *)
Served == ~owed
RequestsAreServed == []<>Served
(* select_chain against its definition: of all the ways to tile the layers    *)
(* with whole ranges, the one with the fewest degraded layers, then the least *)
(* time, hops and load; none exactly when discovery calls the route           *)
(* incomplete.                                                                *)
Tiling(set) ==
    /\ \A l \in 1 .. Layers : \E n \in set : entries[n].begin < l /\ l <= entries[n].end
    /\ \A n, m \in set : n # m => entries[n].end <= entries[m].begin \/ entries[m].end <= entries[n].begin
Price(set) == FoldSet(LAMBDA n, c : Plus(Own(entries[n]), c), <<0, 0, 0, 0>>, set)
ChainIsBest ==
    LET chain == select_chain
        tilings == {set \in SUBSET (1 .. Count) : Tiling(set)}
        whole == chain # <<>> /\ entries[Last(chain)].end = Layers
    IN
    /\ Complete = (tilings # {}) /\ whole = (tilings # {})
    /\ whole => /\ Tiling(ToSet(chain))
                /\ \A set \in tilings : ~Less(Price(set), Price(ToSet(chain)))
=============================================================================
