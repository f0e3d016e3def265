-------------------------- MODULE MCRegionRequest --------------------------
(* Instances of RegionRequest: requests of every kind against a region     *)
(* with three peers.                                                       *)
EXTENDS RegionRequest

CONSTANTS r1, r2

MCRequest == {r1, r2}

Leader == [read |-> TRUE, type |-> "leader", busy |-> FALSE, labels |-> {}, timeout |-> FALSE, stale |-> FALSE]
Write == [Leader EXCEPT !.read = FALSE]
Follower == [Leader EXCEPT !.type = "follower"]
Timed == [Leader EXCEPT !.timeout = TRUE]
Busy == [Leader EXCEPT !.busy = TRUE]
Prefer == [Leader EXCEPT !.type = "preferLeader"]
Stale == [Leader EXCEPT !.type = "mixed", !.stale = TRUE, !.labels = {2}]

Ask(a, b) == [r \in MCRequest |-> IF r = r1 THEN a ELSE b]
NoFault == [crash |-> 0, cut |-> 0, move |-> 0, err |-> 0]
Scenario(a, b, forward, errs, bs) == [victims |-> {1}, peers |-> IF b = None THEN 3 ELSE 2, ask |-> Ask(a, b), forward |-> forward, errs |-> errs, bounds |-> bs]

MCScenarios ==
    {Scenario(Write, Follower, FALSE, {}, [NoFault EXCEPT !.crash = 1]),
     Scenario(Write, None, FALSE, {"Retry", "Reload", "StoreNotMatch"}, [NoFault EXCEPT !.move = 1, !.err = 2]),
     Scenario(Write, None, TRUE, {}, [NoFault EXCEPT !.cut = 1, !.move = 1]),
     Scenario(Write, None, TRUE, {}, [NoFault EXCEPT !.crash = 1]),
     Scenario(Timed, None, FALSE, {"Deadline", "FlashbackInProgress"}, [NoFault EXCEPT !.crash = 1, !.err = 1]),
     Scenario(Busy, None, FALSE, {"Busy", "BusyNoWait"}, [NoFault EXCEPT !.move = 1, !.err = 2]),
     Scenario(Prefer, None, FALSE, {"Busy", "FlashbackInProgress"}, [NoFault EXCEPT !.crash = 1, !.err = 1]),
     Scenario(Stale, None, FALSE, {"DataIsNotReady", "RegionNotFound"}, [NoFault EXCEPT !.move = 1, !.err = 2])}
=============================================================================
