--------------------------- MODULE MCRegionCache ---------------------------
(* One region that splits, keeping its ID on the right, and is merged into *)
(* its new neighbour, or gets other peers.                                 *)
EXTENDS RegionCache

Meta(i, v, l, h) == [id |-> i, ver |-> v, confVer |-> 1, lo |-> l, hi |-> h]

Zero == {Meta("z", 1, 0, 1)}
One == {Meta("a", 1, 1, 3)}
Two == {Meta("b", 2, 1, 2), Meta("a", 2, 2, 3)}
Merged == {Meta("b", 3, 1, 3)}
Moved == {IF m.id = "a" THEN [m EXCEPT !.confVer = 2] ELSE m : m \in Two}

MCHistories == {<<One, Two>>, <<Two, Merged>>, <<Two, Moved>>}

(* The same merge behind another region: GetPrevRegion has an answer. *)
MCHistoriesEnd == {<<Zero \cup Two, Zero \cup Merged>>}

CONSTANTS c1, c2

Bounds(x, e, t) == [expire |-> x, err |-> e, task |-> t]
Ask(k, end) == [key |-> k, end |-> end]

(* Two callers, of the first key and of the second, as a key or an end     *)
(* key; or one caller next to the background jobs, with a region that      *)
(* expires or is flagged.                                                  *)
MCScenarios ==
    {[ask |-> (c1 :> Ask(1, FALSE) @@ c2 :> Ask(2, e)), refresh |-> FALSE, bounds |-> Bounds(0, 0, 0)] : e \in BOOLEAN}
    \cup {[ask |-> (c1 :> a @@ c2 :> None), refresh |-> r, bounds |-> Bounds(1, 1, 1)] :
              r \in BOOLEAN, a \in {Ask(1, FALSE), Ask(2, TRUE)}}
=============================================================================
