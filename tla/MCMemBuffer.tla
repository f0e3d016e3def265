---------------------------- MODULE MCMemBuffer -----------------------------
EXTENDS MemBuffer

(* Keys that share prefixes longer and shorter than a node holds, end      *)
(* inside one another, and fill a node beyond the capacity of each kind.   *)
RadixKeys == {<<0>>, <<1>>, <<2>>, <<3>>, <<4>>, <<1, 0, 1, 0>>, <<1, 0, 1, 2>>, <<1, 0>>}
BalanceKeys == {<<0>>, <<1>>, <<2>>, <<3>>, <<1, 0>>}
MCKeys == RadixKeys \cup BalanceKeys \cup {<<1, 1>>}

MCCommitted == (<<1>> :> <<9>>) @@ (<<1, 1>> :> <<9>>) @@ (<<2>> :> <<9>>)

(* Trees: keys are inserted as flags, in any order; one gets a value and   *)
(* may be removed and inserted again.                                      *)
Index(impl, keys, bounds, calls) ==
    [impl |-> impl, keys |-> keys, values |-> {<<1>>}, flagOps |-> {"SetPresumeKeyNotExists"},
     ops |-> 1, calls |-> calls \cup {"updateFlags"}, free |-> {"updateFlags", "remove"},
     depth |-> 0, bounds |-> bounds]

(* At most n writes; the calls in free, and those that begin or end one of *)
(* at most depth stages, are made at any time.                             *)
Buffer(impl, keys, values, flagOps, n, depth, calls, free) ==
    [impl |-> impl, keys |-> keys, values |-> values, flagOps |-> flagOps, ops |-> n,
     calls |-> calls \cup free \cup {"set", "staging", "release", "cleanup"},
     free |-> free \cup {"staging", "release", "cleanup"}, depth |-> depth, bounds |-> {}]

Stages(impl) ==
    Buffer(impl, {<<1>>, <<2>>}, {<<1>>, <<2>>}, {}, 3, 2, {"delete"}, {"checkpoint"})
Flags(impl) ==
    Buffer(impl, {<<1>>, <<2>>}, {<<1>>},
           {"SetPresumeKeyNotExists", "SetKeyLocked", "DelKeyLocked",
            "SetNeedConstraintCheckInPrewrite"},
           3, 1, {"setWithFlags", "updateFlags"}, {"read", "discard", "reset"})
Snapshots(impl, n, depth, free) ==
    Buffer(impl, {<<1>>, <<1, 0>>}, {<<1>>, <<2>>}, {}, n, depth, {}, {"snapshot"} \cup free)

MCScenes ==
    {Index("art", RadixKeys, {<<>>, <<1, 0, 1, 1>>, <<4, 0>>}, {}),
     Index("rbt", BalanceKeys, {<<>>, <<1, 1>>}, {"set", "remove"})}
    \cup UNION {{Stages(impl), Flags(impl), Snapshots(impl, 3, 2, {}),
                 Snapshots(impl, 2, 1, {"checkpoint"})} : impl \in {"art", "rbt"}}
=============================================================================
