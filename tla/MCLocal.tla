------------------------------- MODULE MCLocal -------------------------------
(* Instances for TLC of the two schedulers that live in one process: the   *)
(* local latches and the run loop.  They share no state; a behaviour is    *)
(* one of either, and the other stays as it was created.                   *)
EXTENDS Latch, RunLoop, TLC

CONSTANTS l1, l2, l3, a1, a2, a3, s1

VARIABLE scene      \* "latches" or "runloop"

mcVars == <<scene, vars, loopVars>>

(* Keys 1 and 3, which share a slot, are locked together by two            *)
(* transactions, and one of them by a third.                               *)
MCKeys == (l1 :> {1, 3}) @@ (l2 :> {1, 3}) @@ (l3 :> {3})
MCSlotOf == (1 :> 1) @@ (3 :> 1)

(* Three appenders, one of whose tasks appends another task.               *)
MCSpawns == [t \in Task |-> IF t = a1 THEN <<s1>> ELSE <<>>]

MCInit ==
    /\ Init /\ LoopInit
    /\ scene \in {"latches", "runloop"}
    /\ scene = "latches" => cancelable = FALSE

MCNext ==
    \/ scene = "latches" /\ Next /\ UNCHANGED <<scene, loopVars>>
    \/ scene = "runloop" /\ LoopNext /\ UNCHANGED <<scene, vars>>

(* Neither fairness asks anything of a scheduler that was never called.    *)
MCSpec == MCInit /\ [][MCNext]_mcVars /\ Fairness /\ LoopFairness
=============================================================================
