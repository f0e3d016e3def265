------------------------------- MODULE RunLoop -------------------------------
(***************************************************************************)
(* The run loop of util/async: goroutines append callbacks, one goroutine  *)
(* drives the loop with Exec.  An Exec that finds nothing to run goes to   *)
(* sleep on the unbuffered channel `ready`; an Append that finds it asleep *)
(* wakes it up by a send, after it has released the mutex.                 *)
(***************************************************************************)
EXTENDS Naturals, Sequences, SequencesExt, FiniteSets

CONSTANTS
    Appender,   \* goroutines that append one task each, named like it
    Spawned,    \* tasks that tasks append while they run
    Spawns,     \* Spawns[t]: the sequence of tasks t appends
    MaxExec,    \* bound on the calls of Exec
    MayCancel   \* the kinds of caller: TRUE if its contexts may be done

Task == Appender \cup Spawned

VARIABLES
    state,      \* "idle", "waiting", "running"
    runnable,   \* tasks appended
    running,    \* the rest of the batch that is being run
    app,        \* app[a]: "start", "notify" (blocked in the send), "done"
    exec,       \* the goroutine that calls Exec
    cancelable, \* whether the caller's contexts may be done
    calls,      \* calls of Exec so far
    refused,    \* an Exec returned "already executing"
    appended,   \* history: tasks in the order of their Append
    executed    \* history: tasks in the order they ran

loopVars == <<state, runnable, running, app, exec, cancelable, calls, refused, appended, executed>>

LoopTypeOK ==
    /\ state \in {"idle", "waiting", "running"}
    /\ runnable \in Seq(Task) /\ running \in Seq(Task)
    /\ app \in [Appender -> {"start", "notify", "done"}]
    /\ exec \in {"out", "loop", "select", "canceled", "run"}
    /\ cancelable \in MayCancel /\ calls \in 0 .. MaxExec /\ refused \in BOOLEAN
    /\ appended \in Seq(Task) /\ executed \in Seq(Task)
    /\ (state = "running") = (exec = "run")

LoopInit ==
    /\ state = "idle" /\ runnable = <<>> /\ running = <<>>
    /\ app = [a \in Appender |-> "start"]
    /\ exec = "out" /\ cancelable \in MayCancel /\ calls = 0 /\ refused = FALSE
    /\ appended = <<>> /\ executed = <<>>

-----------------------------------------------------------------------------

Append1_NoNotify(a) ==
    /\ app[a] = "start"
    /\ runnable' = Append(runnable, a)
    /\ appended' = Append(appended, a)
    /\ app' = [app EXCEPT ![a] = "done"]
    /\ UNCHANGED <<cancelable, state, running, exec, calls, refused, executed>>

(* Append: under the mutex, then the send if the loop was asleep. *)
Append1(a) ==
    /\ app[a] = "start"
    /\ runnable' = Append(runnable, a)
    /\ appended' = Append(appended, a)
    /\ state' = IF state = "waiting" THEN "idle" ELSE state
    /\ app' = [app EXCEPT ![a] = IF state = "waiting" THEN "notify" ELSE "done"]
    /\ UNCHANGED <<cancelable, running, exec, calls, refused, executed>>

(* Exec is called, and only by one goroutine. *)
CallExec ==
    /\ exec = "out" /\ calls < MaxExec
    /\ calls' = calls + 1
    /\ exec' = "loop"
    /\ UNCHANGED <<cancelable, state, runnable, running, app, refused, appended, executed>>

(* The top of Exec's loop, under the mutex. *)
ExecRefused ==
    /\ exec = "loop" /\ state # "idle"
    /\ refused' = TRUE
    /\ exec' = "out"
    /\ UNCHANGED <<cancelable, state, runnable, running, app, calls, appended, executed>>

ExecWait ==
    /\ exec = "loop" /\ state = "idle" /\ runnable = <<>>
    /\ state' = "waiting"
    /\ exec' = "select"
    /\ UNCHANGED <<cancelable, runnable, running, app, calls, refused, appended, executed>>

ExecRun ==
    /\ exec = "loop" /\ state = "idle" /\ runnable # <<>>
    /\ running' = runnable /\ runnable' = <<>>
    /\ state' = "running"
    /\ exec' = "run"
    /\ UNCHANGED <<cancelable, app, calls, refused, appended, executed>>

(* The send of an Append meets the receive of an Exec. *)
Ready(a) ==
    /\ exec = "select" /\ app[a] = "notify"
    /\ app' = [app EXCEPT ![a] = "done"]
    /\ exec' = "loop"
    /\ UNCHANGED <<cancelable, state, runnable, running, calls, refused, appended, executed>>

(* The context is done first; the state is reset under the mutex. *)
Canceled ==
    /\ cancelable /\ exec = "select"
    /\ exec' = "canceled"
    /\ UNCHANGED <<cancelable, state, runnable, running, app, calls, refused, appended, executed>>

ExecCanceled ==
    /\ exec = "canceled"
    /\ state' = "idle"
    /\ exec' = "out"
    /\ UNCHANGED <<cancelable, runnable, running, app, calls, refused, appended, executed>>

RunTask ==
    /\ exec = "run" /\ running # <<>>
    /\ executed' = Append(executed, Head(running))
    /\ running' = Tail(running)
    /\ runnable' = runnable \o Spawns[Head(running)]
    /\ appended' = appended \o Spawns[Head(running)]
    /\ UNCHANGED <<cancelable, state, app, exec, calls, refused>>

KeepRest_NewFirst == runnable \o running

KeepRest == running \o runnable

(* The context is done between two tasks: what is left comes first later. *)
RunCanceled ==
    /\ cancelable /\ exec = "run" /\ running # <<>>
    /\ runnable' = KeepRest /\ running' = <<>>
    /\ state' = "idle"
    /\ exec' = "out"
    /\ UNCHANGED <<cancelable, app, calls, refused, appended, executed>>

(* The batch is done: return, or go on with what was appended meanwhile. *)
RunNextBatch ==
    /\ exec = "run" /\ running = <<>>
    /\ running' = runnable /\ runnable' = <<>>
    /\ state' = IF runnable = <<>> THEN "idle" ELSE state
    /\ exec' = IF runnable = <<>> THEN "out" ELSE exec
    /\ UNCHANGED <<cancelable, app, calls, refused, appended, executed>>

LoopNext ==
    \/ \E a \in Appender : Append1(a) \/ Ready(a)
    \/ CallExec \/ ExecRefused \/ ExecWait \/ ExecRun \/ Canceled \/ ExecCanceled
    \/ RunTask \/ RunCanceled \/ RunNextBatch

LoopSpec == LoopInit /\ [][LoopNext]_loopVars

(* Goroutines run, and the caller calls Exec while a task waits.           *)
LoopFairness ==
    /\ \A a \in Appender : WF_loopVars(Ready(a))
    /\ WF_loopVars(runnable # <<>> /\ CallExec) /\ WF_loopVars(ExecRefused \/ ExecWait \/ ExecRun)
    /\ WF_loopVars(ExecCanceled) /\ WF_loopVars(RunTask) /\ WF_loopVars(RunNextBatch)

-----------------------------------------------------------------------------
(* Tasks run once each and in the order they were appended, across         *)
(* batches, tasks that append tasks and canceled runs.                     *)
RunInOrder == executed \o running \o runnable = appended

(* Exec leaves the loop idle when it returns. *)
IdleOnReturn == exec = "out" => state = "idle"

(* While no context is done, Exec leaves the loop idle when it returns, and *)
(* no call of the only caller is refused as concurrent.                     *)
ReadyForNextExec == ~cancelable => IdleOnReturn /\ ~refused

(* Tasks run once each, in the order of their Append, whatever the batches *)
(* and canceled contexts, and Exec leaves the loop ready for the next      *)
(* caller: Append, Exec and run of util/async/runloop.go.                  *)
LoopSafe == LoopTypeOK /\ RunInOrder /\ ReadyForNextExec

(* While no context is done, every Append returns (its wakeup is received) *)
(* and its task runs, if Exec is called often enough.                      *)
TasksRun ==
    \A a \in Appender :
       ~cancelable /\ app[a] # "start" ~> app[a] = "done" /\ a \in Range(executed)

-----------------------------------------------------------------------------
(* The inductive invariant.  While no context is done, whoever waits in    *)
(* the send is alone, has woken the loop up already, and will be received. *)
Wakeups ==
    /\ exec \in {"out", "loop"} => state = "idle"
    /\ exec # "canceled" /\ ~refused
    /\ state = "waiting" => exec = "select"
    /\ \A a \in Appender : app[a] = "notify" =>
          /\ exec = "select" /\ state = "idle"
          /\ \A b \in Appender : app[b] = "notify" => b = a

LoopInv ==
    /\ LoopTypeOK /\ RunInOrder
    /\ exec # "run" => running = <<>>
    /\ ~cancelable => Wakeups
=============================================================================
