---------------------------- MODULE AtomicCommit -----------------------------
(***************************************************************************)
(* What a client of the transaction layer is promised: each transaction    *)
(* has one outcome (a commit version, or 0 for rolled back), chosen once;  *)
(* every key that is settled is settled with that outcome; and what        *)
(* Commit() returns agrees with it, now and later.  No locks, requests,    *)
(* timestamps, resolvers or failures: Percolator implements this.          *)
(***************************************************************************)
EXTENDS Naturals

CONSTANTS Txn, Key,
    Version     \* the commit versions, and 0

VARIABLES
    outcome,    \* outcome[t]: {} while open, then {s}
    settled,    \* settled[t]: the pairs <<key, s>> that are settled
    told        \* told[t]: what Commit() returned

vars == <<outcome, settled, told>>

Init ==
    /\ outcome = [t \in Txn |-> {}]
    /\ settled = [t \in Txn |-> {}]
    /\ told = [t \in Txn |-> "none"]

(* The outcome s is chosen, at key k; a transaction whose failure was      *)
(* reported cannot commit any more.                                        *)
Decide(t, k, s) ==
    /\ outcome[t] = {}
    /\ told[t] = "error" => s = 0
    /\ outcome' = [outcome EXCEPT ![t] = {s}]
    /\ settled' = [settled EXCEPT ![t] = @ \cup {<<k, s>>}]
    /\ UNCHANGED told

(* Another key follows. *)
Settle(t, k) ==
    /\ \E s \in outcome[t] : settled' = [settled EXCEPT ![t] = @ \cup {<<k, s>>}]
    /\ UNCHANGED <<outcome, told>>

(* Commit() returns. *)
Tell(t, r) ==
    /\ told[t] = "none"
    /\ r = "ok" => outcome[t] # {} /\ outcome[t] # {0}
    /\ r = "error" => outcome[t] \in {{}, {0}}
    /\ told' = [told EXCEPT ![t] = r]
    /\ UNCHANGED <<outcome, settled>>

Next ==
    \E t \in Txn :
        \/ \E k \in Key, s \in Version : Decide(t, k, s)
        \/ \E k \in Key : Settle(t, k)
        \/ \E r \in {"ok", "error", "undetermined"} : Tell(t, r)

Spec == Init /\ [][Next]_vars
=============================================================================
