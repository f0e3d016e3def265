------------------------------ MODULE MCOracle ------------------------------
(* Two callers that race for timestamps of the global or of a new scope,   *)
(* and one that reads stale data while time passes.                        *)
EXTENDS PDOracle

CONSTANTS c1, c2, local

Race == [clients |-> Client, calls |-> {"get", "validate"}, scopes |-> {Global},
         conf |-> 4, confs |-> {}, time |-> 2, n |-> 3, fail |-> 0, set |-> 0, other |-> 1,
         stale |-> {FALSE}, reads |-> {-1, 0, 1}, staleness |-> {}, close |-> FALSE, cancel |-> FALSE]

Stale == [Race EXCEPT !.clients = {c1}, !.calls = {"validate"}, !.reads = {},
                      !.stale = {TRUE}, !.staleness = 1 .. 5, !.time = 14, !.n = 1,
                      !.conf = 6, !.other = 0]

MCScenarios == {
    Race,
    [Race EXCEPT !.calls = {"validate"}, !.n = 2, !.fail = 1, !.cancel = TRUE],
    [Race EXCEPT !.scopes = {local}, !.calls = {"validate", "stale"},
                 !.staleness = {1}, !.reads = {0, 1}, !.n = 2],
    [Stale EXCEPT !.n = 2],
    [Stale EXCEPT !.set = 1, !.confs = {2, 4, 8}],
    [Stale EXCEPT !.calls = {"stale"}, !.staleness = {0, 2}, !.time = 6, !.fail = 1,
                  !.close = TRUE]}
=============================================================================
