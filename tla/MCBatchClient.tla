--------------------------- MODULE MCBatchClient ---------------------------
(* Instances of BatchClient for TLC. *)
EXTENDS BatchClient

CONSTANTS e1, e2, direct, fwd

(* Both entries on one stream, or a stream each. *)
MCTargets == {(e1 :> direct) @@ (e2 :> h) : h \in Host}
=============================================================================
