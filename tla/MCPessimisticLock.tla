------------------------- MODULE MCPessimisticLock -------------------------
(* Instances of PessimisticLock for TLC. *)
EXTENDS PessimisticLock
=============================================================================
