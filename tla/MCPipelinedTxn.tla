--------------------------- MODULE MCPipelinedTxn ---------------------------
(* Instances of PipelinedTxn for TLC. *)
EXTENDS PipelinedTxn
=============================================================================
