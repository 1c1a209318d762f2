----------------------------- MODULE MCPipelineRun -----------------------------
(* Small instances of PipelineRun for TLC. *)
EXTENDS PipelineRun
=============================================================================
