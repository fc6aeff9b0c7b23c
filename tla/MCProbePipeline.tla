-------------------------- MODULE MCProbePipeline --------------------------
(***************************************************************************)
(* The instance of ProbePipeline: a synthetic check, whose jobs may or may *)
(* not end in a sample, and a tcp check whose jobs never do.               *)
(***************************************************************************)
EXTENDS ProbePipeline

CONSTANTS journey, port

MCSynthetic == {journey}
MCUnconnectable == {port}
============================================================================
