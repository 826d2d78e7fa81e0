---------------------------- MODULE MCPyPipeline ----------------------------
(***************************************************************************)
(* An instance of PyPipeline for TLC.                                      *)
(***************************************************************************)
EXTENDS PyPipeline

CONSTANTS a, b, c, w, s

ThreeEvents == {a, b, c}
OneWorker == {w}
OneSink == {s}

=============================================================================
