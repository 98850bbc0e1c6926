---------------------------- MODULE MCTraceLog ------------------------------
(* A small instance of TraceLog for TLC.                                   *)
EXTENDS TraceLog

\* Between two short runs one with room for two turns, an act and its tools.
SpansOf == <<4, 6, 4>>
=============================================================================
