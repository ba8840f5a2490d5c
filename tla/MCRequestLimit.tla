---------------------------- MODULE MCRequestLimit ----------------------------
(* Small instances of RequestLimit for TLC.                                 *)
EXTENDS RequestLimit

\* answer is read only in the step that sets it.
WithoutAnswer == <<clock, active, started, request, runtime, heads, log>>
===============================================================================
