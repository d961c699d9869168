---------------------------- MODULE MCPyStream ----------------------------
(***************************************************************************)
(* Error models for checking PyStream.                                     *)
(***************************************************************************)
EXTENDS PyStream

\* Two rounds of width 2, and a detector more.
MCModels == {[detector_count |-> 5]}
=============================================================================
