--------------------------------- MODULE MCAccess ---------------------------------
(***************************************************************************)
(* Access on a small instance: one host that may come to have two agents,   *)
(* two enrolments with one token, one request at a time, and one job with a *)
(* heartbeat token.                                                         *)
(***************************************************************************)
EXTENDS Access

CONSTANTS a1, a2, tok, e1, e2, r1, j1

Tokened == [e \in Enrolments |-> tok]
================================================================================
