---------------------------- MODULE MCDecodeRing ----------------------------
(* Model-checking instance of DecodeRing.  Requests are interchangeable, but *)
(* symmetry is left out: the run checks a liveness property.                *)
EXTENDS DecodeRing
=============================================================================
