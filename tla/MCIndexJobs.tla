---------------------------- MODULE MCIndexJobs ----------------------------
(* Model-checking instance of IndexJobs.                                   *)
EXTENDS IndexJobs
=============================================================================
