--------------------------- MODULE MCProviderHost ---------------------------
(* Two analyses, one revision, two batches. *)
EXTENDS ProviderHost

CONSTANTS a1, a2, r1

MCAnalyses == {a1, a2}
MCOneRevision == {r1}
=============================================================================
