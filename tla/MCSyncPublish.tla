--------------------------- MODULE MCSyncPublish ---------------------------
(* Contents that differ in a comment have the same evidence, contents that *)
(* differ in a body the same signatures.                                   *)
EXTENDS SyncPublish

MCEvidence == [c \in Contents |-> IF c = "a + comment" THEN "a" ELSE c]
MCSignature == [c \in Contents |-> IF c = "a + body" THEN "a" ELSE c]
=============================================================================
