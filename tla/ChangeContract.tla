--------------------------- MODULE ChangeContract ---------------------------
(***************************************************************************)
(* What the design lifecycle promises about one change, as if every        *)
(* command were one indivisible step.                                      *)
(*                                                                         *)
(* Commands raise the version by one.  The design may be replaced until    *)
(* implementation begins, and implementation begins only on a design the   *)
(* rules accept.  From then on an observation of a published revision must *)
(* be recorded before the evidence can match, a required test must have    *)
(* passed on exactly that design and revision before the change is         *)
(* verified, and a required approval must be about exactly the version     *)
(* that is closed.                                                         *)
(***************************************************************************)
EXTENDS Naturals

CONSTANTS TestRequired, ApprovalRequired

VARIABLES
  state, version,  \* lifecycle state and version of the change
  design,          \* its design revision
  accepted,        \* whether the design rules accept that revision
  recorded,        \* whether an observation of the implementation is recorded
  actual,          \* the published revision the implementation is judged by
  published,       \* number of published revisions
  proven,          \* <<design, revision>> pairs a test has passed on
  approved         \* <<version, design>> pairs the owner has approved

contractVars == <<state, version, design, accepted, recorded, actual,
                  published, proven, approved>>
world == <<published, proven, approved>>

Open ==
  /\ state = "NONE"
  /\ state' = "OPEN"
  /\ version' = 1 /\ design' = 1
  /\ UNCHANGED <<accepted, recorded, actual, world>>

(* Every command but Open continues the version it finds. *)
Advance(from, to) ==
  /\ state \in from
  /\ state' \in to
  /\ version' = version + 1
  /\ UNCHANGED world

Redesign ==
  /\ Advance({"OPEN", "PLANNED"}, {state, "PLANNED"})
  /\ design' = version + 1
  /\ accepted' \in BOOLEAN
  /\ accepted' # accepted => state' = "PLANNED"
  /\ UNCHANGED <<recorded, actual>>

Begin ==
  /\ Advance({"PLANNED"}, {"IMPLEMENTING"})
  /\ accepted
  /\ recorded' = FALSE
  /\ actual' \in 1..published
  /\ UNCHANGED <<design, accepted>>

(* Requests, repairs, and an evaluation that finds no match. *)
Implement ==
  /\ Advance({"IMPLEMENTING"}, {"IMPLEMENTING"})
  /\ recorded' => recorded
  /\ UNCHANGED <<design, accepted, actual>>

Adopt ==
  /\ Advance({"IMPLEMENTING"}, {"IMPLEMENTING"})
  /\ recorded' = TRUE
  /\ actual' \in 1..published
  /\ UNCHANGED <<design, accepted>>

Match ==
  /\ Advance({"IMPLEMENTING"}, {"EVIDENCE_MATCHED"})
  /\ recorded
  /\ UNCHANGED <<design, accepted, recorded, actual>>

Prove ==
  /\ Advance({"EVIDENCE_MATCHED"}, {"VERIFIED"})
  /\ TestRequired => <<design, actual>> \in proven
  /\ UNCHANGED <<design, accepted, recorded, actual>>

Settle ==
  /\ Advance({"VERIFIED"}, {"CLOSED"})
  /\ ApprovalRequired => <<version, design>> \in approved
  /\ UNCHANGED <<design, accepted, recorded, actual>>

GiveUp ==
  /\ Advance({"OPEN", "PLANNED", "IMPLEMENTING", "EVIDENCE_MATCHED",
              "VERIFIED"}, {"ABANDONED"})
  /\ UNCHANGED <<design, accepted, recorded, actual>>

(* Revisions, passed tests and approvals only accumulate. *)
Accumulate ==
  /\ published' \geq published
  /\ proven \subseteq proven'
  /\ approved \subseteq approved'
  /\ UNCHANGED <<state, version, design, accepted, recorded, actual>>

ContractInit ==
  /\ state = "NONE" /\ version = 0 /\ design = 0
  /\ accepted = FALSE /\ recorded = FALSE /\ actual = 0
  /\ published = 0 /\ proven = {} /\ approved = {}

ContractNext ==
  \/ Open \/ Redesign \/ Begin \/ Implement \/ Adopt \/ Match
  \/ Prove \/ Settle \/ GiveUp
  \/ Accumulate

ContractSpec == ContractInit /\ [][ContractNext]_contractVars
=============================================================================
