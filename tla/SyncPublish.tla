---------------------------- MODULE SyncPublish ----------------------------
(***************************************************************************)
(* Incremental synchronisation of the derived projections with the source  *)
(* (sync/__init__.py, server/api/sync_api.py).                             *)
(*                                                                         *)
(* A call of sync compares the source with the entity store, stages the    *)
(* affected projections, swaps them in one group after the other, saves    *)
(* the store and writes the commit record state.json last.  Everything is  *)
(* on disk and nothing is locked: anybody edits the source meanwhile, any  *)
(* step may raise, and the process may die.                                *)
(*                                                                         *)
(* A projection is what it was derived from: the evidence in each file.    *)
(* Contents with the same evidence differ in comments only; contents whose *)
(* evidence has the same signature declare the same symbols with the same  *)
(* signatures and may differ in bodies, calls and data interfaces.         *)
(***************************************************************************)
EXTENDS Naturals, FiniteSets

CONSTANTS
  ParseSet,      \* files with entities and data interfaces (PARSE_SET)
  KernelSet,     \* files with kernel objects (kernel_files)
  Contents,      \* contents of a file
  Evidence,      \* the evidence in each content: entities or kernel objects
  Signature,     \* the signatures in each evidence of entities
  Bound,         \* files whose symbols the design is bound to
  Missing,       \* content of a tracked file that is not there
  Never,         \* digest or evidence nobody has recorded
  MaxRevision,   \* bound on revisions
  MaxEdits,      \* bound on edits
  MaxTroubles    \* bound on exceptions and deaths of the process

Files == ParseSet \cup KernelSet

ASSUME SyncAssumption ==
  /\ Contents # {} /\ Missing \notin Contents
  /\ Evidence \in [Contents -> Contents]
  /\ Signature \in [Contents -> Contents]
  /\ Bound \subseteq ParseSet
  /\ Never \notin Contents /\ Never # Missing
  /\ MaxRevision \in Nat /\ MaxRevision > 0
  /\ MaxEdits \in Nat /\ MaxTroubles \in Nat

VARIABLES
  source,    \* the files under the root
  store,     \* entity_store.json
  state,     \* state.json
  di,        \* data-interface artefacts: evidence by file
  krn,       \* kernel artefacts
  sem,       \* semantic artefacts: the two they were derived from
  lvs,       \* files whose verdicts in the LVS artefact are STALE
  verified,  \* signatures the LVS verdicts are about (history)
  staging,   \* staging/<revision> of the call in progress
  call,      \* the locals of the call in progress
  bounds,    \* edits and troubles left
  unsettled  \* files edited while a call was unfinished (history)

published == <<di, krn, sem, lvs>>
vars == <<source, store, state, published, verified, staging, call, bounds,
          unsettled>>

Known == Contents \cup {Never}
Projection(set) == [set -> Known]
Semantic == [di : Projection(ParseSet), krn : Projection(KernelSet)]
Store == [digests : Projection(ParseSet), entities : Projection(ParseSet),
          kdigests : Projection(KernelSet), kparts : Projection(KernelSet)]

(* What was never staged is not a projection.                              *)
ASSUME NeverAssumption ==
  Never \notin Projection(ParseSet) \cup Projection(KernelSet) \cup Semantic

(* BASE_REVISION: nothing has been committed yet. *)
Base == 0
State == [revision : 0..MaxRevision, failed : BOOLEAN]

NoStaging == [made |-> FALSE]
Staging ==
  {NoStaging}
  \cup [made : {TRUE}, di : Projection(ParseSet) \cup {Never},
        krn : Projection(KernelSet) \cup {Never}, sem : Semantic \cup {Never}]

(* dead: the process died in a call and none was begun since. *)
Modes == {"delta", "force", "regenerate"}
Idle == [step |-> "idle"]
Dead == [step |-> "dead"]
Steps == {"data", "kernel", "semantic", "swap data", "swap semantic",
          "swap kernel", "annotate", "save", "commit", "raised"}
Call ==
  {Idle, Dead}
  \cup [step : Steps, store : Store, state : State,
        changed : SUBSET ParseSet, resigned : SUBSET ParseSet,
        kchanged : SUBSET KernelSet, mode : Modes,
        revision : 0..MaxRevision]

SyncTypeOK ==
  /\ source \in [Files -> Contents \cup {Missing}]
  /\ store \in Store /\ state \in State
  /\ di \in Projection(ParseSet) /\ krn \in Projection(KernelSet)
  /\ sem \in Semantic /\ lvs \subseteq ParseSet
  /\ verified \in Projection(ParseSet)
  /\ staging \in Staging /\ call \in Call
  /\ bounds \in [edits : 0..MaxEdits, troubles : 0..MaxTroubles]
  /\ unsettled \subseteq Files

(* Slip: the digest of a file that is not there. *)
DigestOfAny(f) == source[f]

DigestOf(f) == IF source[f] = Missing THEN Never ELSE source[f]
EvidenceOf(f) == IF source[f] = Missing THEN Never ELSE Evidence[source[f]]

SignatureOf(evidence) ==
  IF evidence = Never THEN Never ELSE Signature[evidence]

Signatures(entities) == [f \in ParseSet |-> SignatureOf(entities[f])]

(* Either a baseline was built: revision 1 is published, every file is     *)
(* known and the verdicts are about it; or nothing was synchronised yet    *)
(* and the artefacts show none of the files.                               *)
Init ==
  /\ source \in [Files -> {CHOOSE c \in Contents : TRUE}]
  /\ \/ /\ di = [f \in ParseSet |-> EvidenceOf(f)]
        /\ krn = [f \in KernelSet |-> EvidenceOf(f)]
        /\ store = [digests |-> [f \in ParseSet |-> source[f]],
                    entities |-> di,
                    kdigests |-> [f \in KernelSet |-> source[f]],
                    kparts |-> krn]
        /\ verified = Signatures(di)
        /\ state = [revision |-> 1, failed |-> FALSE]
     \/ /\ di = [f \in ParseSet |-> Never]
        /\ krn = [f \in KernelSet |-> Never]
        /\ store = [digests |-> di, entities |-> di,
                    kdigests |-> krn, kparts |-> krn]
        /\ verified = di
        /\ state = [revision |-> Base, failed |-> FALSE]
  /\ sem = [di |-> di, krn |-> krn]
  /\ lvs = {}
  /\ staging = NoStaging
  /\ call = Idle
  /\ bounds = [edits |-> MaxEdits, troubles |-> MaxTroubles]
  /\ unsettled = {}

Running == call \notin {Idle, Dead}

(***************************************************************************)
(* The delta                                                               *)
(***************************************************************************)

(* compute_delta and kernel_delta against the store: the files whose       *)
(* digest differs, and those of them whose evidence does.  A kernel file   *)
(* that was removed is passed over.                                        *)
Changed == {f \in ParseSet : store.digests[f] # DigestOf(f)}
Moved == {f \in Changed : store.entities[f] # EvidenceOf(f)}

(* Of the files that moved, those with a unit SIGNATURE_CHANGED,           *)
(* SYMBOL_ADDED or SYMBOL_REMOVED; the others have moved in a body, a call *)
(* or a data interface, of which no verdict depends.                       *)
Resigned ==
  {f \in Moved : SignatureOf(store.entities[f]) # SignatureOf(EvidenceOf(f))}
KernelChanged ==
  {f \in KernelSet : source[f] # Missing /\ store.kdigests[f] # source[f]}
KernelMoved == {f \in KernelChanged : store.kparts[f] # EvidenceOf(f)}

(* A tracked file that was removed counts as changed and is read all the   *)
(* same: compute_delta raises before anything is done.                     *)
Unreadable == \E f \in Changed : source[f] = Missing

(* The store with the digests of now, and the evidence of now for the      *)
(* given files, of before for the others.                                  *)
Reindexed(old, changed, kchanged) ==
  [digests |-> [f \in ParseSet |-> DigestOf(f)],
   entities |-> [f \in ParseSet |->
      IF f \in changed \/ source[f] = Missing
      THEN EvidenceOf(f) ELSE old.entities[f]],
   kdigests |-> [f \in KernelSet |-> DigestOf(f)],
   kparts |-> [f \in KernelSet |->
      IF f \in kchanged \/ source[f] = Missing
      THEN EvidenceOf(f) ELSE old.kparts[f]]]

(* An edit of comments only is acknowledged in the store and makes no      *)
(* revision.  The kernel digest is not, and the file is compared again.    *)
AcknowledgeComments ==
  store' = [store EXCEPT
    !.digests = [f \in ParseSet |-> DigestOf(f)],
    !.entities = [f \in ParseSet |->
       IF f \in Changed THEN EvidenceOf(f) ELSE @[f]],
    !.kparts = [f \in KernelSet |->
       IF f \in KernelChanged THEN EvidenceOf(f) ELSE @[f]]]

(* regenerate takes every file for changed; force, like it, recomputes all *)
(* projections.                                                            *)
BeginSync(mode) ==
  /\ ~Running
  /\ \/ Unreadable /\ UNCHANGED <<store, call>>
     \/ /\ ~Unreadable /\ mode = "delta"
        /\ Moved = {} /\ KernelMoved = {}
        /\ call' = Idle
        /\ IF Changed = {} /\ KernelChanged = {}
           THEN UNCHANGED store ELSE AcknowledgeComments
     \/ /\ ~Unreadable
        /\ mode # "delta" \/ Moved # {} \/ KernelMoved # {}
        /\ state.revision < MaxRevision
        /\ call' =
             [step |-> "data", store |-> store, state |-> state,
              changed |-> IF mode = "regenerate"
                          THEN {f \in ParseSet : source[f] # Missing}
                          ELSE Changed,
              resigned |-> Resigned, kchanged |-> KernelChanged,
              mode |-> mode,
              revision |-> IF /\ state.revision = Base /\ mode = "delta"
                              /\ Changed = {}
                           THEN Base ELSE state.revision + 1]
        /\ UNCHANGED store
  /\ staging' = NoStaging
  /\ UNCHANGED <<source, state, published, verified, bounds, unsettled>>

(***************************************************************************)
(* Staging                                                                 *)
(***************************************************************************)

(* Every unit of a file in the parse set affects data interfaces,          *)
(* semantics and kernel; a kernel unit affects the kernel alone.           *)
DoData == call.mode # "delta" \/ call.changed # {}
DoSemantic == DoData

Go(step) == call' = [call EXCEPT !.step = step]

(* The data interfaces of the changed files are extracted; those of the    *)
(* others are taken over from the artefacts in place.                      *)
StageData ==
  /\ call.step = "data"
  /\ staging' =
       [made |-> TRUE, krn |-> Never, sem |-> Never,
        di |-> IF ~DoData THEN Never
               ELSE [f \in ParseSet |->
                  IF \/ f \in call.changed \/ call.changed = {}
                     \/ call.mode = "regenerate"
                  THEN EvidenceOf(f) ELSE di[f]]]
  /\ Go("kernel")
  /\ UNCHANGED <<source, store, state, published, verified, bounds, unsettled>>

(* Slip: only the kernel files that changed are extracted. *)
StageChangedKernel ==
  /\ call.step = "kernel"
  /\ staging' = [staging EXCEPT !.krn =
       [f \in KernelSet |-> IF f \in call.kchanged THEN EvidenceOf(f) ELSE krn[f]]]
  /\ Go("semantic")
  /\ UNCHANGED <<source, store, state, published, verified, bounds, unsettled>>

(* The kernel is extracted whole, from the files as they are by then. *)
StageKernel ==
  /\ call.step = "kernel"
  /\ staging' = [staging EXCEPT !.krn = [f \in KernelSet |-> EvidenceOf(f)]]
  /\ Go("semantic")
  /\ UNCHANGED <<source, store, state, published, verified, bounds, unsettled>>

StageSemantic ==
  /\ call.step = "semantic"
  /\ staging' = IF DoSemantic
                THEN [staging EXCEPT !.sem =
                        [di |-> staging.di, krn |-> staging.krn]]
                ELSE staging
  /\ Go("swap data")
  /\ UNCHANGED <<source, store, state, published, verified, bounds, unsettled>>

(***************************************************************************)
(* Publication                                                             *)
(***************************************************************************)

(* What is not staged is not swapped. *)
SwapData ==
  /\ call.step = "swap data"
  /\ di' = IF staging.di = Never THEN di ELSE staging.di
  /\ Go("swap semantic")
  /\ UNCHANGED <<source, store, state, krn, sem, lvs, verified, staging, bounds, unsettled>>

SwapSemantic ==
  /\ call.step = "swap semantic"
  /\ sem' = IF staging.sem = Never THEN sem ELSE staging.sem
  /\ Go("swap kernel")
  /\ UNCHANGED <<source, store, state, di, krn, lvs, verified, staging, bounds, unsettled>>

SwapKernel ==
  /\ call.step = "swap kernel"
  /\ krn' = staging.krn
  /\ Go("annotate")
  /\ UNCHANGED <<source, store, state, di, sem, lvs, verified, staging, bounds, unsettled>>

(* annotate_lvs, which the baseline does without: its verdicts are taken   *)
(* for fresh.                                                              *)
Annotate ==
  /\ call.step = "annotate"
  /\ lvs' = IF call.state.revision = Base THEN lvs
            ELSE lvs \cup (call.resigned \cap Bound)
  /\ Go("save")
  /\ UNCHANGED <<source, store, state, di, krn, sem, verified, staging, bounds,
                 unsettled>>

(* The source is read once more for the store.                             *)
SaveStore ==
  /\ call.step = "save"
  /\ store' = Reindexed(call.store, call.changed, call.kchanged)
  /\ Go("commit")
  /\ UNCHANGED <<source, state, published, verified, staging, bounds, unsettled>>

Commit ==
  /\ call.step = "commit"
  /\ state' = [revision |-> call.revision, failed |-> FALSE]
  /\ call' = Idle
  /\ verified' = IF call.state.revision = Base
                 THEN Signatures(store.entities) ELSE verified
  /\ UNCHANGED <<source, store, published, staging, bounds, unsettled>>

(***************************************************************************)
(* Troubles                                                                *)
(***************************************************************************)

InTry == Running /\ call.step # "raised"

(* Anything raises inside the try. *)
Raise ==
  /\ InTry /\ bounds.troubles > 0
  /\ bounds' = [bounds EXCEPT !.troubles = @ - 1]
  /\ Go("raised")
  /\ UNCHANGED <<source, store, state, published, verified, staging, unsettled>>

(* Slip: the files are acknowledged although the call failed. *)
AcknowledgeFailure ==
  /\ Running /\ call.step = "raised"
  /\ state' = [call.state EXCEPT !.failed = TRUE]
  /\ store' = Reindexed(call.store, call.changed, call.kchanged)
  /\ call' = Idle
  /\ UNCHANGED <<source, published, verified, staging, bounds, unsettled>>

(* The failure is written over the state that was read in the beginning.   *)
RecordFailure ==
  /\ Running /\ call.step = "raised"
  /\ state' = [call.state EXCEPT !.failed = TRUE]
  /\ call' = Idle
  /\ UNCHANGED <<source, store, published, verified, staging, bounds, unsettled>>

Die ==
  /\ Running /\ bounds.troubles > 0
  /\ call' = Dead
  /\ bounds' = [bounds EXCEPT !.troubles = @ - 1]
  /\ UNCHANGED <<source, store, state, published, verified, staging, unsettled>>

(* There is a baseline, and the last call has run to its end. *)
Settled ==
  ~Running /\ call # Dead /\ ~state.failed /\ state.revision # Base

Edit(f) ==
  /\ bounds.edits > 0
  /\ source' \in {[source EXCEPT ![f] = c] :
                    c \in (Contents \cup {Missing}) \ {source[f]}}
  /\ bounds' = [bounds EXCEPT !.edits = @ - 1]
  /\ unsettled' = IF Settled THEN unsettled ELSE unsettled \cup {f}
  /\ UNCHANGED <<store, state, published, verified, staging, call>>

CallStep ==
  \/ StageData \/ StageKernel \/ StageSemantic
  \/ SwapData \/ SwapSemantic \/ SwapKernel \/ Annotate \/ SaveStore \/ Commit
  \/ RecordFailure

Next ==
  \/ \E mode \in Modes : BeginSync(mode)
  \/ CallStep \/ Raise \/ Die
  \/ \E f \in Files : Edit(f)

Spec == Init /\ [][Next]_vars

(***************************************************************************)
(* Properties                                                              *)
(***************************************************************************)

(* No edit gets lost over failures and deaths of the process: a file whose *)
(* digest the store has acknowledged is in the published data interfaces   *)
(* as it is, unless it was edited before a call had finished.              *)
AcknowledgedIsProjected ==
  \A f \in ParseSet \ unsettled :
    ~Running /\ source[f] = store.digests[f] => di[f] = EvidenceOf(f)

(* A committed revision is complete, whatever broke off before it: data    *)
(* interfaces and kernel show the source, the semantics were derived from  *)
(* the data interfaces beside them, and a verdict that does not say STALE  *)
(* was made for the signatures the file has.                               *)
CommitIsComplete ==
  [][Commit =>
       \A f \in Files \ unsettled :
         /\ f \in ParseSet => di'[f] = EvidenceOf(f) /\ sem'.di[f] = di'[f]
         /\ f \in KernelSet => krn'[f] = EvidenceOf(f)
         /\ f \in Bound =>
              f \in lvs' \/ verified'[f] = SignatureOf(EvidenceOf(f))]_vars
=============================================================================
