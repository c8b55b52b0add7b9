------------------------- MODULE SyncPublishProofs -------------------------
(***************************************************************************)
(* Proofs about SyncPublish: types, that what the store acknowledges is    *)
(* projected, and that a committed revision is complete.                   *)
(***************************************************************************)
EXTENDS SyncPublish, TLAPS

(***************************************************************************)
(* Type correctness                                                        *)
(***************************************************************************)

(* Digests and evidence are known values. *)
LEMMA DigestType ==
  ASSUME source \in [Files -> Contents \cup {Missing}]
  PROVE  \A f \in Files : DigestOf(f) \in Known /\ EvidenceOf(f) \in Known
  BY SyncAssumption DEF DigestOf, EvidenceOf, Known

(* So are signatures. *)
LEMMA SignatureType ==
  ASSUME NEW evidence \in Known
  PROVE  SignatureOf(evidence) \in Known
  BY SyncAssumption DEF SignatureOf, Known

LEMMA SignaturesType ==
  ASSUME NEW entities \in Projection(ParseSet)
  PROVE  Signatures(entities) \in Projection(ParseSet)
  BY SignatureType DEF Signatures, Projection

LEMMA SyncTypeInit == Init => SyncTypeOK
<1> SUFFICES ASSUME Init PROVE SyncTypeOK
  OBVIOUS
<1>1. source \in [Files -> Contents \cup {Missing}]
  BY SyncAssumption DEF Init
<1>2. /\ [f \in ParseSet |-> EvidenceOf(f)] \in Projection(ParseSet)
      /\ [f \in KernelSet |-> EvidenceOf(f)] \in Projection(KernelSet)
      /\ [f \in ParseSet |-> source[f]] \in Projection(ParseSet)
      /\ [f \in KernelSet |-> source[f]] \in Projection(KernelSet)
  <2>1. \A f \in Files : source[f] \in Known
    BY SyncAssumption DEF Init, Known
  <2> QED
    BY <1>1, <2>1, DigestType DEF Projection, Files
<1>3. /\ [f \in ParseSet |-> Never] \in Projection(ParseSet)
      /\ [f \in KernelSet |-> Never] \in Projection(KernelSet)
  BY DEF Projection, Known
<1>4. /\ di \in Projection(ParseSet) /\ krn \in Projection(KernelSet)
      /\ store \in Store /\ verified \in Projection(ParseSet)
  BY <1>2, <1>3, SignaturesType DEF Init, Store
<1>5. sem \in Semantic
  BY <1>4 DEF Init, Semantic
<1>6. state \in State
  <2>1. 0 \in 0..MaxRevision /\ 1 \in 0..MaxRevision
    BY SyncAssumption
  <2>2. \A n \in 0..MaxRevision : [revision |-> n, failed |-> FALSE] \in State
    BY DEF State
  <2>3. state = [revision |-> 1, failed |-> FALSE]
        \/ state = [revision |-> 0, failed |-> FALSE]
    BY DEF Init, Base
  <2> QED
    BY <2>1, <2>2, <2>3
<1> QED
  BY <1>1, <1>4, <1>5, <1>6, SyncAssumption DEF Init, SyncTypeOK, Staging, Call

(* Reindexing keeps the store a store. *)
LEMMA ReindexedType ==
  ASSUME source \in [Files -> Contents \cup {Missing}], NEW old \in Store,
         NEW changed, NEW kchanged
  PROVE  Reindexed(old, changed, kchanged) \in Store
<1>1. \A f \in Files : DigestOf(f) \in Known /\ EvidenceOf(f) \in Known
  BY DigestType
<1> QED
  BY <1>1 DEF Reindexed, Store, Projection, Files

(* A call that is running is a whole one. *)
LEMMA RunningCall ==
  ASSUME SyncTypeOK, Running
  PROVE  call \in [step : Steps, store : Store, state : State,
                   changed : SUBSET ParseSet, resigned : SUBSET ParseSet,
                   kchanged : SUBSET KernelSet, mode : Modes,
                   revision : 0..MaxRevision]
  BY DEF SyncTypeOK, Running, Call

LEMMA StepRunning == call.step \in Steps => Running
<1>1. Idle.step \notin Steps /\ Dead.step \notin Steps
  BY DEF Idle, Dead, Steps
<1> QED
  BY <1>1 DEF Running

LEMMA GoType ==
  ASSUME SyncTypeOK, Running, NEW step \in Steps, Go(step)
  PROVE  call' \in Call /\ call'.step = step /\ Running'
         /\ call' = [call EXCEPT !.step = step]
<1>1. call' \in [step : Steps, store : Store, state : State,
                   changed : SUBSET ParseSet, resigned : SUBSET ParseSet,
                   kchanged : SUBSET KernelSet, mode : Modes,
                   revision : 0..MaxRevision]
  BY RunningCall DEF Go
<1>2. call'.step = step
  BY RunningCall DEF Go
<1> QED
  BY <1>1, <1>2 DEF Call, Go, Running, Idle, Dead, Steps

LEMMA BeginSyncType ==
  ASSUME SyncTypeOK, NEW mode \in Modes, BeginSync(mode)
  PROVE  SyncTypeOK'
<1>1. \A f \in Files : DigestOf(f) \in Known /\ EvidenceOf(f) \in Known
  BY DigestType DEF SyncTypeOK
<1>2. store' \in Store
  <2>1. CASE AcknowledgeComments
    BY <1>1, <2>1 DEF AcknowledgeComments, Store, Projection, Files, SyncTypeOK
  <2> QED
    BY <2>1 DEF BeginSync, SyncTypeOK
<1>3. call' \in Call
  <2>1. CASE UNCHANGED call \/ call' = Idle
    BY <2>1 DEF SyncTypeOK, Call
  <2>2. CASE ~(UNCHANGED call \/ call' = Idle)
    <3>1. state.revision \in 0..MaxRevision /\ state.revision < MaxRevision
      BY <2>2 DEF BeginSync, SyncTypeOK, State
    <3>2. state.revision + 1 \in 0..MaxRevision /\ Base \in 0..MaxRevision
      BY <3>1, SyncAssumption DEF Base
    <3>3. "data" \in Steps
      BY DEF Steps
    <3>4. Changed \subseteq ParseSet /\ Resigned \subseteq ParseSet
          /\ KernelChanged \subseteq KernelSet
      BY DEF Changed, Moved, Resigned, KernelChanged
    <3> QED
      BY <2>2, <3>2, <3>3, <3>4 DEF BeginSync, SyncTypeOK, Call
  <2> QED
    BY <2>1, <2>2
<1> QED
  BY <1>2, <1>3 DEF BeginSync, SyncTypeOK, Staging, published

(* What is staged at each step: whole projections, in the order they are   *)
(* made, or nothing where the call computes nothing.                       *)
AfterData == {"kernel", "semantic", "swap data", "swap semantic",
              "swap kernel", "annotate", "save", "commit"}
AfterKernel == AfterData \ {"kernel"}
AfterSemantic == AfterKernel \ {"semantic"}
Staged ==
  /\ call.step \in AfterData =>
       /\ staging \in Staging \ {NoStaging}
       /\ IF DoData THEN staging.di \in Projection(ParseSet)
                    ELSE staging.di = Never
  /\ call.step \in AfterData \ AfterSemantic => staging.sem = Never
  /\ call.step \in AfterKernel => staging.krn \in Projection(KernelSet)
  /\ call.step \in AfterSemantic =>
       IF DoData THEN staging.sem = [di |-> staging.di, krn |-> staging.krn]
                 ELSE staging.sem = Never

TypeInv == SyncTypeOK /\ Staged

(* A staging directory is a record of its three groups. *)
LEMMA StagingFields ==
  ASSUME staging \in Staging \ {NoStaging}
  PROVE  staging \in [made : {TRUE}, di : Projection(ParseSet) \cup {Never},
                      krn : Projection(KernelSet) \cup {Never},
                      sem : Semantic \cup {Never}]
  BY DEF Staging

(* The locals of a call other than its step stay. *)
LEMMA GoKeeps ==
  ASSUME SyncTypeOK, Running, NEW step \in Steps, Go(step)
  PROVE  /\ call'.changed = call.changed /\ call'.mode = call.mode
         /\ call'.state = call.state
         /\ call'.resigned = call.resigned /\ call'.kchanged = call.kchanged
         /\ call'.store = call.store /\ call'.revision = call.revision
         /\ DoData' = DoData
  BY RunningCall DEF Go, DoData

LEMMA StageDataType ==
  ASSUME TypeInv, StageData
  PROVE  TypeInv'
<1> DEFINE Extracted ==
      [f \in ParseSet |->
         IF \/ f \in call.changed \/ call.changed = {}
            \/ call.mode = "regenerate"
         THEN EvidenceOf(f) ELSE di[f]]
<1>1. Running /\ Go("kernel") /\ "kernel" \in Steps /\ SyncTypeOK
  BY StepRunning DEF StageData, Steps, TypeInv
<1>2. call' \in Call /\ call'.step = "kernel" /\ DoData' = DoData
  BY <1>1, GoType, GoKeeps
<1>3. Extracted \in Projection(ParseSet)
  BY <1>1, DigestType DEF Projection, SyncTypeOK, Files
<1>4. staging' = [made |-> TRUE, krn |-> Never, sem |-> Never,
                  di |-> IF ~DoData THEN Never ELSE Extracted]
  BY DEF StageData
<1> HIDE DEF Extracted
<1>5. staging' \in Staging \ {NoStaging}
  <2>1. staging' \in Staging
    BY <1>3, <1>4 DEF Staging
  <2>2. staging'.sem = Never /\ NoStaging \notin [made : {TRUE}, di : Projection(ParseSet) \cup {Never},
                      krn : Projection(KernelSet) \cup {Never},
                      sem : Semantic \cup {Never}]
    BY <1>4 DEF NoStaging
  <2>3. staging' \in [made : {TRUE}, di : Projection(ParseSet) \cup {Never},
                      krn : Projection(KernelSet) \cup {Never},
                      sem : Semantic \cup {Never}]
    BY <1>3, <1>4
  <2> QED
    BY <2>1, <2>2, <2>3
<1>6. Staged'
  BY <1>2, <1>3, <1>4, <1>5
  DEF Staged, AfterData, AfterKernel, AfterSemantic
<1>7. SyncTypeOK'
  BY <1>1, <1>2, <1>5 DEF StageData, SyncTypeOK, published
<1> QED
  BY <1>6, <1>7 DEF TypeInv

LEMMA StageKernelType ==
  ASSUME TypeInv, StageKernel
  PROVE  TypeInv'
<1> DEFINE Extracted == [f \in KernelSet |-> EvidenceOf(f)]
<1>1. Running /\ Go("semantic") /\ "semantic" \in Steps /\ SyncTypeOK
  BY StepRunning DEF StageKernel, Steps, TypeInv
<1>2. call' \in Call /\ call'.step = "semantic" /\ DoData' = DoData
  BY <1>1, GoType, GoKeeps
<1>3. Extracted \in Projection(KernelSet)
  BY <1>1, DigestType DEF Projection, SyncTypeOK, Files
<1>4. /\ staging \in Staging \ {NoStaging} /\ staging.sem = Never
      /\ IF DoData THEN staging.di \in Projection(ParseSet)
                   ELSE staging.di = Never
  BY DEF TypeInv, Staged, StageKernel, AfterData, AfterKernel, AfterSemantic
<1>5. staging' = [staging EXCEPT !.krn = Extracted]
  BY DEF StageKernel
<1> HIDE DEF Extracted
<1>6. /\ staging' \in Staging \ {NoStaging}
      /\ staging'.di = staging.di /\ staging'.sem = Never
      /\ staging'.krn = Extracted
  BY <1>3, <1>4, <1>5, StagingFields DEF Staging, NoStaging
<1>7. Staged'
  BY <1>2, <1>3, <1>4, <1>6
  DEF Staged, AfterData, AfterKernel, AfterSemantic
<1>8. SyncTypeOK'
  BY <1>1, <1>2, <1>6 DEF StageKernel, SyncTypeOK, published
<1> QED
  BY <1>7, <1>8 DEF TypeInv

LEMMA StageSemanticType ==
  ASSUME TypeInv, StageSemantic
  PROVE  TypeInv'
<1>1. Running /\ Go("swap data") /\ "swap data" \in Steps /\ SyncTypeOK
  BY StepRunning DEF StageSemantic, Steps, TypeInv
<1>2. call' \in Call /\ call'.step = "swap data" /\ DoData' = DoData
  BY <1>1, GoType, GoKeeps
<1>3. /\ staging \in Staging \ {NoStaging} /\ staging.sem = Never
      /\ staging.krn \in Projection(KernelSet)
      /\ IF DoData THEN staging.di \in Projection(ParseSet)
                   ELSE staging.di = Never
  BY DEF TypeInv, Staged, StageSemantic, AfterData, AfterKernel, AfterSemantic
<1>4. /\ staging' \in Staging \ {NoStaging}
      /\ staging'.di = staging.di /\ staging'.krn = staging.krn
      /\ IF DoData THEN staging'.sem = [di |-> staging.di, krn |-> staging.krn]
                   ELSE staging'.sem = Never
  <2>1. CASE DoData
    <3>1. [di |-> staging.di, krn |-> staging.krn] \in Semantic
      BY <1>3, <2>1 DEF Semantic
    <3> QED
      BY <1>3, <2>1, <3>1, StagingFields
      DEF StageSemantic, DoSemantic, Staging, NoStaging
  <2>2. CASE ~DoData
    BY <1>3, <2>2 DEF StageSemantic, DoSemantic
  <2> QED
    BY <2>1, <2>2
<1>5. Staged'
  BY <1>2, <1>3, <1>4
  DEF Staged, AfterData, AfterKernel, AfterSemantic
<1>6. SyncTypeOK'
  BY <1>1, <1>2, <1>4 DEF StageSemantic, SyncTypeOK, published
<1> QED
  BY <1>5, <1>6 DEF TypeInv

(* From the first swap on, what is staged stays. *)
LEMMA StagedStays ==
  ASSUME TypeInv, call.step \in AfterSemantic, UNCHANGED staging,
         NEW step \in AfterSemantic, Go(step)
  PROVE  call' \in Call /\ call'.step = step /\ Running' /\ Staged'
<1>1. Running /\ step \in Steps /\ SyncTypeOK
  BY StepRunning
  DEF Steps, TypeInv, AfterData, AfterKernel, AfterSemantic
<1>2. call' \in Call /\ call'.step = step /\ DoData' = DoData /\ Running'
  BY <1>1, GoType, GoKeeps
<1> QED
  BY <1>2 DEF Staged, TypeInv, AfterData, AfterKernel, AfterSemantic

LEMMA StagedSemantic ==
  ASSUME TypeInv, call.step \in AfterSemantic, DoData
  PROVE  staging.sem \in Semantic /\ staging.sem.di = staging.di
<1>1. /\ staging.di \in Projection(ParseSet)
      /\ staging.krn \in Projection(KernelSet)
      /\ staging.sem = [di |-> staging.di, krn |-> staging.krn]
  BY DEF TypeInv, Staged, AfterData, AfterKernel, AfterSemantic
<1> QED
  BY <1>1 DEF Semantic

LEMMA SwapType ==
  ASSUME TypeInv, SwapData \/ SwapSemantic \/ SwapKernel
  PROVE  TypeInv'
<1> USE DEF AfterData, AfterKernel, AfterSemantic
<1>1. CASE SwapData
  <2>1. call.step \in AfterSemantic /\ "swap semantic" \in AfterSemantic
    BY <1>1 DEF SwapData
  <2>2. call' \in Call /\ Staged'
    BY <1>1, <2>1, StagedStays DEF SwapData
  <2>3. di' \in Projection(ParseSet)
    BY <1>1, <2>1 DEF SwapData, TypeInv, Staged, SyncTypeOK
  <2> QED
    BY <1>1, <2>2, <2>3 DEF SwapData, TypeInv, SyncTypeOK
<1>2. CASE SwapSemantic
  <2>1. call.step \in AfterSemantic /\ "swap kernel" \in AfterSemantic
    BY <1>2 DEF SwapSemantic
  <2>2. call' \in Call /\ Staged'
    BY <1>2, <2>1, StagedStays DEF SwapSemantic
  <2>3. sem' \in Semantic
    <3>1. CASE DoData
      <4>1. staging.sem \in Semantic
        BY <2>1, <3>1, StagedSemantic
      <4> QED
        BY <1>2, <4>1 DEF SwapSemantic, TypeInv, SyncTypeOK
    <3>2. CASE ~DoData
      BY <1>2, <2>1, <3>2 DEF SwapSemantic, TypeInv, Staged, SyncTypeOK
    <3> QED
      BY <3>1, <3>2
  <2> QED
    BY <1>2, <2>2, <2>3 DEF SwapSemantic, TypeInv, SyncTypeOK
<1>3. CASE SwapKernel
  <2>1. call.step \in AfterSemantic /\ "annotate" \in AfterSemantic
    BY <1>3 DEF SwapKernel
  <2>2. call' \in Call /\ Staged'
    BY <1>3, <2>1, StagedStays DEF SwapKernel
  <2>3. krn' \in Projection(KernelSet)
    BY <1>3, <2>1 DEF SwapKernel, TypeInv, Staged
  <2> QED
    BY <1>3, <2>2, <2>3 DEF SwapKernel, TypeInv, SyncTypeOK
<1> QED
  BY <1>1, <1>2, <1>3

LEMMA RecordType ==
  ASSUME TypeInv, Annotate \/ SaveStore \/ Commit \/ RecordFailure
  PROVE  TypeInv'
<1> USE DEF AfterData, AfterKernel, AfterSemantic
<1>1. CASE Annotate
  <2>1. call.step \in AfterSemantic /\ "save" \in AfterSemantic
    BY <1>1 DEF Annotate
  <2>2. call' \in Call /\ Staged'
    BY <1>1, <2>1, StagedStays DEF Annotate
  <2>3. call.resigned \subseteq ParseSet
    BY <2>1, StepRunning, RunningCall DEF TypeInv, Steps
  <2> QED
    BY <1>1, <2>2, <2>3 DEF Annotate, TypeInv, SyncTypeOK
<1>2. CASE SaveStore
  <2>1. call.step \in AfterSemantic /\ "commit" \in AfterSemantic
    BY <1>2 DEF SaveStore
  <2>2. call' \in Call /\ Staged'
    BY <1>2, <2>1, StagedStays DEF SaveStore
  <2>3. call.store \in Store
    BY <2>1, StepRunning, RunningCall DEF TypeInv, Steps
  <2>4. store' \in Store
    BY <1>2, <2>3, ReindexedType DEF SaveStore, TypeInv, SyncTypeOK
  <2> QED
    BY <1>2, <2>2, <2>4 DEF SaveStore, TypeInv, SyncTypeOK, published
<1>3. CASE Commit \/ RecordFailure
  <2>1. Running
    BY <1>3, StepRunning DEF Commit, RecordFailure, Steps
  <2>2. state' \in State
    <3>1. call.revision \in 0..MaxRevision /\ call.state \in State
      BY <2>1, RunningCall DEF TypeInv
    <3>2. CASE Commit
      BY <3>1, <3>2 DEF Commit, State
    <3>3. CASE RecordFailure
      BY <3>1, <3>3 DEF RecordFailure, State
    <3> QED
      BY <1>3, <3>2, <3>3
  <2>3. call' = Idle /\ call'.step \notin AfterData
    <3>1. call' = Idle
      BY <1>3 DEF Commit, RecordFailure
    <3>2. Idle.step = "idle"
      BY DEF Idle
    <3> QED
      BY <3>1, <3>2
  <2>4. Staged'
    BY <2>3 DEF Staged
  <2>5. verified' \in Projection(ParseSet)
    <3>1. store.entities \in Projection(ParseSet)
      BY DEF TypeInv, SyncTypeOK, Store
    <3> QED
      BY <1>3, <3>1, SignaturesType
      DEF Commit, RecordFailure, TypeInv, SyncTypeOK
  <2> QED
    BY <1>3, <2>2, <2>3, <2>4, <2>5
    DEF Commit, RecordFailure, TypeInv, SyncTypeOK, published, Call
<1> QED
  BY <1>1, <1>2, <1>3

LEMMA WorldType ==
  ASSUME TypeInv, Raise \/ Die \/ (\E f \in Files : Edit(f))
  PROVE  TypeInv'
<1> USE DEF AfterData, AfterKernel, AfterSemantic
<1>1. CASE Raise
  <2>1. Running /\ "raised" \in Steps /\ Go("raised") /\ SyncTypeOK
    BY <1>1 DEF Raise, InTry, Steps, TypeInv
  <2>2. call' \in Call /\ call'.step = "raised"
    BY <2>1, GoType
  <2>3. Staged'
    BY <2>2 DEF Staged
  <2>4. bounds' \in [edits : 0..MaxEdits, troubles : 0..MaxTroubles]
    BY <1>1, SyncAssumption DEF Raise, TypeInv, SyncTypeOK
  <2> QED
    BY <1>1, <2>2, <2>3, <2>4 DEF Raise, TypeInv, SyncTypeOK, published
<1>2. CASE Die
  <2>1. call' = Dead /\ call'.step \notin AfterData
    BY <1>2 DEF Die, Dead
  <2>2. Staged'
    BY <2>1 DEF Staged
  <2>3. bounds' \in [edits : 0..MaxEdits, troubles : 0..MaxTroubles]
    BY <1>2, SyncAssumption DEF Die, TypeInv, SyncTypeOK
  <2> QED
    BY <1>2, <2>1, <2>2, <2>3 DEF Die, TypeInv, SyncTypeOK, published, Call
<1>3. ASSUME NEW f \in Files, Edit(f)
      PROVE  TypeInv'
  <2>1. source' \in [Files -> Contents \cup {Missing}]
    BY <1>3 DEF Edit, TypeInv, SyncTypeOK
  <2>2. bounds' \in [edits : 0..MaxEdits, troubles : 0..MaxTroubles]
    BY <1>3, SyncAssumption DEF Edit, TypeInv, SyncTypeOK
  <2>3. Staged'
    BY <1>3 DEF Edit, TypeInv, Staged, DoData
  <2> QED
    BY <1>3, <2>1, <2>2, <2>3 DEF Edit, TypeInv, SyncTypeOK, published
<1> QED
  BY <1>1, <1>2, <1>3

(* Types and staging are inductive. *)
LEMMA TypeStep == TypeInv /\ [Next]_vars => TypeInv'
<1> SUFFICES ASSUME TypeInv, [Next]_vars PROVE TypeInv'
  OBVIOUS
<1>1. ASSUME NEW mode \in Modes, BeginSync(mode)
      PROVE  TypeInv'
  <2>1. SyncTypeOK'
    BY <1>1, BeginSyncType DEF TypeInv
  <2>2. call'.step \notin AfterData
    <3>1. CASE UNCHANGED call
      <4>1. ~Running
        BY <1>1 DEF BeginSync
      <4>2. call.step \notin Steps
        BY <4>1, StepRunning
      <4> QED
        BY <3>1, <4>2 DEF AfterData, Steps
    <3>2. CASE ~UNCHANGED call
      <4>1. call' = Idle \/ call'.step = "data"
        BY <1>1, <3>2 DEF BeginSync
      <4>2. Idle.step = "idle"
        BY DEF Idle
      <4> QED
        BY <4>1, <4>2 DEF AfterData
    <3> QED
      BY <3>1, <3>2
  <2> QED
    BY <2>1, <2>2 DEF TypeInv, Staged, AfterKernel, AfterSemantic
<1>2. CASE CallStep
  BY <1>2, StageDataType, StageKernelType, StageSemanticType, SwapType,
     RecordType DEF CallStep
<1>3. CASE UNCHANGED vars
  BY <1>3 DEF vars, published, TypeInv, SyncTypeOK, Staged, DoData
<1> QED
  BY <1>1, <1>2, <1>3, WorldType DEF Next

LEMMA TypeInit == Init => TypeInv
  BY SyncTypeInit DEF Init, TypeInv, Staged, Idle, AfterData, AfterKernel,
     AfterSemantic

(* Every file, artefact and local of a call keeps its type, for any files, *)
(* contents and bounds (sync/__init__.py).                                 *)
THEOREM SyncTypeCorrect == Spec => []SyncTypeOK
<1>1. TypeInv => SyncTypeOK
  BY DEF TypeInv
<1> QED
  BY <1>1, TypeInit, TypeStep, PTL DEF Spec

(***************************************************************************)
(* Completeness of what is acknowledged and of what is committed           *)
(***************************************************************************)

(* The evidence that belongs to a recorded digest. *)
Recorded(digest) == IF digest = Never THEN Never ELSE Evidence[digest]

BeforeSave == {"data", "kernel", "semantic", "swap data", "swap semantic",
               "swap kernel", "annotate", "save"}
DataSwapped == {"swap semantic", "swap kernel", "annotate", "save", "commit"}
SemanticSwapped == DataSwapped \ {"swap semantic"}
KernelSwapped == SemanticSwapped \ {"swap kernel"}
Annotated == KernelSwapped \ {"annotate"}

(* What the store records of a file belongs together, and what is shown is *)
(* of the store or of the source: of the store when all has settled.       *)
Shown(f) ==
  /\ store.entities[f] = Recorded(store.digests[f])
  /\ di[f] \in {store.entities[f], EvidenceOf(f)}
  /\ sem.di[f] \in {store.entities[f], EvidenceOf(f)}
  /\ Settled => di[f] = store.entities[f] /\ sem.di[f] = store.entities[f]

(* How far a call has brought a file with entities. *)
Brought(f) ==
  /\ call.step \in BeforeSave =>
       f \in call.changed \/ store.digests[f] = DigestOf(f)
  /\ call.step \in AfterData /\ DoData => staging.di[f] = EvidenceOf(f)
  /\ call.step \in DataSwapped => di[f] = EvidenceOf(f)
  /\ call.step \in SemanticSwapped => sem.di[f] = EvidenceOf(f)
  /\ call.step = "commit" => store.entities[f] = EvidenceOf(f)
  /\ call.step \in BeforeSave
       /\ SignatureOf(store.entities[f]) # SignatureOf(EvidenceOf(f)) =>
       f \in call.resigned

(* From the baseline on, the verdicts that are not marked are about the    *)
(* signatures in the store.                                                *)
Fresh(f) ==
  f \in Bound /\ state.revision # Base =>
    f \in lvs \/ verified[f] = SignatureOf(store.entities[f])

KernelBrought(f) ==
  /\ call.step \in AfterKernel => staging.krn[f] = EvidenceOf(f)
  /\ call.step \in KernelSwapped => krn[f] = EvidenceOf(f)

CallInv ==
  /\ call.step \in BeforeSave => call.store = store
  /\ call.step \in Steps => call.state = state
  /\ call.step \in Annotated /\ state.revision # Base =>
       call.resigned \cap Bound \subseteq lvs

SyncInv ==
  /\ TypeInv
  /\ CallInv
  /\ \A f \in ParseSet \ unsettled : Shown(f) /\ Brought(f) /\ Fresh(f)
  /\ \A f \in KernelSet \ unsettled : KernelBrought(f)

LEMMA EvidenceRecorded ==
  ASSUME source \in [Files -> Contents \cup {Missing}], NEW f \in Files
  PROVE  Recorded(DigestOf(f)) = EvidenceOf(f)
<1>1. source[f] \in Contents \cup {Missing}
  OBVIOUS
<1> QED
  BY <1>1, SyncAssumption DEF Recorded, DigestOf, EvidenceOf

LEMMA EvidenceStays ==
  ASSUME UNCHANGED source
  PROVE  \A f \in Files : /\ EvidenceOf(f)' = EvidenceOf(f)
                          /\ DigestOf(f)' = DigestOf(f)
  BY DEF EvidenceOf, DigestOf

(* What a step of a call leaves alone. *)
LEMMA GoFacts ==
  ASSUME SyncInv, call.step \in Steps, NEW step \in Steps, Go(step)
  PROVE  /\ call'.step = step /\ call'.changed = call.changed
         /\ call'.store = call.store /\ call'.resigned = call.resigned
         /\ call'.state = call.state /\ DoData' = DoData /\ ~Settled'
<1>1. SyncTypeOK /\ Running
  BY StepRunning DEF SyncInv, TypeInv
<1>2. Running'
  BY <1>1, GoType
<1> QED
  BY <1>1, <1>2, GoType, GoKeeps DEF Settled

(* A call that stages nothing finds everything in its place.               *)
LEMMA NothingToStage ==
  ASSUME SyncInv, call.step \in BeforeSave, ~DoData,
         NEW f \in ParseSet \ unsettled
  PROVE  di[f] = EvidenceOf(f) /\ sem.di[f] = EvidenceOf(f)
<1>1. call.changed = {}
  BY DEF DoData
<1>2. store.digests[f] = DigestOf(f)
  BY <1>1 DEF SyncInv, Brought
<1>3. source \in [Files -> Contents \cup {Missing}] /\ f \in Files
  BY DEF SyncInv, TypeInv, SyncTypeOK, Files
<1>4. store.entities[f] = EvidenceOf(f)
  BY <1>2, <1>3, EvidenceRecorded DEF SyncInv, Shown
<1> QED
  BY <1>4 DEF SyncInv, Shown

(* What a call does not count among the changed files is known already.    *)
LEMMA NotChanged ==
  ASSUME SyncInv, call.step \in BeforeSave,
         NEW f \in ParseSet \ unsettled, f \notin call.changed
  PROVE  di[f] = EvidenceOf(f) /\ store.entities[f] = EvidenceOf(f)
<1>1. store.digests[f] = DigestOf(f)
  BY DEF SyncInv, Brought
<1>2. source \in [Files -> Contents \cup {Missing}] /\ f \in Files
  BY DEF SyncInv, TypeInv, SyncTypeOK, Files
<1>3. store.entities[f] = EvidenceOf(f)
  BY <1>1, <1>2, EvidenceRecorded DEF SyncInv, Shown
<1> QED
  BY <1>3 DEF SyncInv, Shown

(* A verdict stays fresh or marked as long as neither the signatures in    *)
(* the store nor the revision change.                                      *)
LEMMA FreshStays ==
  ASSUME NEW f \in ParseSet, Fresh(f), lvs \subseteq lvs',
         UNCHANGED <<verified, state>>, store'.entities[f] = store.entities[f]
  PROVE  Fresh(f)'
<1>1. SignatureOf(store'.entities[f]) = SignatureOf(store.entities[f])
      /\ (SignatureOf(store.entities[f]))' = SignatureOf(store'.entities[f])
  BY DEF SignatureOf
<1> QED
  BY <1>1 DEF Fresh

LEMMA BeginSyncKeeps ==
  ASSUME SyncInv, NEW mode \in Modes, BeginSync(mode), TypeInv'
  PROVE  SyncInv'
<1> USE DEF AfterData, AfterKernel, AfterSemantic, BeforeSave, DataSwapped,
            SemanticSwapped, KernelSwapped, Annotated
<1>1. /\ source \in [Files -> Contents \cup {Missing}]
      /\ ParseSet \subseteq Files /\ KernelSet \subseteq Files
      /\ ~Running
      /\ UNCHANGED <<source, state, di, sem, krn, lvs, verified, unsettled>>
      /\ store \in Store
  BY DEF SyncInv, TypeInv, SyncTypeOK, Files, BeginSync, published
<1>2. call.step \notin Steps
  BY <1>1, StepRunning
<1>3. \A f \in Files : EvidenceOf(f)' = EvidenceOf(f) /\ DigestOf(f)' = DigestOf(f)
  BY <1>1, EvidenceStays
<1>4. CASE UNCHANGED <<store, call>>
  <2>1. CallInv'
    BY <1>2, <1>4 DEF CallInv, Steps
  <2>2. \A f \in ParseSet \ unsettled : Shown(f)'
    BY <1>1, <1>3, <1>4 DEF SyncInv, Shown, Settled, Running
  <2>3. \A f \in ParseSet \ unsettled : Brought(f)'
    BY <1>2, <1>4 DEF Brought, Steps
  <2>4. \A f \in KernelSet \ unsettled : KernelBrought(f)'
    BY <1>2, <1>4 DEF KernelBrought, Steps
  <2>5. \A f \in ParseSet \ unsettled : Fresh(f)'
    BY <1>1, <1>4, FreshStays DEF SyncInv
  <2> QED
    BY <1>1, <2>1, <2>2, <2>3, <2>4, <2>5 DEF SyncInv
<1>5. CASE /\ Moved = {} /\ call' = Idle
           /\ IF Changed = {} /\ KernelChanged = {}
              THEN UNCHANGED store ELSE AcknowledgeComments
  <2>1. call'.step = "idle"
    BY <1>5 DEF Idle
  <2>2. CallInv'
    BY <2>1 DEF CallInv, Steps
  <2>3. ASSUME NEW f \in ParseSet \ unsettled
        PROVE  Shown(f)' /\ Fresh(f)'
    <3>1. /\ store.entities[f] = Recorded(store.digests[f])
          /\ di[f] \in {store.entities[f], EvidenceOf(f)}
          /\ sem.di[f] \in {store.entities[f], EvidenceOf(f)}
      BY DEF SyncInv, Shown
    <3>2. Recorded(DigestOf(f)) = EvidenceOf(f)
      BY <1>1, EvidenceRecorded
    <3>3. store.entities[f] = EvidenceOf(f)
      <4>1. CASE f \in Changed
        BY <1>5, <4>1 DEF Moved
      <4>2. CASE f \notin Changed
        BY <3>1, <3>2, <4>2 DEF Changed
      <4> QED
        BY <4>1, <4>2
    <3>4. /\ store'.entities[f] = store.entities[f]
          /\ store'.digests[f] = DigestOf(f)
      <4>1. CASE Changed = {} /\ KernelChanged = {}
        BY <1>5, <4>1 DEF Changed
      <4>2. CASE AcknowledgeComments
        BY <1>1, <3>3, <4>2 DEF AcknowledgeComments, Store, Projection
      <4> QED
        BY <1>5, <4>1, <4>2
    <3>5. Shown(f)'
      BY <1>1, <1>3, <3>1, <3>2, <3>3, <3>4 DEF Shown, Recorded
    <3>6. Fresh(f)'
      BY <1>1, <3>4, FreshStays DEF SyncInv
    <3> QED
      BY <3>5, <3>6
  <2>4. \A f \in ParseSet \ unsettled : Brought(f)'
    BY <2>1 DEF Brought
  <2>5. \A f \in KernelSet \ unsettled : KernelBrought(f)'
    BY <2>1 DEF KernelBrought
  <2> QED
    BY <1>1, <2>2, <2>3, <2>4, <2>5 DEF SyncInv
<1>6. CASE /\ ~Unreadable /\ UNCHANGED store
           /\ call' =
                [step |-> "data", store |-> store, state |-> state,
                 changed |-> IF mode = "regenerate"
                             THEN {f \in ParseSet : source[f] # Missing}
                             ELSE Changed,
                 resigned |-> Resigned, kchanged |-> KernelChanged,
                 mode |-> mode,
                 revision |-> IF /\ state.revision = Base /\ mode = "delta"
                                 /\ Changed = {}
                              THEN Base ELSE state.revision + 1]
  <2>1. /\ call'.step = "data" /\ call'.store = store
        /\ call'.state = state /\ call'.resigned = Resigned
    BY <1>6
  <2>2. CallInv'
    BY <1>1, <1>6, <2>1 DEF CallInv
  <2>3. ~Settled'
    <3>1. Running'
      BY <2>1 DEF Running, Idle, Dead
    <3> QED
      BY <3>1 DEF Settled
  <2>4. \A f \in ParseSet \ unsettled : Shown(f)'
    BY <1>1, <1>3, <1>6, <2>3 DEF SyncInv, Shown
  <2>5. ASSUME NEW f \in ParseSet \ unsettled
        PROVE  Brought(f)'
    <3>1. f \in call'.changed \/ store.digests[f] = DigestOf(f)
      BY <1>6 DEF Changed, Unreadable
    <3>2. ASSUME SignatureOf(store.entities[f]) # SignatureOf(EvidenceOf(f))
          PROVE  f \in Resigned
      <4>1. store.entities[f] # EvidenceOf(f)
        BY <3>2
      <4>2. store.digests[f] # DigestOf(f)
        BY <1>1, <4>1, EvidenceRecorded DEF SyncInv, Shown
      <4> QED
        BY <3>2, <4>1, <4>2 DEF Resigned, Moved, Changed
    <3>3. (SignatureOf(store.entities[f]) # SignatureOf(EvidenceOf(f)))'
            => SignatureOf(store.entities[f]) # SignatureOf(EvidenceOf(f))
      BY <1>1, <1>3, <1>6 DEF SignatureOf
    <3> QED
      BY <1>1, <1>3, <1>6, <2>1, <3>1, <3>2, <3>3 DEF Brought
  <2>6. \A f \in KernelSet \ unsettled : KernelBrought(f)'
    BY <2>1 DEF KernelBrought
  <2>7. \A f \in ParseSet \ unsettled : Fresh(f)'
    BY <1>1, <1>6, FreshStays DEF SyncInv
  <2> QED
    BY <1>1, <2>2, <2>4, <2>5, <2>6, <2>7 DEF SyncInv
<1> QED
  BY <1>4, <1>5, <1>6 DEF BeginSync

(* What stays true of a step that neither edits nor records.               *)
LEMMA ShownStays ==
  ASSUME SyncInv, UNCHANGED <<source, store, unsettled>>, ~Settled',
         NEW f \in ParseSet \ unsettled,
         di'[f] \in {di[f], EvidenceOf(f)},
         sem'.di[f] \in {sem.di[f], EvidenceOf(f)}
  PROVE  Shown(f)'
<1>1. EvidenceOf(f)' = EvidenceOf(f)
  BY EvidenceStays DEF Files
<1> QED
  BY <1>1 DEF SyncInv, Shown

LEMMA StagingKeeps ==
  ASSUME SyncInv, StageData \/ StageKernel \/ StageSemantic, TypeInv'
  PROVE  SyncInv'
<1> USE DEF AfterData, AfterKernel, AfterSemantic, BeforeSave, DataSwapped,
            SemanticSwapped, KernelSwapped, Annotated
<1>1. PICK step \in {"kernel", "semantic", "swap data"} :
        /\ Go(step)
        /\ step = "kernel" => StageData
        /\ step = "semantic" => StageKernel
        /\ step = "swap data" => StageSemantic
  BY DEF StageData, StageKernel, StageSemantic
<1>2. /\ call.step \in {"data", "kernel", "semantic"}
      /\ UNCHANGED <<source, store, state, di, krn, sem, lvs, verified,
                    unsettled>>
  BY DEF StageData, StageKernel, StageSemantic, published
<1>3. /\ call'.step = step /\ call'.changed = call.changed
      /\ call'.store = call.store /\ call'.state = call.state
      /\ call'.resigned = call.resigned /\ DoData' = DoData /\ ~Settled'
  BY <1>1, <1>2, GoFacts DEF Steps
<1>4. \A f \in Files : EvidenceOf(f)' = EvidenceOf(f) /\ DigestOf(f)' = DigestOf(f)
  BY <1>2, EvidenceStays
<1>5. CallInv'
  BY <1>1, <1>2, <1>3 DEF SyncInv, CallInv, Steps
<1>6. \A f \in ParseSet \ unsettled : Shown(f)'
  BY <1>2, <1>3, ShownStays
<1>7. ASSUME NEW f \in ParseSet \ unsettled
      PROVE  Brought(f)'
  <2>1. f \in call'.changed \/ store'.digests[f] = DigestOf(f)'
    BY <1>2, <1>3, <1>4 DEF SyncInv, Brought, Files
  <2>2. ASSUME DoData
        PROVE  staging'.di[f] = EvidenceOf(f)
    <3>1. CASE StageData
      <4>1. staging'.di = [g \in ParseSet |->
              IF \/ g \in call.changed \/ call.changed = {}
                 \/ call.mode = "regenerate"
              THEN EvidenceOf(g) ELSE di[g]]
        BY <2>2, <3>1 DEF StageData
      <4>2. CASE f \in call.changed
        BY <4>1, <4>2
      <4>3. CASE f \notin call.changed
        BY <1>2, <4>1, <4>3, NotChanged
      <4> QED
        BY <4>2, <4>3
    <3>2. CASE StageKernel \/ StageSemantic
      <4>1. staging \in Staging \ {NoStaging} /\ staging.di[f] = EvidenceOf(f)
        BY <2>2, <3>2
        DEF StageKernel, StageSemantic, SyncInv, TypeInv, Staged, Brought
      <4>2. staging'.di = staging.di
        BY <3>2, <4>1, StagingFields DEF StageKernel, StageSemantic
      <4> QED
        BY <4>1, <4>2
    <3> QED
      BY <3>1, <3>2
  <2>3. SignatureOf(store.entities[f]) # SignatureOf(EvidenceOf(f)) =>
          f \in call.resigned
    BY <1>2 DEF SyncInv, Brought
  <2>4. /\ (SignatureOf(store.entities[f]))' = SignatureOf(store.entities[f])
        /\ (SignatureOf(EvidenceOf(f)))' = SignatureOf(EvidenceOf(f))
    <3>1. EvidenceOf(f)' = EvidenceOf(f) /\ store' = store
      BY <1>2, <1>4 DEF Files
    <3> HIDE DEF EvidenceOf
    <3> QED
      BY <3>1 DEF SignatureOf
  <2> QED
    BY <1>1, <1>3, <1>4, <2>1, <2>2, <2>3, <2>4 DEF Brought, Files
<1>8. ASSUME NEW f \in KernelSet \ unsettled, step # "kernel"
      PROVE  staging'.krn[f] = EvidenceOf(f)
  <2>1. staging \in Staging \ {NoStaging}
    BY <1>1, <1>8 DEF StageKernel, StageSemantic, SyncInv, TypeInv, Staged
  <2>2. CASE StageKernel
    <3>1. staging'.krn = [g \in KernelSet |-> EvidenceOf(g)]
      BY <2>1, <2>2, StagingFields DEF StageKernel
    <3> QED
      BY <3>1
  <2>3. CASE StageSemantic
    <3>1. staging'.krn = staging.krn
      BY <2>1, <2>3, StagingFields DEF StageSemantic
    <3> QED
      BY <2>3, <3>1 DEF StageSemantic, SyncInv, KernelBrought
  <2> QED
    BY <1>1, <1>8, <2>2, <2>3
<1>9. \A f \in KernelSet \ unsettled : KernelBrought(f)'
  BY <1>1, <1>3, <1>4, <1>8 DEF KernelBrought, Files
<1>10. \A f \in ParseSet \ unsettled : Fresh(f)'
  BY <1>2, FreshStays DEF SyncInv
<1> QED
  BY <1>2, <1>5, <1>6, <1>7, <1>9, <1>10 DEF SyncInv

LEMMA SwapKeeps ==
  ASSUME SyncInv, SwapData \/ SwapSemantic \/ SwapKernel \/ Annotate, TypeInv'
  PROVE  SyncInv'
<1> USE DEF AfterData, AfterKernel, AfterSemantic, BeforeSave, DataSwapped,
            SemanticSwapped, KernelSwapped, Annotated
<1>1. PICK step \in {"swap semantic", "swap kernel", "annotate", "save"} :
        /\ Go(step)
        /\ step = "swap semantic" => SwapData
        /\ step = "swap kernel" => SwapSemantic
        /\ step = "annotate" => SwapKernel
        /\ step = "save" => Annotate
  BY DEF SwapData, SwapSemantic, SwapKernel, Annotate
<1>2. /\ call.step \in {"swap data", "swap semantic", "swap kernel", "annotate"}
      /\ UNCHANGED <<source, store, state, verified, staging, unsettled>>
  BY DEF SwapData, SwapSemantic, SwapKernel, Annotate
<1>3. /\ call'.step = step /\ call'.changed = call.changed
      /\ call'.store = call.store /\ call'.resigned = call.resigned
      /\ call'.state = call.state
      /\ DoData' = DoData /\ ~Settled'
  BY <1>1, <1>2, GoFacts DEF Steps
<1>4. \A f \in Files : EvidenceOf(f)' = EvidenceOf(f) /\ DigestOf(f)' = DigestOf(f)
  BY <1>2, EvidenceStays
<1>5. CallInv'
  BY <1>1, <1>2, <1>3 DEF SyncInv, CallInv, Annotate, Steps
<1>6. ASSUME NEW f \in ParseSet \ unsettled
      PROVE  /\ di'[f] \in {di[f], EvidenceOf(f)}
             /\ sem'.di[f] \in {sem.di[f], EvidenceOf(f)}
             /\ step = "swap semantic" => di'[f] = EvidenceOf(f)
             /\ step # "swap semantic" => di' = di
             /\ step = "swap kernel" => sem'.di[f] = EvidenceOf(f)
             /\ step # "swap kernel" => sem' = sem
  <2>1. CASE SwapData
    <3>1. di'[f] = EvidenceOf(f)
      <4>1. CASE DoData
        <5>1. staging.di \in Projection(ParseSet)
              /\ staging.di[f] = EvidenceOf(f)
          BY <2>1, <4>1 DEF SwapData, SyncInv, TypeInv, Staged, Brought
        <5>2. staging.di # Never
          BY <5>1, NeverAssumption
        <5> QED
          BY <2>1, <5>1, <5>2 DEF SwapData
      <4>2. CASE ~DoData
        <5>1. staging.di = Never
          BY <2>1, <4>2 DEF SwapData, SyncInv, TypeInv, Staged
        <5> QED
          BY <1>2, <2>1, <4>2, <5>1, NothingToStage DEF SwapData
      <4> QED
        BY <4>1, <4>2
    <3>2. step # "swap kernel" /\ sem' = sem
      BY <1>1, <2>1 DEF SwapData, SwapSemantic
    <3>3. step = "swap semantic"
      BY <1>1, <2>1 DEF SwapData, SwapKernel, Annotate, SwapSemantic
    <3> QED
      BY <3>1, <3>2, <3>3
  <2>2. CASE SwapSemantic
    <3>1. sem'.di[f] = EvidenceOf(f)
      <4>1. CASE DoData
        <5>1. TypeInv /\ call.step \in AfterSemantic
          BY <2>2 DEF SwapSemantic, SyncInv
        <5>2. staging.sem \in Semantic /\ staging.sem.di = staging.di
          BY <4>1, <5>1, StagedSemantic
        <5>3. sem' = staging.sem
          BY <2>2, <5>2, NeverAssumption DEF SwapSemantic
        <5>4. sem'.di = staging.di
          BY <5>2, <5>3
        <5>5. staging.di[f] = EvidenceOf(f)
          BY <2>2, <4>1 DEF SwapSemantic, SyncInv, Brought
        <5> QED
          BY <5>4, <5>5
      <4>2. CASE ~DoData
        <5>1. staging.sem = Never
          BY <2>2, <4>2 DEF SwapSemantic, SyncInv, TypeInv, Staged
        <5> QED
          BY <1>2, <2>2, <4>2, <5>1, NothingToStage DEF SwapSemantic
      <4> QED
        BY <4>1, <4>2
    <3>2. di' = di /\ step = "swap kernel"
      BY <1>1, <2>2 DEF SwapData, SwapKernel, Annotate, SwapSemantic
    <3> QED
      BY <3>1, <3>2
  <2>3. CASE SwapKernel \/ Annotate
    BY <1>1, <2>3 DEF SwapData, SwapKernel, Annotate, SwapSemantic
  <2> QED
    BY <2>1, <2>2, <2>3
<1>7. \A f \in ParseSet \ unsettled : Shown(f)'
  BY <1>2, <1>3, <1>6, ShownStays
<1>8. ASSUME NEW f \in ParseSet \ unsettled
      PROVE  Brought(f)'
  <2>1. f \in call'.changed \/ store'.digests[f] = DigestOf(f)'
    BY <1>2, <1>3, <1>4 DEF SyncInv, Brought, Files
  <2>2. DoData => staging'.di[f] = EvidenceOf(f)
    BY <1>2 DEF SyncInv, Brought
  <2>3. di'[f] = EvidenceOf(f)
    <3>1. CASE step = "swap semantic"
      BY <1>6, <3>1
    <3>2. CASE step # "swap semantic"
      <4>1. call.step \in DataSwapped
        BY <1>1, <3>2 DEF SwapSemantic, SwapKernel, Annotate
      <4> QED
        BY <1>6, <3>2, <4>1 DEF SyncInv, Brought
    <3> QED
      BY <3>1, <3>2
  <2>4. step # "swap semantic" => sem'.di[f] = EvidenceOf(f)
    <3>1. CASE step = "swap kernel"
      BY <1>6, <3>1
    <3>2. CASE step \notin {"swap semantic", "swap kernel"}
      <4>1. call.step \in SemanticSwapped
        BY <1>1, <3>2 DEF SwapKernel, Annotate
      <4> QED
        BY <1>6, <3>2, <4>1 DEF SyncInv, Brought
    <3> QED
      BY <3>1, <3>2
  <2>5. SignatureOf(store.entities[f]) # SignatureOf(EvidenceOf(f)) =>
          f \in call.resigned
    BY <1>2 DEF SyncInv, Brought
  <2>6. /\ (SignatureOf(store.entities[f]))' = SignatureOf(store.entities[f])
        /\ (SignatureOf(EvidenceOf(f)))' = SignatureOf(EvidenceOf(f))
    <3>1. EvidenceOf(f)' = EvidenceOf(f) /\ store' = store
      BY <1>2, <1>4 DEF Files
    <3> HIDE DEF EvidenceOf
    <3> QED
      BY <3>1 DEF SignatureOf
  <2> QED
    BY <1>1, <1>3, <1>4, <2>1, <2>2, <2>3, <2>4, <2>5, <2>6 DEF Brought, Files
<1>9. ASSUME NEW f \in KernelSet \ unsettled
      PROVE  KernelBrought(f)'
  <2>1. staging.krn[f] = EvidenceOf(f)
    BY <1>2 DEF SyncInv, KernelBrought
  <2>2. step \in {"annotate", "save"} => krn'[f] = EvidenceOf(f)
    <3>1. CASE step = "annotate"
      BY <1>1, <2>1, <3>1 DEF SwapKernel
    <3>2. CASE step = "save"
      BY <1>1, <3>2 DEF Annotate, SyncInv, KernelBrought
    <3> QED
      BY <3>1, <3>2
  <2> QED
    BY <1>1, <1>2, <1>3, <1>4, <2>1, <2>2 DEF KernelBrought, Files
<1>10. lvs \subseteq lvs'
  BY DEF SwapData, SwapSemantic, SwapKernel, Annotate
<1>11. \A f \in ParseSet \ unsettled : Fresh(f)'
  BY <1>2, <1>10, FreshStays DEF SyncInv
<1> QED
  BY <1>2, <1>5, <1>7, <1>8, <1>9, <1>11 DEF SyncInv

LEMMA SaveStoreKeeps ==
  ASSUME SyncInv, SaveStore, TypeInv'
  PROVE  SyncInv'
<1> USE DEF AfterData, AfterKernel, AfterSemantic, BeforeSave, DataSwapped,
            SemanticSwapped, KernelSwapped, Annotated
<1>1. /\ call.step = "save" /\ Go("commit")
      /\ UNCHANGED <<source, state, di, krn, sem, lvs, verified, staging,
                    unsettled>>
  BY DEF SaveStore, published
<1>2. /\ call'.step = "commit" /\ call'.resigned = call.resigned
      /\ call'.state = call.state /\ DoData' = DoData /\ ~Settled'
  BY <1>1, GoFacts DEF Steps
<1>3. \A f \in Files : EvidenceOf(f)' = EvidenceOf(f)
  BY <1>1, EvidenceStays
<1>4. CallInv'
  BY <1>1, <1>2 DEF SyncInv, CallInv, Steps
<1>5. ASSUME NEW f \in ParseSet \ unsettled
      PROVE  /\ store'.digests[f] = DigestOf(f)
             /\ store'.entities[f] = EvidenceOf(f)
  <2>1. store' = Reindexed(store, call.changed, call.kchanged)
    BY <1>1 DEF SaveStore, SyncInv, CallInv
  <2>2. store'.digests[f] = DigestOf(f)
    BY <2>1 DEF Reindexed
  <2>3. store'.entities[f] = IF f \in call.changed \/ source[f] = Missing
                             THEN EvidenceOf(f) ELSE store.entities[f]
    BY <2>1 DEF Reindexed
  <2>4. f \notin call.changed => store.entities[f] = EvidenceOf(f)
    BY <1>1, NotChanged
  <2> QED
    BY <2>2, <2>3, <2>4
<1>6. ASSUME NEW f \in ParseSet \ unsettled
      PROVE  Shown(f)' /\ Brought(f)' /\ Fresh(f)'
  <2>1. /\ di'[f] = EvidenceOf(f) /\ sem'.di[f] = EvidenceOf(f)
        /\ DoData => staging'.di[f] = EvidenceOf(f)
    BY <1>1 DEF SyncInv, Brought
  <2>2. Recorded(DigestOf(f)) = EvidenceOf(f) /\ EvidenceOf(f)' = EvidenceOf(f)
    BY <1>3, EvidenceRecorded DEF SyncInv, TypeInv, SyncTypeOK, Files
  <2>3. Shown(f)'
    BY <1>2, <1>5, <2>1, <2>2 DEF Shown, Recorded
  <2>4. Brought(f)'
    BY <1>2, <1>5, <2>1, <2>2 DEF Brought
  <2>5. Fresh(f)'
    <3>1. CASE SignatureOf(store.entities[f]) = SignatureOf(EvidenceOf(f))
      <4>1. (SignatureOf(store.entities[f]))' = SignatureOf(store.entities[f])
        BY <1>5, <3>1 DEF SignatureOf
      <4> QED
        BY <1>1, <4>1 DEF SyncInv, Fresh
    <3>2. CASE SignatureOf(store.entities[f]) # SignatureOf(EvidenceOf(f))
      <4>1. f \in call.resigned
        BY <1>1, <3>2 DEF SyncInv, Brought
      <4>2. state.revision # Base => call.resigned \cap Bound \subseteq lvs
        BY <1>1 DEF SyncInv, CallInv
      <4> QED
        BY <1>1, <4>1, <4>2 DEF Fresh
    <3> QED
      BY <3>1, <3>2
  <2> QED
    BY <2>3, <2>4, <2>5
<1>7. \A f \in KernelSet \ unsettled : KernelBrought(f)'
  BY <1>1, <1>2, <1>3 DEF SyncInv, KernelBrought, Files
<1> QED
  BY <1>1, <1>4, <1>6, <1>7 DEF SyncInv

(* A call that ends or breaks off says nothing any more of its progress.   *)
LEMMA EndKeeps ==
  ASSUME SyncInv, Commit \/ RecordFailure \/ Raise \/ Die, TypeInv'
  PROVE  SyncInv'
<1>1. UNCHANGED <<source, store, di, krn, sem, lvs, unsettled>>
  BY DEF Commit, RecordFailure, Raise, Die, published
<1>2. call'.step \in {"idle", "dead", "raised"}
  <2>1. Idle.step = "idle" /\ Dead.step = "dead"
    BY DEF Idle, Dead
  <2>2. CASE Raise
    <3>1. SyncTypeOK /\ Running /\ Go("raised") /\ "raised" \in Steps
      BY <2>2 DEF SyncInv, TypeInv, Raise, InTry, Steps
    <3> QED
      BY <3>1, GoType
  <2> QED
    BY <2>1, <2>2 DEF Commit, RecordFailure, Die
<1>3. CallInv'
  <2>1. CASE ~Raise
    <3>1. call' \in {Idle, Dead}
      BY <2>1 DEF Commit, RecordFailure, Die
    <3>2. call'.step \in {"idle", "dead"}
      BY <3>1 DEF Idle, Dead
    <3> QED
      BY <3>2 DEF CallInv, BeforeSave, Annotated, KernelSwapped,
         SemanticSwapped, DataSwapped, Steps
  <2>2. CASE Raise
    <3>1. Running /\ call.step \in Steps /\ Go("raised") /\ "raised" \in Steps
      BY <2>2, RunningCall DEF SyncInv, TypeInv, Raise, InTry, Steps
    <3>2. call'.state = call.state /\ call.state = state /\ state' = state
      BY <2>2, <3>1, GoFacts DEF SyncInv, CallInv, Raise
    <3> QED
      BY <1>2, <3>2 DEF CallInv, BeforeSave, Annotated, KernelSwapped,
         SemanticSwapped, DataSwapped
  <2> QED
    BY <2>1, <2>2
<1>4. \A f \in ParseSet \ unsettled : Brought(f)'
  BY <1>2 DEF Brought, BeforeSave, SemanticSwapped, DataSwapped, AfterData
<1>5. \A f \in KernelSet \ unsettled : KernelBrought(f)'
  BY <1>2 DEF KernelBrought, AfterKernel, AfterData, KernelSwapped,
     SemanticSwapped, DataSwapped
<1>6. ASSUME NEW f \in ParseSet \ unsettled
      PROVE  Shown(f)'
  <2>1. CASE Commit
    <3>1. /\ di[f] = EvidenceOf(f) /\ sem.di[f] = EvidenceOf(f)
          /\ store.entities[f] = EvidenceOf(f)
      BY <2>1 DEF Commit, SyncInv, Brought, DataSwapped, SemanticSwapped
    <3>2. EvidenceOf(f)' = EvidenceOf(f)
      BY <1>1, EvidenceStays DEF Files
    <3> QED
      BY <1>1, <3>1, <3>2 DEF SyncInv, Shown
  <2>2. CASE ~Commit
    <3>1. ~Settled'
      <4>1. CASE RecordFailure
        <5>1. Running
          BY <4>1 DEF RecordFailure
        <5>2. call.state \in State
          BY <5>1, RunningCall DEF SyncInv, TypeInv
        <5>3. state'.failed = TRUE
          BY <4>1, <5>2 DEF RecordFailure, State
        <5> QED
          BY <5>3 DEF Settled
      <4>2. CASE Raise
        <5>1. SyncTypeOK /\ Running /\ Go("raised") /\ "raised" \in Steps
          BY <4>2 DEF SyncInv, TypeInv, Raise, InTry, Steps
        <5> QED
          BY <5>1, GoType DEF Settled
      <4>3. CASE Die
        BY <4>3 DEF Die, Settled
      <4> QED
        BY <2>2, <4>1, <4>2, <4>3
    <3> QED
      BY <1>1, <3>1, ShownStays
  <2> QED
    BY <2>1, <2>2
<1>7. ASSUME NEW f \in ParseSet \ unsettled
      PROVE  Fresh(f)'
  <2>1. CASE Raise \/ Die
    BY <1>1, <2>1, FreshStays DEF SyncInv, Raise, Die
  <2>2. CASE RecordFailure
    <3>1. Running /\ call.step \in Steps
      BY <2>2 DEF RecordFailure, Steps
    <3>2. call.state = state /\ call.state \in State
      BY <3>1, RunningCall DEF SyncInv, TypeInv, CallInv
    <3>3. state'.revision = state.revision
      BY <2>2, <3>2 DEF RecordFailure, State
    <3> QED
      BY <1>1, <2>2, <3>3 DEF RecordFailure, SyncInv, Fresh, SignatureOf
  <2>3. CASE Commit
    <3>1. call.step \in Steps /\ call.state = state
      BY <2>3 DEF Commit, Steps, SyncInv, CallInv
    <3>2. CASE state.revision = Base
      <4>1. verified'[f] = SignatureOf(store.entities[f])
        BY <2>3, <3>1, <3>2 DEF Commit, Signatures
      <4>2. (SignatureOf(store.entities[f]))' = SignatureOf(store.entities[f])
        BY <1>1 DEF SignatureOf
      <4> QED
        BY <4>1, <4>2 DEF Fresh
    <3>3. CASE state.revision # Base
      BY <1>1, <2>3, <3>1, <3>3 DEF Commit, SyncInv, Fresh, SignatureOf
    <3> QED
      BY <3>2, <3>3
  <2> QED
    BY <2>1, <2>2, <2>3
<1> QED
  BY <1>1, <1>3, <1>4, <1>5, <1>6, <1>7 DEF SyncInv

LEMMA EditKeeps ==
  ASSUME SyncInv, NEW g \in Files, Edit(g), TypeInv'
  PROVE  SyncInv'
<1> USE DEF AfterData, AfterKernel, AfterSemantic, BeforeSave, DataSwapped,
            SemanticSwapped, KernelSwapped, Annotated
<1>1. UNCHANGED <<store, state, di, krn, sem, lvs, verified, staging, call>>
  BY DEF Edit, published
<1>2. source \in [Files -> Contents \cup {Missing}]
  BY DEF SyncInv, TypeInv, SyncTypeOK
<1>3. \A f \in Files \ {g} : /\ EvidenceOf(f)' = EvidenceOf(f)
                             /\ DigestOf(f)' = DigestOf(f)
  BY <1>2 DEF Edit, EvidenceOf, DigestOf
<1>4. UNCHANGED <<Settled, DoData>>
  BY <1>1 DEF Settled, Running, DoData
<1>5. CallInv'
  BY <1>1 DEF SyncInv, CallInv
<1>6. CASE Settled
  <2>1. unsettled' = unsettled /\ call.step \notin Steps
    BY <1>6, StepRunning DEF Edit, Settled
  <2>2. \A f \in ParseSet \ unsettled : Brought(f)'
    BY <1>1, <2>1 DEF Brought, Steps
  <2>3. \A f \in KernelSet \ unsettled : KernelBrought(f)'
    BY <1>1, <2>1 DEF KernelBrought, Steps
  <2>4. \A f \in ParseSet \ unsettled : Shown(f)'
    BY <1>1, <1>4, <1>6 DEF SyncInv, Shown, Recorded
  <2>5. \A f \in ParseSet \ unsettled : Fresh(f)'
    BY <1>1, FreshStays DEF SyncInv
  <2> QED
    BY <1>5, <2>1, <2>2, <2>3, <2>4, <2>5 DEF SyncInv
<1>7. CASE ~Settled
  <2>1. unsettled' = unsettled \cup {g}
    BY <1>7 DEF Edit
  <2>2. \A f \in ParseSet \ unsettled' : Brought(f)'
    BY <1>1, <1>3, <1>4, <2>1 DEF SyncInv, Brought, Files, SignatureOf
  <2>3. \A f \in KernelSet \ unsettled' : KernelBrought(f)'
    BY <1>1, <1>3, <2>1 DEF SyncInv, KernelBrought, Files
  <2>4. \A f \in ParseSet \ unsettled' : Shown(f)'
    BY <1>1, <1>3, <1>4, <2>1 DEF SyncInv, Shown, Recorded, Files
  <2>5. \A f \in ParseSet \ unsettled : Fresh(f)'
    BY <1>1, FreshStays DEF SyncInv
  <2> QED
    BY <1>5, <2>1, <2>2, <2>3, <2>4, <2>5 DEF SyncInv
<1> QED
  BY <1>6, <1>7

LEMMA SyncInvInit == Init => SyncInv
<1> SUFFICES ASSUME Init PROVE SyncInv
  OBVIOUS
<1>1. TypeInv /\ call.step = "idle"
  BY TypeInit DEF Init, Idle
<1>2. CallInv
  BY <1>1 DEF CallInv, BeforeSave, Annotated, KernelSwapped, SemanticSwapped,
     DataSwapped, Steps
<1>3. \A f \in ParseSet : Brought(f)
  BY <1>1 DEF Brought, BeforeSave, SemanticSwapped, DataSwapped, AfterData
<1>4. \A f \in KernelSet : KernelBrought(f)
  BY <1>1 DEF KernelBrought, AfterKernel, AfterData, KernelSwapped,
     SemanticSwapped, DataSwapped
<1>5. ASSUME NEW f \in ParseSet
      PROVE  Shown(f)
  <2>1. /\ source \in [Files -> Contents \cup {Missing}] /\ f \in Files
        /\ source[f] \in Contents
    BY SyncAssumption DEF Init, Files
  <2>2. DigestOf(f) = source[f] /\ Recorded(DigestOf(f)) = EvidenceOf(f)
    BY <2>1, EvidenceRecorded, SyncAssumption DEF DigestOf
  <2>3. CASE state.revision = 1
    <3>1. /\ store.digests[f] = source[f] /\ store.entities[f] = EvidenceOf(f)
          /\ di[f] = EvidenceOf(f) /\ sem.di[f] = EvidenceOf(f)
      BY <2>3 DEF Init, Base
    <3> QED
      BY <2>2, <3>1 DEF Shown
  <2>4. CASE state.revision = Base
    <3>1. /\ store.digests[f] = Never /\ store.entities[f] = Never
          /\ di[f] = Never /\ sem.di[f] = Never /\ ~Settled
      BY <2>4 DEF Init, Base, Settled
    <3> QED
      BY <3>1 DEF Shown, Recorded
  <2> QED
    BY <2>3, <2>4 DEF Init
<1>6. \A f \in ParseSet : Fresh(f)
  BY DEF Init, Fresh, Signatures
<1> QED
  BY <1>1, <1>2, <1>3, <1>4, <1>5, <1>6 DEF SyncInv

LEMMA SyncInvStep == SyncInv /\ [Next]_vars => SyncInv'
<1> SUFFICES ASSUME SyncInv, [Next]_vars PROVE SyncInv'
  OBVIOUS
<1>1. TypeInv'
  BY TypeStep DEF SyncInv
<1>2. CASE UNCHANGED vars
  <2>1. UNCHANGED <<source, store, state, di, krn, sem, lvs, verified, staging,
                    call, unsettled>>
    BY <1>2 DEF vars, published
  <2>2. UNCHANGED CallInv
    BY <2>1 DEF CallInv
  <2>3. \A f \in ParseSet : UNCHANGED <<Shown(f), Brought(f), Fresh(f)>>
    BY <2>1 DEF Shown, Brought, Fresh, Settled, Running, DoData, EvidenceOf,
       DigestOf, SignatureOf
  <2>4. \A f \in KernelSet : UNCHANGED KernelBrought(f)
    BY <2>1 DEF KernelBrought, EvidenceOf
  <2> QED
    BY <1>1, <2>1, <2>2, <2>3, <2>4 DEF SyncInv
<1> QED
  BY <1>1, <1>2, BeginSyncKeeps, StagingKeeps, SwapKeeps, SaveStoreKeeps,
     EndKeeps, EditKeeps DEF Next, CallStep

LEMMA SyncInvariant == Spec => []SyncInv
  BY SyncInvInit, SyncInvStep, PTL DEF Spec

(* Whatever fails, raises or dies: a file that was not edited during an    *)
(* unfinished call and whose digest the store has acknowledged is in the   *)
(* published data interfaces as it is (sync/__init__.py).                  *)
THEOREM AcknowledgedFilesAreProjected == Spec => []AcknowledgedIsProjected
<1>1. ASSUME SyncInv, NEW f \in ParseSet \ unsettled,
             source[f] = store.digests[f]
      PROVE  di[f] = EvidenceOf(f)
  <2>1. /\ source \in [Files -> Contents \cup {Missing}] /\ f \in Files
        /\ store \in Store
    BY <1>1 DEF SyncInv, TypeInv, SyncTypeOK, Files
  <2>2. source[f] # Missing
    BY <1>1, <2>1, SyncAssumption DEF Store, Projection, Known
  <2>3. Recorded(store.digests[f]) = EvidenceOf(f)
    BY <1>1, <2>1, <2>2, EvidenceRecorded DEF DigestOf
  <2> QED
    BY <1>1, <2>3 DEF SyncInv, Shown
<1>2. SyncInv => AcknowledgedIsProjected
  BY <1>1 DEF AcknowledgedIsProjected
<1> QED
  BY <1>2, SyncInvariant, PTL

(* A revision is committed with data interfaces, semantics and kernel of   *)
(* the source, and with every verdict of the design either marked stale or *)
(* made for the signatures of the source, for any files and any number of  *)
(* failures before (sync/__init__.py).                                     *)
THEOREM CommittedRevisionIsComplete == Spec => CommitIsComplete
<1>1. ASSUME SyncInv, Commit, NEW f \in Files \ unsettled
      PROVE  /\ f \in ParseSet =>
                  di'[f] = EvidenceOf(f) /\ sem'.di[f] = di'[f]
             /\ f \in KernelSet => krn'[f] = EvidenceOf(f)
             /\ f \in Bound =>
                  f \in lvs' \/ verified'[f] = SignatureOf(EvidenceOf(f))
  <2>1. call.step = "commit" /\ UNCHANGED <<di, krn, sem, lvs, store>>
    BY <1>1 DEF Commit, published
  <2>2. f \in ParseSet =>
          /\ di[f] = EvidenceOf(f) /\ sem.di[f] = EvidenceOf(f)
          /\ store.entities[f] = EvidenceOf(f)
    BY <1>1, <2>1 DEF SyncInv, Brought, DataSwapped, SemanticSwapped
  <2>3. f \in KernelSet => krn[f] = EvidenceOf(f)
    BY <1>1, <2>1
    DEF SyncInv, KernelBrought, KernelSwapped, SemanticSwapped, DataSwapped
  <2>4. ASSUME f \in Bound, f \notin lvs
        PROVE  verified'[f] = SignatureOf(store.entities[f])
    <3>1. f \in ParseSet /\ call.state = state
      BY <1>1, <2>1, <2>4, SyncAssumption DEF SyncInv, CallInv, Steps
    <3>2. CASE state.revision = Base
      BY <1>1, <3>1, <3>2 DEF Commit, Signatures
    <3>3. CASE state.revision # Base
      BY <1>1, <2>4, <3>1, <3>3 DEF Commit, SyncInv, Fresh
    <3> QED
      BY <3>2, <3>3
  <2> QED
    BY <2>1, <2>2, <2>3, <2>4, SyncAssumption
<1>2. SyncInv /\ [Next]_vars =>
        [Commit =>
           \A f \in Files \ unsettled :
             /\ f \in ParseSet => di'[f] = EvidenceOf(f) /\ sem'.di[f] = di'[f]
             /\ f \in KernelSet => krn'[f] = EvidenceOf(f)
             /\ f \in Bound =>
                  f \in lvs' \/ verified'[f] = SignatureOf(EvidenceOf(f))]_vars
  BY <1>1
<1> QED
  BY <1>2, SyncInvariant, PTL DEF Spec, CommitIsComplete
=============================================================================
