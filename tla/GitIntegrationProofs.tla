------------------------ MODULE GitIntegrationProofs ------------------------
(***************************************************************************)
(* Proofs about GitIntegration, for every number of workspaces,            *)
(* integrations, edits, MCP calls and revisions.                           *)
(***************************************************************************)
EXTENDS GitIntegration, TLAPS

-----------------------------------------------------------------------------
(* Types                                                                   *)

(* Replacing one row of a registry gives a registry. *)
LEMMA WorkspaceRowUpdate ==
  ASSUME NEW r \in Registry, NEW w \in Workspaces, NEW row \in WorkspaceRow
  PROVE  [r EXCEPT !.ws[w] = row] \in Registry
BY DEF Registry

(* The same for the row of an integration. *)
LEMMA IntegrationRowUpdate ==
  ASSUME NEW r \in Registry, NEW i \in Integrations, NEW row \in IntegrationRow
  PROVE  [r EXCEPT !.ints[i] = row] \in Registry
BY DEF Registry

(* So does changing one field of a row. *)
LEMMA WorkspaceFieldUpdate ==
  ASSUME NEW r \in Registry, NEW w \in Workspaces
  PROVE  /\ r.ws[w] \in WorkspaceRow
         /\ \A s \in {"ABSENT", "LIVE", "MISSING", "RETIRED"} :
              [r EXCEPT !.ws[w].status = s] \in Registry
         /\ \A c \in Commit, b \in BOOLEAN :
              [r EXCEPT !.ws[w].submitted = c, !.ws[w].inScope = b] \in Registry
<1>1. r.ws[w] \in WorkspaceRow
  BY DEF Registry
<1>2. ASSUME NEW s \in {"ABSENT", "LIVE", "MISSING", "RETIRED"}
      PROVE  [r EXCEPT !.ws[w].status = s] \in Registry
  <2>1. [r.ws[w] EXCEPT !.status = s] \in WorkspaceRow
    BY <1>1 DEF WorkspaceRow
  <2>2. [r EXCEPT !.ws[w].status = s]
          = [r EXCEPT !.ws[w] = [r.ws[w] EXCEPT !.status = s]]
    BY DEF Registry
  <2> QED BY <2>1, <2>2, WorkspaceRowUpdate
<1>3. ASSUME NEW c \in Commit, NEW b \in BOOLEAN
      PROVE  [r EXCEPT !.ws[w].submitted = c, !.ws[w].inScope = b] \in Registry
  <2> DEFINE row == [r.ws[w] EXCEPT !.submitted = c, !.inScope = b]
  <2>1. row \in WorkspaceRow
    BY <1>1 DEF WorkspaceRow
  <2>2. [r EXCEPT !.ws[w].submitted = c, !.ws[w].inScope = b]
          = [r EXCEPT !.ws[w] = row]
    BY DEF Registry
  <2> HIDE DEF row
  <2> QED BY <2>1, <2>2, WorkspaceRowUpdate
<1> QED BY <1>1, <1>2, <1>3

(* The same for the fields of an integration. *)
LEMMA IntegrationFieldUpdate ==
  ASSUME NEW r \in Registry, NEW i \in Integrations
  PROVE  /\ r.ints[i] \in IntegrationRow
         /\ \A b \in BOOLEAN : [r EXCEPT !.ints[i].eligible = b] \in Registry
         /\ \A p \in Publication :
              [r EXCEPT !.ints[i].publication = p] \in Registry
         /\ \A c \in Commit : [r EXCEPT !.ints[i].merged = c,
                                        !.ints[i].publication = "PENDING"]
                                \in Registry
         /\ [r EXCEPT !.ints[i].status = "RETIRED"] \in Registry
<1>1. r.ints[i] \in IntegrationRow
  BY DEF Registry
<1>2. ASSUME NEW b \in BOOLEAN
      PROVE  [r EXCEPT !.ints[i].eligible = b] \in Registry
  <2>1. [r.ints[i] EXCEPT !.eligible = b] \in IntegrationRow
    BY <1>1 DEF IntegrationRow
  <2>2. [r EXCEPT !.ints[i].eligible = b]
          = [r EXCEPT !.ints[i] = [r.ints[i] EXCEPT !.eligible = b]]
    BY DEF Registry
  <2> QED BY <2>1, <2>2, IntegrationRowUpdate
<1>3. ASSUME NEW p \in Publication
      PROVE  [r EXCEPT !.ints[i].publication = p] \in Registry
  <2>1. [r.ints[i] EXCEPT !.publication = p] \in IntegrationRow
    BY <1>1 DEF IntegrationRow
  <2>2. [r EXCEPT !.ints[i].publication = p]
          = [r EXCEPT !.ints[i] = [r.ints[i] EXCEPT !.publication = p]]
    BY DEF Registry
  <2> QED BY <2>1, <2>2, IntegrationRowUpdate
<1>4. ASSUME NEW c \in Commit
      PROVE  [r EXCEPT !.ints[i].merged = c, !.ints[i].publication = "PENDING"]
               \in Registry
  <2> DEFINE row == [r.ints[i] EXCEPT !.merged = c, !.publication = "PENDING"]
  <2>1. row \in IntegrationRow
    BY <1>1 DEF IntegrationRow, Publication
  <2>2. [r EXCEPT !.ints[i].merged = c, !.ints[i].publication = "PENDING"]
          = [r EXCEPT !.ints[i] = row]
    BY DEF Registry
  <2> HIDE DEF row
  <2> QED BY <2>1, <2>2, IntegrationRowUpdate
<1>5. [r EXCEPT !.ints[i].status = "RETIRED"] \in Registry
  <2>1. [r.ints[i] EXCEPT !.status = "RETIRED"] \in IntegrationRow
    BY <1>1 DEF IntegrationRow
  <2>2. [r EXCEPT !.ints[i].status = "RETIRED"]
          = [r EXCEPT !.ints[i] = [r.ints[i] EXCEPT !.status = "RETIRED"]]
    BY DEF Registry
  <2> QED BY <2>1, <2>2, IntegrationRowUpdate
<1> QED BY <1>1, <1>2, <1>3, <1>4, <1>5

(* What the operation that holds the lock carries. *)
LEMMA OperationFields ==
  ASSUME op \in Operation
  PROVE  /\ op.kind = "allocate" => /\ op.what \in Managed
                                    /\ op.what \in Workspaces => op.row \in WorkspaceRow
                                    /\ op.what \in Integrations => op.row \in IntegrationRow
         /\ op.kind \in {"audit", "tested", "observe"} =>
              /\ op \in [kind : {"audit", "tested", "observe"},
                         int : Integrations, before : Counts]
              /\ op.int \in Integrations /\ op.before \in Counts
         /\ op.kind = "merge" =>
              /\ op \in [kind : {"merge"}, int : Integrations, moved : BOOLEAN]
              /\ op.int \in Integrations
         /\ op.kind = "observed" => /\ op.int \in Integrations
                                    /\ op.before \in Counts /\ op.result \in Counts
         /\ op.kind = "retire" => op.what \in Managed
BY GitAssumption DEF Operation, Free, Managed

(* What the actions put there is an operation. *)
LEMMA NewOperations ==
  /\ Free \in Operation
  /\ \A w \in Workspaces, row \in WorkspaceRow :
       [kind |-> "allocate", what |-> w, row |-> row] \in Operation
  /\ \A i \in Integrations, row \in IntegrationRow :
       [kind |-> "allocate", what |-> i, row |-> row] \in Operation
  /\ \A k \in {"audit", "tested", "observe"}, i \in Integrations, n \in Counts :
       [kind |-> k, int |-> i, before |-> n] \in Operation
  /\ \A i \in Integrations, b \in BOOLEAN :
       [kind |-> "merge", int |-> i, moved |-> b] \in Operation
  /\ \A i \in Integrations, m, n \in Counts :
       [kind |-> "observed", int |-> i, before |-> m, result |-> n] \in Operation
  /\ \A x \in Managed : [kind |-> "retire", what |-> x] \in Operation
BY DEF Operation, Managed

(* Noticing a missing worktree gives a registry. *)
LEMMA RefreshType ==
  ASSUME NEW r \in Registry, NEW w \in Workspaces
  PROVE  Refresh(r, w) \in Registry
<1> DEFINE status == IF OnDisk(w) THEN r.ws[w].status ELSE "MISSING"
<1>1. status \in {"ABSENT", "LIVE", "MISSING", "RETIRED"}
  BY WorkspaceFieldUpdate DEF WorkspaceRow
<1>2. Refresh(r, w) = [r EXCEPT !.ws[w].status = status]
  BY DEF Refresh, Registry
<1> HIDE DEF status
<1>3. [r EXCEPT !.ws[w].status = status] \in Registry
  BY <1>1, WorkspaceFieldUpdate
<1> QED BY <1>2, <1>3

(* The types hold initially. *)
LEMMA InitTyped == GitInit => GitTypeOK
<1> SUFFICES ASSUME GitInit PROVE GitTypeOK
  OBVIOUS
<1>1. Root \in Commit
  BY DEF Root, Commit
<1>2. EmptyRegistry \in Registry
  BY <1>1, GitAssumption DEF EmptyRegistry, Registry, WorkspaceRow,
     IntegrationRow, Publication
<1>3. published \in Seq(Revision) /\ Len(published) \in Counts
  BY <1>1, GitAssumption DEF GitInit, Revision, Counts
<1> QED BY <1>1, <1>2, <1>3, NewOperations
         DEF GitInit, GitTypeOK, Call, NotLoaded

-----------------------------------------------------------------------------
(* Every step keeps the types.                                             *)

(* Adding a worktree keeps the types. *)
LEMMA AllocateTyped ==
  ASSUME GitTypeOK, NEW what \in Managed, NEW row, Allocate(what, row),
         \/ what \in Workspaces /\ row \in WorkspaceRow
         \/ what \in Integrations /\ row \in IntegrationRow
  PROVE  /\ target' \in Commit
         /\ trees' \in [Managed -> {"NEVER", "PRESENT", "REMOVED"}]
         /\ memory' \in Registry /\ file' \in Registry
         /\ calls' \in [Calls -> Call]
         /\ op' \in Operation
         /\ published' \in Seq(Revision) /\ Len(published') \in Counts
BY NewOperations DEF Allocate, GitTypeOK

(* The steps on a workspace do. *)
LEMMA WorkspaceTyped ==
  ASSUME GitTypeOK, NEW w \in Workspaces, WorkspaceStep(w)
  PROVE  GitTypeOK'
<1> USE DEF GitTypeOK
<1>1. ASSUME NEW agent \in Agents, NEW task \in Tasks,
             CreateAgentWorktree(w, agent, task)
      PROVE  GitTypeOK'
  <2>1. branch' \in [Workspaces -> Commit] /\ head' \in [Integrations -> Commit]
    BY <1>1 DEF CreateAgentWorktree
  <2>2. [status |-> "LIVE", agent |-> agent, task |-> task, base |-> target,
         submitted |-> target, inScope |-> FALSE] \in WorkspaceRow
    BY DEF WorkspaceRow
  <2> QED BY <1>1, <2>1, <2>2, AllocateTyped DEF CreateAgentWorktree, Managed
<1>2. CASE AgentCommit(w)
  <2>1. PICK e \in EditsOf(w) : branch' = [branch EXCEPT ![w] = @ \cup {e}]
    BY <1>2 DEF AgentCommit
  <2>2. branch[w] \cup {e} \in Commit
    BY DEF Commit, Marks, EditsOf
  <2> QED BY <1>2, <2>1, <2>2 DEF AgentCommit
<1>3. CASE SubmitCommittedResult(w)
  <2>1. [memory EXCEPT !.ws[w].submitted = branch[w],
                       !.ws[w].inScope = (Violations(w, branch[w]) = {})]
          \in Registry
    BY WorkspaceFieldUpdate
  <2> QED BY <1>3, <2>1 DEF SubmitCommittedResult, Save, git
<1>4. CASE Inspect(w)
  BY <1>4, RefreshType DEF Inspect, Save, git
<1>5. CASE RetireWorktree(w)
  BY <1>5, NewOperations DEF RetireWorktree, Remove, Managed
<1> QED BY <1>1, <1>2, <1>3, <1>4, <1>5 DEF WorkspaceStep

(* The steps on an integration do. *)
LEMMA IntegrationTyped ==
  ASSUME GitTypeOK, NEW i \in Integrations, IntegrationStep(i)
  PROVE  GitTypeOK'
<1> USE DEF GitTypeOK
<1>0. Current \in Counts
  BY DEF Current
<1>1. ASSUME NEW candidates \in SUBSET Workspaces,
             CreateIntegration(i, candidates)
      PROVE  GitTypeOK'
  <2> DEFINE commit == [w \in Workspaces |-> memory.ws[w].submitted]
             merge(members) == UNION {commit[w] : w \in members}
             new(members) == IF merge(members) \subseteq target THEN target
                             ELSE target \cup merge(members) \cup {i}
             row(members) ==
               [status |-> "OPEN", target |-> target, head |-> new(members),
                clean |-> members = candidates, eligible |-> FALSE,
                merged |-> Root, publication |-> "NOT_PUBLISHED"]
  <2>1. PICK members \in SUBSET candidates :
          /\ head' = [head EXCEPT ![i] = new(members)]
          /\ Allocate(i, row(members))
    BY <1>1 DEF CreateIntegration, IntegrateCommits
  <2>2. \A w \in members : commit[w] \in Commit
    BY WorkspaceFieldUpdate DEF WorkspaceRow
  <2>3. new(members) \in Commit
    <3>1. merge(members) \in Commit
      BY <2>2 DEF Commit
    <3>2. i \in Marks
      BY DEF Marks
    <3> HIDE DEF merge
    <3> QED BY <3>1, <3>2 DEF Commit
  <2>4. row(members) \in IntegrationRow
    BY <2>3 DEF IntegrationRow, Commit, Root, Publication
  <2>5. head' \in [Integrations -> Commit]
    BY <2>1, <2>3
  <2>6. branch' = branch
    BY <1>1 DEF CreateIntegration, IntegrateCommits
  <2> HIDE DEF row, new
  <2> QED BY <2>1, <2>4, <2>5, <2>6, AllocateTyped DEF Managed
<1>2. CASE BeginAudit(i)
  <2>1. [memory EXCEPT !.ints[i].eligible = FALSE] \in Registry
    BY IntegrationFieldUpdate
  <2> QED BY <1>0, <1>2, <2>1, NewOperations DEF BeginAudit, git
<1>3. CASE ProjectMerge(i)
  BY <1>3, IntegrationFieldUpdate DEF ProjectMerge, Save, git
<1>4. CASE BeginMerge(i)
  <2>1. [memory EXCEPT !.ints[i].eligible = FALSE] \in Registry
    BY IntegrationFieldUpdate
  <2> QED BY <1>4, <2>1, NewOperations DEF BeginMerge, Save, git
<1>5. CASE FastForward(i)
  <2>1. \E commit \in Commit : Moved(i, commit)
    BY <1>5 DEF FastForward
  <2>2. [op EXCEPT !.moved = TRUE] \in Operation
    <3>1. op \in [kind : {"merge"}, int : Integrations, moved : BOOLEAN]
      BY <2>1, OperationFields DEF Moved
    <3> QED BY <3>1 DEF Operation
  <2> QED BY <2>1, <2>2 DEF Moved
<1>6. CASE BeginObserve(i)
  BY <1>0, <1>6, NewOperations DEF BeginObserve, git
<1>7. CASE RetireIntegration(i)
  BY <1>7, NewOperations DEF RetireIntegration, Remove, Managed
<1> QED BY <1>1, <1>2, <1>3, <1>4, <1>5, <1>6, <1>7 DEF IntegrationStep

(* Publishing one more revision keeps within the bound. *)
LEMMA AppendTyped ==
  ASSUME published \in Seq(Revision), Current < MaxPublished,
         NEW revision \in Revision
  PROVE  /\ Append(published, revision) \in Seq(Revision)
         /\ Len(Append(published, revision)) \in Counts
         /\ Current + 1 \in Counts
BY GitAssumption DEF Current, Counts

(* The later steps of an operation do. *)
LEMMA OperationTyped ==
  ASSUME GitTypeOK, OperationStep
  PROVE  GitTypeOK'
<1> USE DEF GitTypeOK
<1>0. Current \in Counts
  BY DEF Current
<1>1. CASE RecordWorkspace
  BY <1>1, OperationFields, NewOperations, WorkspaceRowUpdate
     DEF RecordWorkspace, Save, git
<1>2. CASE RecordIntegration
  BY <1>2, OperationFields, NewOperations, IntegrationRowUpdate
     DEF RecordIntegration, Save, git
<1>3. CASE TestCandidate
  <2>1. [op EXCEPT !.kind = "tested"] \in Operation
    <3>1. op \in [kind : {"audit", "tested", "observe"},
                  int : Integrations, before : Counts]
      BY <1>3, OperationFields DEF TestCandidate
    <3> QED BY <3>1 DEF Operation
  <2> QED BY <1>3, <2>1 DEF TestCandidate, git
<1>4. CASE EndAudit
  <2>1. op.int \in Integrations
    BY <1>4, OperationFields DEF EndAudit
  <2>2. PICK eligible \in BOOLEAN :
          Save([memory EXCEPT !.ints[op.int].eligible = eligible])
    BY <1>4 DEF EndAudit
  <2>3. memory' \in Registry /\ file' = memory'
    BY <2>1, <2>2, IntegrationFieldUpdate DEF Save
  <2> QED BY <1>4, <2>3, NewOperations DEF EndAudit, git
<1>5. CASE RecordMerge
  BY <1>5, OperationFields, NewOperations, IntegrationFieldUpdate
     DEF RecordMerge, Save, git
<1>6. CASE IndexMerged
  <2>1. op.int \in Integrations /\ op.before \in Counts
    BY <1>6, OperationFields DEF IndexMerged
  <2> DEFINE revision == [label |-> memory.ints[op.int].merged,
                          content |-> target]
  <2>2. revision \in Revision
    BY <2>1, IntegrationFieldUpdate DEF Revision, IntegrationRow
  <2>3. CASE /\ Current < MaxPublished
             /\ published' = Append(published, revision)
             /\ Indexed(Current + 1)
    <3>1. /\ published' \in Seq(Revision) /\ Len(published') \in Counts
          /\ Current + 1 \in Counts
      BY <2>2, <2>3, AppendTyped
    <3>2. op' \in Operation
      BY <2>1, <2>3, <3>1, NewOperations DEF Indexed
    <3> QED BY <1>6, <3>1, <3>2 DEF IndexMerged, git
  <2>4. CASE Indexed(Current) /\ UNCHANGED published
    BY <1>0, <1>6, <2>1, <2>4, NewOperations DEF IndexMerged, Indexed, git
  <2> QED BY <1>6, <2>3, <2>4 DEF IndexMerged
<1>7. CASE IndexMergedFails
  <2>1. op' \in Operation
    BY <1>7, OperationFields, NewOperations, GitAssumption
       DEF IndexMergedFails, Indexed, Counts
  <2> QED BY <1>7, <2>1 DEF IndexMergedFails, git
<1>8. CASE EndObserve
  <2>1. PICK status \in Publication :
          Save([memory EXCEPT !.ints[op.int].publication = status])
    BY <1>8 DEF EndObserve, Publication
  <2> QED BY <1>8, <2>1, OperationFields, NewOperations, IntegrationFieldUpdate
          DEF EndObserve, Save, git
<1>9. CASE RecordRetired
  <2>1. memory' \in Registry /\ file' = memory'
    <3>1. CASE op.what \in Workspaces
      BY <1>9, <3>1, WorkspaceFieldUpdate DEF RecordRetired, MarkRetired, Save
    <3>2. CASE op.what \notin Workspaces
      <4>1. op.what \in Integrations
        BY <1>9, <3>2, OperationFields DEF RecordRetired, Managed
      <4>2. memory' = [memory EXCEPT !.ints[op.what].status = "RETIRED"]
            /\ file' = memory'
        BY <1>9, <3>2 DEF RecordRetired, MarkRetired, Save
      <4>3. [memory EXCEPT !.ints[op.what].status = "RETIRED"] \in Registry
        BY <4>1, IntegrationFieldUpdate
      <4> QED BY <4>2, <4>3
    <3> QED BY <3>1, <3>2
  <2> QED BY <1>9, <2>1, NewOperations DEF RecordRetired, git
<1>10. CASE Raise
  BY <1>10, NewOperations DEF Raise, git
<1> QED BY <1>1, <1>2, <1>3, <1>4, <1>5, <1>6, <1>7, <1>8, <1>9, <1>10
        DEF OperationStep

(* The steps of an MCP call do. *)
LEMMA CallTyped ==
  ASSUME GitTypeOK, NEW c \in Calls, CallStep(c)
  PROVE  GitTypeOK'
<1> USE DEF GitTypeOK
<1>1. CASE LoadRegistry(c)
  <2>1. [loaded |-> TRUE, registry |-> file] \in Call
    BY DEF Call
  <2> QED BY <1>1, <2>1 DEF LoadRegistry, git
<1>2. ASSUME NEW w \in Workspaces, WriteRegistry(c, w)
      PROVE  GitTypeOK'
  <2>1. calls[c] \in [loaded : {TRUE}, registry : Registry]
    <3>1. calls[c] \in Call /\ calls[c].loaded
      BY <1>2 DEF WriteRegistry
    <3>2. calls[c] # NotLoaded
      BY <3>1 DEF NotLoaded
    <3> QED BY <3>1, <3>2 DEF Call
  <2>2. Refresh(calls[c].registry, w) \in Registry
    BY <2>1, RefreshType
  <2>3. [calls[c] EXCEPT !.registry = Refresh(calls[c].registry, w)] \in Call
    BY <2>1, <2>2 DEF Call
  <2>4. calls' = [calls EXCEPT ![c] =
                    [calls[c] EXCEPT !.registry = Refresh(calls[c].registry, w)]]
    BY <1>2 DEF WriteRegistry
  <2> QED BY <1>2, <2>2, <2>3, <2>4 DEF WriteRegistry, git
<1>3. CASE ReturnCall(c)
  BY <1>3 DEF ReturnCall, Call, git
<1> QED BY <1>1, <1>2, <1>3 DEF CallStep

(* The steps of everybody else do. *)
LEMMA WorldTyped ==
  ASSUME GitTypeOK, WorldStep
  PROVE  GitTypeOK'
<1> USE DEF GitTypeOK
<1>1. ASSUME NEW h \in HumanEdits, CommitOnTarget(h)
      PROVE  GitTypeOK'
  BY <1>1 DEF CommitOnTarget, Commit, Marks
<1>2. ASSUME NEW h \in HumanEdits, NEW i \in Integrations,
             CommitOnIntegration(i, h)
      PROVE  GitTypeOK'
  <2>1. head[i] \cup {h} \in Commit
    BY DEF Commit, Marks
  <2> QED BY <1>2, <2>1 DEF CommitOnIntegration
<1>3. ASSUME NEW i \in Integrations, UpdateIntegration(i)
      PROVE  GitTypeOK'
  <2>1. head[i] \cup target \in Commit
    BY DEF Commit
  <2> QED BY <1>3, <2>1 DEF UpdateIntegration
<1>4. ASSUME NEW label \in {NoLabel, target}, PublishTarget(label)
      PROVE  GitTypeOK'
  <2>1. [label |-> label, content |-> target] \in Revision
    BY DEF Revision
  <2>2. published' \in Seq(Revision) /\ Len(published') \in Counts
    BY <1>4, <2>1, AppendTyped DEF PublishTarget
  <2> QED BY <1>4, <2>2 DEF PublishTarget, git
<1>5. CASE Restart
  BY <1>5, NewOperations DEF Restart, git
<1> QED BY <1>1, <1>2, <1>3, <1>4, <1>5 DEF WorldStep

(* The type invariant is inductive. *)
LEMMA StepTyped == GitTypeOK /\ [GitNext]_gitVars => GitTypeOK'
<1> SUFFICES ASSUME GitTypeOK, [GitNext]_gitVars PROVE GitTypeOK'
  OBVIOUS
<1>1. CASE UNCHANGED gitVars
  BY <1>1 DEF GitTypeOK, gitVars, git
<1>2. CASE GitNext
  BY <1>2, WorkspaceTyped, IntegrationTyped, OperationTyped, CallTyped,
     WorldTyped DEF GitNext
<1> QED BY <1>1, <1>2

(* The type invariant. *)
THEOREM GitTypeCorrect == GitSpec => []GitTypeOK
<1>1. GitInit => GitTypeOK
  BY InitTyped
<1>2. GitTypeOK /\ [GitNext]_gitVars => GitTypeOK'
  BY StepTyped
<1> QED BY <1>1, <1>2, PTL DEF GitSpec

-----------------------------------------------------------------------------
(* Retirement                                                              *)

(* What registry r calls retired has been removed, when t are the trees.   *)
GoneIn(r, t) ==
  /\ \A w \in Workspaces : r.ws[w].status = "RETIRED" => t[w] = "REMOVED"
  /\ \A i \in Integrations : r.ints[i].status = "RETIRED" => t[i] = "REMOVED"

(* Every copy of the registry says the truth about retirement, because     *)
(* nothing that was removed comes back; what is about to be recorded has   *)
(* been done.                                                              *)
RetirementInv ==
  /\ GoneIn(memory, trees)
  /\ GoneIn(file, trees)
  /\ \A c \in Calls : calls[c].loaded => GoneIn(calls[c].registry, trees)
  /\ op.kind = "retire" => trees[op.what] = "REMOVED"
  /\ op.kind = "allocate" => op.row.status # "RETIRED"

(* Removing more worktrees keeps a registry truthful. *)
LEMMA GoneStays ==
  ASSUME NEW r, NEW t, NEW u, GoneIn(r, t),
         \A x \in Managed : t[x] = "REMOVED" => u[x] = "REMOVED"
  PROVE  GoneIn(r, u)
BY DEF GoneIn, Managed

(* Updates that do not write RETIRED. *)
LEMMA GoneWorkspace ==
  ASSUME NEW r \in Registry, NEW t, GoneIn(r, t), NEW w \in Workspaces
  PROVE  /\ \A row \in WorkspaceRow : row.status # "RETIRED"
              => GoneIn([r EXCEPT !.ws[w] = row], t)
         /\ \A c \in Commit, b \in BOOLEAN :
              GoneIn([r EXCEPT !.ws[w].submitted = c, !.ws[w].inScope = b], t)
         /\ t[w] = "REMOVED"
              => GoneIn([r EXCEPT !.ws[w].status = "RETIRED"], t)
<1> USE DEF GoneIn, Registry
<1>1. ASSUME NEW row \in WorkspaceRow, row.status # "RETIRED"
      PROVE  GoneIn([r EXCEPT !.ws[w] = row], t)
  BY <1>1
<1>2. ASSUME NEW c \in Commit, NEW b \in BOOLEAN
      PROVE  GoneIn([r EXCEPT !.ws[w].submitted = c, !.ws[w].inScope = b], t)
  <2> DEFINE row == [r.ws[w] EXCEPT !.submitted = c, !.inScope = b]
  <2>1. [r EXCEPT !.ws[w].submitted = c, !.ws[w].inScope = b]
          = [r EXCEPT !.ws[w] = row]
    OBVIOUS
  <2>2. row.status = r.ws[w].status
    BY DEF WorkspaceRow
  <2> HIDE DEF row
  <2> QED BY <2>1, <2>2
<1>3. ASSUME t[w] = "REMOVED"
      PROVE  GoneIn([r EXCEPT !.ws[w].status = "RETIRED"], t)
  BY <1>3
<1> QED BY <1>1, <1>2, <1>3

(* Noticing a missing worktree retires nothing. *)
LEMMA GoneRefresh ==
  ASSUME NEW r \in Registry, NEW t, GoneIn(r, t), NEW w \in Workspaces
  PROVE  GoneIn(Refresh(r, w), t)
<1>1. (Refresh(r, w)).ints = r.ints
  BY DEF Refresh, Registry
<1>2. \A v \in Workspaces : (Refresh(r, w)).ws[v].status = "RETIRED"
                              => r.ws[v].status = "RETIRED"
  BY DEF Refresh, Registry, WorkspaceRow
<1> QED BY <1>1, <1>2 DEF GoneIn

(* The same for the row of an integration. *)
LEMMA GoneIntegration ==
  ASSUME NEW r \in Registry, NEW t, GoneIn(r, t), NEW i \in Integrations
  PROVE  /\ \A row \in IntegrationRow : row.status # "RETIRED"
              => GoneIn([r EXCEPT !.ints[i] = row], t)
         /\ \A b \in BOOLEAN : GoneIn([r EXCEPT !.ints[i].eligible = b], t)
         /\ \A q \in Publication :
              GoneIn([r EXCEPT !.ints[i].publication = q], t)
         /\ \A c \in Commit : GoneIn([r EXCEPT !.ints[i].merged = c,
                                        !.ints[i].publication = "PENDING"], t)
         /\ t[i] = "REMOVED"
              => GoneIn([r EXCEPT !.ints[i].status = "RETIRED"], t)
<1> USE DEF GoneIn, Registry
<1>1. ASSUME NEW row \in IntegrationRow, row.status # "RETIRED"
      PROVE  GoneIn([r EXCEPT !.ints[i] = row], t)
  BY <1>1
<1>2. ASSUME NEW b \in BOOLEAN
      PROVE  GoneIn([r EXCEPT !.ints[i].eligible = b], t)
  BY DEF IntegrationRow
<1>3. ASSUME NEW q \in Publication
      PROVE  GoneIn([r EXCEPT !.ints[i].publication = q], t)
  BY DEF IntegrationRow
<1>4. ASSUME NEW c \in Commit
      PROVE  GoneIn([r EXCEPT !.ints[i].merged = c,
                              !.ints[i].publication = "PENDING"], t)
  <2> DEFINE row == [r.ints[i] EXCEPT !.merged = c, !.publication = "PENDING"]
  <2>1. [r EXCEPT !.ints[i].merged = c, !.ints[i].publication = "PENDING"]
          = [r EXCEPT !.ints[i] = row]
    OBVIOUS
  <2>2. row.status = r.ints[i].status
    BY DEF IntegrationRow
  <2> HIDE DEF row
  <2> QED BY <2>1, <2>2
<1>5. ASSUME t[i] = "REMOVED"
      PROVE  GoneIn([r EXCEPT !.ints[i].status = "RETIRED"], t)
  BY <1>5
<1> QED BY <1>1, <1>2, <1>3, <1>4, <1>5

(* The trees of an allocation or a removal keep what was removed. *)
LEMMA AllocateKeepsGone ==
  ASSUME GitTypeOK, RetirementInv, NEW what \in Managed, NEW row,
         Allocate(what, row), trees[what] = "NEVER", row.status # "RETIRED"
  PROVE  RetirementInv'
<1>1. \A x \in Managed : trees[x] = "REMOVED" => trees'[x] = "REMOVED"
  BY DEF Allocate, GitTypeOK
<1>2. \A r : GoneIn(r, trees) => GoneIn(r, trees')
  BY <1>1, GoneStays
<1>3. UNCHANGED <<memory, file, calls>>
  BY DEF Allocate
<1> QED BY <1>2, <1>3 DEF Allocate, RetirementInv

(* A removal takes one away and brings none back. *)
LEMMA RemoveKeepsGone ==
  ASSUME GitTypeOK, RetirementInv, NEW what \in Managed, Remove(what)
  PROVE  RetirementInv'
<1>1. \A x \in Managed : trees[x] = "REMOVED" => trees'[x] = "REMOVED"
  BY DEF Remove, GitTypeOK
<1>2. \A r : GoneIn(r, trees) => GoneIn(r, trees')
  BY <1>1, GoneStays
<1>3. UNCHANGED <<memory, file, calls>>
  BY DEF Remove
<1> QED BY <1>2, <1>3 DEF Remove, RetirementInv, GitTypeOK

(* A step that saves a truthful registry. *)
LEMMA SaveKeepsGone ==
  ASSUME RetirementInv, NEW r, Save(r), GoneIn(r, trees),
         op' = op \/ op' = Free, UNCHANGED <<trees, calls>>
  PROVE  RetirementInv'
BY DEF RetirementInv, Save, Free

(* A step that leaves every copy of the registry and the trees alone. *)
LEMMA NoRecordKeepsGone ==
  ASSUME RetirementInv, UNCHANGED <<trees, memory, file, calls>>,
         op'.kind \in {"retire", "allocate"} => op' = op
  PROVE  RetirementInv'
BY DEF RetirementInv

(* The steps on a workspace keep the invariant. *)
LEMMA WorkspaceKeepsGone ==
  ASSUME GitTypeOK, RetirementInv, NEW w \in Workspaces, WorkspaceStep(w)
  PROVE  RetirementInv'
<1> USE DEF GitTypeOK
<1>0. GoneIn(memory, trees)
  BY DEF RetirementInv
<1>1. ASSUME NEW agent \in Agents, NEW task \in Tasks,
             CreateAgentWorktree(w, agent, task)
      PROVE  RetirementInv'
  BY <1>1, AllocateKeepsGone DEF CreateAgentWorktree, Managed
<1>2. CASE AgentCommit(w)
  BY <1>2, NoRecordKeepsGone DEF AgentCommit
<1>3. CASE SubmitCommittedResult(w)
  <2> DEFINE r == [memory EXCEPT !.ws[w].submitted = branch[w],
                                 !.ws[w].inScope = (Violations(w, branch[w]) = {})]
  <2>1. GoneIn(r, trees)
    BY <1>0, GoneWorkspace
  <2>2. Save(r) /\ UNCHANGED <<trees, calls, op>>
    BY <1>3 DEF SubmitCommittedResult, git
  <2> HIDE DEF r
  <2> QED BY <2>1, <2>2, SaveKeepsGone
<1>4. CASE Inspect(w)
  <2>1. GoneIn(Refresh(memory, w), trees)
    BY <1>0, GoneRefresh
  <2> QED BY <1>4, <2>1, SaveKeepsGone DEF Inspect, git
<1>5. CASE RetireWorktree(w)
  BY <1>5, RemoveKeepsGone DEF RetireWorktree, Managed
<1> QED BY <1>1, <1>2, <1>3, <1>4, <1>5 DEF WorkspaceStep

(* The steps on an integration keep the invariant. *)
LEMMA IntegrationKeepsGone ==
  ASSUME GitTypeOK, RetirementInv, NEW i \in Integrations, IntegrationStep(i)
  PROVE  RetirementInv'
<1> USE DEF GitTypeOK
<1>0. /\ GoneIn(memory, trees)
      /\ GoneIn([memory EXCEPT !.ints[i].eligible = FALSE], trees)
  BY GoneIntegration DEF RetirementInv
<1>1. ASSUME NEW candidates \in SUBSET Workspaces,
             CreateIntegration(i, candidates)
      PROVE  RetirementInv'
  <2>1. PICK row : Allocate(i, row) /\ row.status # "RETIRED"
    BY <1>1 DEF CreateIntegration, IntegrateCommits
  <2>2. trees[i] = "NEVER"
    BY <1>1 DEF CreateIntegration, IntegrateCommits
  <2> QED BY <2>1, <2>2, AllocateKeepsGone DEF Managed
<1>2. CASE BeginAudit(i)
  <2>1. CASE UNCHANGED memory /\ op'.kind = "audit"
    BY <1>2, <2>1, NoRecordKeepsGone DEF BeginAudit, git
  <2>2. CASE /\ memory' = [memory EXCEPT !.ints[i].eligible = FALSE]
             /\ op' = op
    <3> DEFINE r == [memory EXCEPT !.ints[i].eligible = FALSE]
    <3>1. GoneIn(r, trees) /\ memory' = r
      BY <1>0, <2>2
    <3>2. UNCHANGED <<trees, file, calls, op>>
      BY <1>2, <2>2 DEF BeginAudit, git
    <3> HIDE DEF r
    <3> QED BY <3>1, <3>2 DEF RetirementInv
  <2> QED BY <1>2, <2>1, <2>2 DEF BeginAudit
<1>3. CASE ProjectMerge(i)
  BY <1>0, <1>3, SaveKeepsGone DEF ProjectMerge, git
<1>4. CASE BeginMerge(i)
  <2>1. CASE op'.kind = "merge" /\ UNCHANGED <<memory, file>>
    BY <1>4, <2>1, NoRecordKeepsGone DEF BeginMerge, git
  <2>2. CASE /\ Save([memory EXCEPT !.ints[i].eligible = FALSE])
             /\ UNCHANGED op
    BY <1>0, <1>4, <2>2, SaveKeepsGone DEF BeginMerge, git
  <2> QED BY <1>4, <2>1, <2>2 DEF BeginMerge
<1>5. CASE FastForward(i)
  <2>1. /\ op.kind = "merge" /\ op' = [op EXCEPT !.moved = TRUE]
        /\ UNCHANGED <<trees, memory, file, calls>>
    BY <1>5 DEF FastForward, Moved
  <2>2. op'.kind = "merge"
    BY <2>1, OperationFields
  <2> QED BY <2>1, <2>2, NoRecordKeepsGone
<1>6. CASE BeginObserve(i)
  BY <1>6, NoRecordKeepsGone DEF BeginObserve, git
<1>7. CASE RetireIntegration(i)
  BY <1>7, RemoveKeepsGone DEF RetireIntegration, Managed
<1> QED BY <1>1, <1>2, <1>3, <1>4, <1>5, <1>6, <1>7 DEF IntegrationStep

(* The later steps of an operation keep it; a retirement was a removal. *)
LEMMA OperationKeepsGone ==
  ASSUME GitTypeOK, RetirementInv, OperationStep
  PROVE  RetirementInv'
<1> USE DEF GitTypeOK
<1>0. GoneIn(memory, trees)
  BY DEF RetirementInv
<1>1. CASE RecordWorkspace
  <2>1. op.row \in WorkspaceRow /\ op.row.status # "RETIRED"
    BY <1>1, OperationFields DEF RecordWorkspace, RetirementInv
  <2>2. GoneIn([memory EXCEPT !.ws[op.what] = op.row], trees)
    BY <1>0, <1>1, <2>1, GoneWorkspace DEF RecordWorkspace
  <2> QED BY <1>1, <2>2, SaveKeepsGone DEF RecordWorkspace, git
<1>2. CASE RecordIntegration
  <2>1. op.row \in IntegrationRow /\ op.row.status # "RETIRED"
    BY <1>2, OperationFields DEF RecordIntegration, RetirementInv
  <2>2. GoneIn([memory EXCEPT !.ints[op.what] = op.row], trees)
    BY <1>0, <1>2, <2>1, GoneIntegration DEF RecordIntegration
  <2> QED BY <1>2, <2>2, SaveKeepsGone DEF RecordIntegration, git
<1>3. CASE TestCandidate
  <2>1. op'.kind = "tested"
    BY <1>3, OperationFields DEF TestCandidate
  <2> QED BY <1>3, <2>1, NoRecordKeepsGone DEF TestCandidate, git
<1>4. CASE EndAudit
  <2>1. op.int \in Integrations
    BY <1>4, OperationFields DEF EndAudit
  <2>2. PICK eligible \in BOOLEAN :
          Save([memory EXCEPT !.ints[op.int].eligible = eligible])
    BY <1>4 DEF EndAudit
  <2>3. GoneIn([memory EXCEPT !.ints[op.int].eligible = eligible], trees)
    BY <1>0, <2>1, GoneIntegration
  <2> QED BY <1>4, <2>2, <2>3, SaveKeepsGone DEF EndAudit, git
<1>5. CASE RecordMerge
  <2>1. op.int \in Integrations
    BY <1>5, OperationFields DEF RecordMerge
  <2>2. GoneIn([memory EXCEPT !.ints[op.int].merged = target,
                              !.ints[op.int].publication = "PENDING"], trees)
    BY <1>0, <2>1, GoneIntegration
  <2> QED BY <1>5, <2>2, SaveKeepsGone DEF RecordMerge, git
<1>6. CASE IndexMerged
  BY <1>6, NoRecordKeepsGone DEF IndexMerged, Indexed, git
<1>7. CASE IndexMergedFails
  BY <1>7, NoRecordKeepsGone DEF IndexMergedFails, Indexed, git
<1>8. CASE EndObserve
  <2>1. op.int \in Integrations
    BY <1>8, OperationFields DEF EndObserve
  <2>2. PICK status \in Publication :
          Save([memory EXCEPT !.ints[op.int].publication = status])
    BY <1>8 DEF EndObserve, Publication
  <2>3. GoneIn([memory EXCEPT !.ints[op.int].publication = status], trees)
    BY <1>0, <2>1, GoneIntegration
  <2> QED BY <1>8, <2>2, <2>3, SaveKeepsGone DEF EndObserve, git
<1>9. CASE RecordRetired
  <2>1. op.what \in Managed /\ trees[op.what] = "REMOVED"
    BY <1>9, OperationFields DEF RecordRetired, RetirementInv
  <2>2. PICK r : Save(r) /\ GoneIn(r, trees)
    <3>1. CASE op.what \in Workspaces
      <4>1. GoneIn([memory EXCEPT !.ws[op.what].status = "RETIRED"], trees)
        BY <1>0, <2>1, <3>1, GoneWorkspace
      <4> QED BY <1>9, <3>1, <4>1 DEF RecordRetired, MarkRetired
    <3>2. CASE op.what \notin Workspaces
      <4>1. GoneIn([memory EXCEPT !.ints[op.what].status = "RETIRED"], trees)
        BY <1>0, <2>1, <3>2, GoneIntegration DEF Managed
      <4> QED BY <1>9, <3>2, <4>1 DEF RecordRetired, MarkRetired
    <3> QED BY <3>1, <3>2
  <2> QED BY <1>9, <2>2, SaveKeepsGone DEF RecordRetired, git
<1>10. CASE Raise
  BY <1>10, NoRecordKeepsGone DEF Raise, Free, git
<1> QED BY <1>1, <1>2, <1>3, <1>4, <1>5, <1>6, <1>7, <1>8, <1>9, <1>10
        DEF OperationStep

(* An MCP call writes back a registry that was truthful and still is. *)
LEMMA CallKeepsGone ==
  ASSUME GitTypeOK, RetirementInv, NEW c \in Calls, CallStep(c)
  PROVE  RetirementInv'
<1> USE DEF GitTypeOK
<1>1. CASE LoadRegistry(c)
  BY <1>1 DEF LoadRegistry, RetirementInv, git
<1>2. ASSUME NEW w \in Workspaces, WriteRegistry(c, w)
      PROVE  RetirementInv'
  <2>1. calls[c] \in [loaded : {TRUE}, registry : Registry]
    <3>1. calls[c] \in Call /\ calls[c].loaded
      BY <1>2 DEF WriteRegistry
    <3>2. calls[c] # NotLoaded
      BY <3>1 DEF NotLoaded
    <3> QED BY <3>1, <3>2 DEF Call
  <2>2. GoneIn(Refresh(calls[c].registry, w), trees)
    BY <2>1, GoneRefresh DEF RetirementInv
  <2>3. /\ file' = Refresh(calls[c].registry, w)
        /\ calls' = [calls EXCEPT ![c] =
                      [calls[c] EXCEPT !.registry = Refresh(calls[c].registry, w)]]
        /\ UNCHANGED <<trees, memory, op>>
    BY <1>2 DEF WriteRegistry, git
  <2>4. \A d \in Calls : calls'[d].loaded => GoneIn(calls'[d].registry, trees)
    BY <2>1, <2>2, <2>3 DEF RetirementInv
  <2> QED BY <2>2, <2>3, <2>4 DEF RetirementInv
<1>3. CASE ReturnCall(c)
  BY <1>3 DEF ReturnCall, NotLoaded, RetirementInv, git
<1> QED BY <1>1, <1>2, <1>3 DEF CallStep

(* A restart loads a truthful registry; the rest does not touch any. *)
LEMMA WorldKeepsGone ==
  ASSUME GitTypeOK, RetirementInv, WorldStep
  PROVE  RetirementInv'
<1>1. CASE Restart
  BY <1>1 DEF Restart, RetirementInv, Free, git
<1>2. CASE UNCHANGED <<trees, memory, file, calls, op>>
  BY <1>2, NoRecordKeepsGone
<1> QED BY <1>1, <1>2 DEF WorldStep, CommitOnTarget, CommitOnIntegration,
                          UpdateIntegration, PublishTarget, git

(* RetirementInv is inductive, given the types. *)
LEMMA StepKeepsGone ==
  GitTypeOK /\ RetirementInv /\ [GitNext]_gitVars => RetirementInv'
<1> SUFFICES ASSUME GitTypeOK, RetirementInv, [GitNext]_gitVars
             PROVE  RetirementInv'
  OBVIOUS
<1>1. CASE UNCHANGED gitVars
  BY <1>1 DEF RetirementInv, gitVars, git
<1>2. CASE GitNext
  BY <1>2, WorkspaceKeepsGone, IntegrationKeepsGone, OperationKeepsGone,
     CallKeepsGone, WorldKeepsGone DEF GitNext
<1> QED BY <1>1, <1>2

(* What any copy of the registry calls retired is gone from disk. *)
THEOREM RetiredWorktreesAreGone == GitSpec => []RetiredIsGone
<1>1. GitInit => RetirementInv
  BY DEF GitInit, RetirementInv, GoneIn, EmptyRegistry, NotLoaded, Free
<1>2. GitTypeOK /\ RetirementInv => RetiredIsGone
  BY DEF RetirementInv, GoneIn, RetiredIsGone, OnDisk
<1> QED BY <1>1, <1>2, GitTypeCorrect, StepKeepsGone, PTL DEF GitSpec

-----------------------------------------------------------------------------
(* Scope                                                                   *)

(* A commit without an edit outside the scope of its workspace. *)
Clean(commit) == \A w \in Workspaces : commit \cap ({w} \X OutOfScope) = {}

(* What a row says of scope is so: only the edits of the workspace itself  *)
(* may be outside its scope, and none of those judged to be inside is.     *)
RowInScope(row, w) ==
  /\ Clean(row.base)
  /\ Clean(row.submitted \ EditsOf(w))
  /\ row.inScope => Clean(row.submitted)

RowsInScope(r) == \A w \in Workspaces : RowInScope(r.ws[w], w)

ScopeInv ==
  /\ Clean(target)
  /\ \A i \in Integrations : Clean(head[i])
  /\ \A w \in Workspaces : Clean(branch[w] \ EditsOf(w))
  /\ RowsInScope(memory)
  /\ RowsInScope(file)
  /\ \A c \in Calls : calls[c].loaded => RowsInScope(calls[c].registry)
  /\ op.kind = "allocate" /\ op.what \in Workspaces
       => RowInScope(op.row, op.what)

(* Human commits and merges bring no edit of an agent. *)
LEMMA CleanWithMark ==
  ASSUME NEW commit, Clean(commit), NEW m \in HumanEdits \cup Integrations
  PROVE  Clean(commit \cup {m})
<1> SUFFICES ASSUME NEW w \in Workspaces
             PROVE  (commit \cup {m}) \cap ({w} \X OutOfScope) = {}
  BY DEF Clean
<1>1. {w} \X OutOfScope \subseteq Workspaces \X AgentEdits
  BY GitAssumption
<1>2. m \notin Workspaces \X AgentEdits
  BY GitAssumption
<1>3. commit \cap ({w} \X OutOfScope) = {}
  BY DEF Clean
<1> QED BY <1>1, <1>2, <1>3

(* A merge of clean commits is clean. *)
LEMMA CleanUnion ==
  ASSUME NEW c, NEW d, Clean(c), Clean(d)
  PROVE  Clean(c \cup d)
BY DEF Clean

(* A branch without violations is clean: its other edits are not its own.  *)
LEMMA NoViolationIsClean ==
  ASSUME NEW w \in Workspaces, RowsInScope(memory),
         Clean(branch[w] \ EditsOf(w)), Violations(w, branch[w]) = {}
  PROVE  Clean(branch[w])
<1> SUFFICES ASSUME NEW v \in Workspaces, NEW e \in branch[w],
                    e \in {v} \X OutOfScope
             PROVE  FALSE
  BY DEF Clean
<1>1. CASE v = w
  <2>1. e \in memory.ws[w].base
    BY <1>1 DEF Violations
  <2> QED BY <1>1, <2>1 DEF RowsInScope, RowInScope, Clean
<1>2. CASE v # w
  <2>1. e \notin EditsOf(w)
    BY <1>2 DEF EditsOf
  <2> QED BY <2>1 DEF Clean
<1> QED BY <1>1, <1>2

(* Registry updates that keep the rows in scope. *)
LEMMA ScopeWorkspace ==
  ASSUME NEW r \in Registry, RowsInScope(r), NEW w \in Workspaces
  PROVE  /\ \A row \in WorkspaceRow : RowInScope(row, w)
              => RowsInScope([r EXCEPT !.ws[w] = row])
         /\ \A c \in Commit, b \in BOOLEAN :
              Clean(c \ EditsOf(w)) /\ (b => Clean(c))
                => RowsInScope([r EXCEPT !.ws[w].submitted = c,
                                         !.ws[w].inScope = b])
         /\ RowsInScope([r EXCEPT !.ws[w].status = "RETIRED"])
         /\ RowsInScope(Refresh(r, w))
<1> USE DEF RowsInScope, Registry
<1>1. ASSUME NEW row \in WorkspaceRow, RowInScope(row, w)
      PROVE  RowsInScope([r EXCEPT !.ws[w] = row])
  BY <1>1
<1>2. ASSUME NEW c \in Commit, NEW b \in BOOLEAN,
             Clean(c \ EditsOf(w)), b => Clean(c)
      PROVE  RowsInScope([r EXCEPT !.ws[w].submitted = c, !.ws[w].inScope = b])
  <2> DEFINE row == [r.ws[w] EXCEPT !.submitted = c, !.inScope = b]
  <2>1. [r EXCEPT !.ws[w].submitted = c, !.ws[w].inScope = b]
          = [r EXCEPT !.ws[w] = row]
    OBVIOUS
  <2>2. row.base = r.ws[w].base /\ row.submitted = c /\ row.inScope = b
    BY DEF WorkspaceRow
  <2>3. RowInScope(row, w)
    BY <1>2, <2>2 DEF RowInScope
  <2> HIDE DEF row
  <2> QED BY <2>1, <2>3
<1>3. ASSUME NEW s
      PROVE  RowsInScope([r EXCEPT !.ws[w].status = s])
  <2> DEFINE row == [r.ws[w] EXCEPT !.status = s]
  <2>1. [r EXCEPT !.ws[w].status = s] = [r EXCEPT !.ws[w] = row]
    OBVIOUS
  <2>2. /\ row.base = r.ws[w].base /\ row.submitted = r.ws[w].submitted
        /\ row.inScope = r.ws[w].inScope
    BY DEF WorkspaceRow
  <2>3. RowInScope(row, w)
    BY <2>2 DEF RowInScope
  <2> HIDE DEF row
  <2> QED BY <2>1, <2>3
<1>4. RowsInScope(Refresh(r, w))
  BY <1>3 DEF Refresh
<1> QED BY <1>1, <1>2, <1>3, <1>4

(* Steps that save a registry in scope, and steps that save none. *)
LEMMA SaveKeepsScope ==
  ASSUME ScopeInv, NEW r, Save(r), RowsInScope(r),
         op' = op \/ op' = Free, UNCHANGED <<git, calls>>
  PROVE  ScopeInv'
BY DEF ScopeInv, Save, Free, git

(* A step that changes only rows of integrations. *)
LEMMA SaveIntegrationKeepsScope ==
  ASSUME ScopeInv, memory'.ws = memory.ws, file' \in {file, memory'},
         op' = op \/ op' = Free, UNCHANGED <<git, calls>>
  PROVE  ScopeInv'
<1>1. RowsInScope(memory')
  BY DEF ScopeInv, RowsInScope
<1>2. RowsInScope(file')
  BY <1>1 DEF ScopeInv
<1> QED BY <1>1, <1>2 DEF ScopeInv, Free, git

(* A step that changes no commit and no registry. *)
LEMMA NoRecordKeepsScope ==
  ASSUME ScopeInv, UNCHANGED <<target, branch, head, memory, file, calls>>,
         op'.kind = "allocate" => op' = op
  PROVE  ScopeInv'
BY DEF ScopeInv

(* The steps on a workspace keep the invariant. *)
LEMMA WorkspaceKeepsScope ==
  ASSUME GitTypeOK, ScopeInv, NEW w \in Workspaces, WorkspaceStep(w)
  PROVE  ScopeInv'
<1> USE DEF GitTypeOK
<1>0. RowsInScope(memory)
  BY DEF ScopeInv
<1>1. ASSUME NEW agent \in Agents, NEW task \in Tasks,
             CreateAgentWorktree(w, agent, task)
      PROVE  ScopeInv'
  <2> DEFINE row == [status |-> "LIVE", agent |-> agent, task |-> task,
                     base |-> target, submitted |-> target, inScope |-> FALSE]
  <2>1. Clean(target) /\ Clean(target \ EditsOf(w))
    BY DEF ScopeInv, Clean
  <2>2. RowInScope(row, w)
    BY <2>1 DEF RowInScope
  <2>3. /\ op' = [kind |-> "allocate", what |-> w, row |-> row]
        /\ branch' = [branch EXCEPT ![w] = target]
        /\ UNCHANGED <<target, head, memory, file, calls>>
    BY <1>1 DEF CreateAgentWorktree, Allocate
  <2>4. \A v \in Workspaces : Clean(branch'[v] \ EditsOf(v))
    BY <2>1, <2>3 DEF ScopeInv
  <2> HIDE DEF row
  <2> QED BY <2>2, <2>3, <2>4 DEF ScopeInv
<1>2. CASE AgentCommit(w)
  <2>1. PICK e \in EditsOf(w) : branch' = [branch EXCEPT ![w] = @ \cup {e}]
    BY <1>2 DEF AgentCommit
  <2>2. branch'[w] \ EditsOf(w) = branch[w] \ EditsOf(w)
    BY <2>1
  <2>3. \A v \in Workspaces : Clean(branch'[v] \ EditsOf(v))
    BY <2>1, <2>2 DEF ScopeInv
  <2> QED BY <1>2, <2>3 DEF AgentCommit, ScopeInv
<1>3. CASE SubmitCommittedResult(w)
  <2> DEFINE b == Violations(w, branch[w]) = {}
             r == [memory EXCEPT !.ws[w].submitted = branch[w],
                                 !.ws[w].inScope = b]
  <2>1. Clean(branch[w] \ EditsOf(w))
    BY DEF ScopeInv
  <2>2. b => Clean(branch[w])
    BY <1>0, <2>1, NoViolationIsClean
  <2>3. b \in BOOLEAN /\ branch[w] \in Commit
    OBVIOUS
  <2>4. Save(r) /\ UNCHANGED <<git, calls, op>>
    BY <1>3 DEF SubmitCommittedResult
  <2> HIDE DEF b
  <2>5. RowsInScope(r)
    BY <1>0, <2>1, <2>2, <2>3, ScopeWorkspace
  <2> HIDE DEF r
  <2> QED BY <2>4, <2>5, SaveKeepsScope
<1>4. CASE Inspect(w)
  <2>1. RowsInScope(Refresh(memory, w))
    BY <1>0, ScopeWorkspace
  <2> QED BY <1>4, <2>1, SaveKeepsScope DEF Inspect
<1>5. CASE RetireWorktree(w)
  BY <1>5, NoRecordKeepsScope DEF RetireWorktree, Remove
<1> QED BY <1>1, <1>2, <1>3, <1>4, <1>5 DEF WorkspaceStep

(* What is integrated was judged in scope, whatever the branches are now.  *)
LEMMA CreateKeepsScope ==
  ASSUME GitTypeOK, ScopeInv, NEW i \in Integrations,
         NEW candidates \in SUBSET Workspaces, CreateIntegration(i, candidates)
  PROVE  ScopeInv'
<1> USE DEF GitTypeOK
<1> DEFINE commit == [w \in Workspaces |-> memory.ws[w].submitted]
           merge(members) == UNION {commit[w] : w \in members}
           new(members) == IF merge(members) \subseteq target THEN target
                           ELSE target \cup merge(members) \cup {i}
<1>1. PICK members \in SUBSET candidates :
        /\ head' = [head EXCEPT ![i] = new(members)]
        /\ \E row : Allocate(i, row)
  BY DEF CreateIntegration, IntegrateCommits
<1>2. ASSUME NEW w \in members
      PROVE  Clean(commit[w])
  <2>1. memory.ws[w].inScope /\ RowInScope(memory.ws[w], w)
    BY DEF CreateIntegration, IntegrateCommits, ScopeInv, RowsInScope
  <2> QED BY <2>1 DEF RowInScope
<1>3. Clean(merge(members))
  <2> SUFFICES ASSUME NEW w \in Workspaces, NEW e \in merge(members),
                      e \in {w} \X OutOfScope
               PROVE  FALSE
    BY DEF Clean
  <2>1. PICK v \in members : e \in commit[v]
    OBVIOUS
  <2> QED BY <1>2, <2>1 DEF Clean
<1>4. Clean(new(members))
  <2> HIDE DEF merge
  <2>1. Clean(target \cup merge(members))
    BY <1>3, CleanUnion DEF ScopeInv
  <2> QED BY <2>1, CleanWithMark DEF ScopeInv
<1>5. \A j \in Integrations : Clean(head'[j])
  <2> HIDE DEF new
  <2> QED BY <1>1, <1>4 DEF ScopeInv
<1>6. /\ op'.kind = "allocate" /\ op'.what = i
      /\ UNCHANGED <<target, branch, memory, file, calls>>
  BY <1>1 DEF Allocate, CreateIntegration, IntegrateCommits
<1>7. i \notin Workspaces
  BY GitAssumption
<1> QED BY <1>5, <1>6, <1>7 DEF ScopeInv

(* The steps on an integration keep the invariant. *)
LEMMA IntegrationKeepsScope ==
  ASSUME GitTypeOK, ScopeInv, NEW i \in Integrations, IntegrationStep(i)
  PROVE  ScopeInv'
<1> USE DEF GitTypeOK
<1>1. ASSUME NEW candidates \in SUBSET Workspaces,
             CreateIntegration(i, candidates)
      PROVE  ScopeInv'
  BY <1>1, CreateKeepsScope
<1>2. CASE BeginAudit(i)
  <2>1. CASE UNCHANGED memory /\ op'.kind = "audit"
    BY <1>2, <2>1, NoRecordKeepsScope DEF BeginAudit, git
  <2>2. CASE /\ memory' = [memory EXCEPT !.ints[i].eligible = FALSE]
             /\ UNCHANGED op
    <3>1. memory'.ws = memory.ws
      BY <2>2 DEF Registry
    <3> QED BY <1>2, <2>2, <3>1, SaveIntegrationKeepsScope DEF BeginAudit
  <2> QED BY <1>2, <2>1, <2>2 DEF BeginAudit
<1>3. CASE ProjectMerge(i)
  <2>1. memory'.ws = memory.ws /\ file' = memory'
    BY <1>3 DEF ProjectMerge, Save, Registry
  <2> QED BY <1>3, <2>1, SaveIntegrationKeepsScope DEF ProjectMerge
<1>4. CASE BeginMerge(i)
  <2>1. CASE op'.kind = "merge" /\ UNCHANGED <<memory, file>>
    BY <1>4, <2>1, NoRecordKeepsScope DEF BeginMerge, git
  <2>2. CASE /\ Save([memory EXCEPT !.ints[i].eligible = FALSE])
             /\ UNCHANGED op
    <3>1. memory'.ws = memory.ws /\ file' = memory'
      BY <2>2 DEF Save, Registry
    <3> QED BY <1>4, <2>2, <3>1, SaveIntegrationKeepsScope DEF BeginMerge
  <2> QED BY <1>4, <2>1, <2>2 DEF BeginMerge
<1>5. CASE FastForward(i)
  <2>1. /\ op.kind = "merge" /\ op' = [op EXCEPT !.moved = TRUE]
        /\ UNCHANGED <<branch, head, memory, file, calls>>
        /\ Clean(target')
    BY <1>5 DEF FastForward, Moved, ScopeInv
  <2>2. op'.kind = "merge"
    BY <2>1, OperationFields
  <2> QED BY <2>1, <2>2 DEF ScopeInv
<1>6. CASE BeginObserve(i)
  BY <1>6, NoRecordKeepsScope DEF BeginObserve, git
<1>7. CASE RetireIntegration(i)
  BY <1>7, NoRecordKeepsScope DEF RetireIntegration, Remove
<1> QED BY <1>1, <1>2, <1>3, <1>4, <1>5, <1>6, <1>7 DEF IntegrationStep

(* The later steps of an operation keep the invariant. *)
LEMMA OperationKeepsScope ==
  ASSUME GitTypeOK, ScopeInv, OperationStep
  PROVE  ScopeInv'
<1> USE DEF GitTypeOK
<1>0. RowsInScope(memory)
  BY DEF ScopeInv
<1>1. CASE RecordWorkspace
  <2>1. RowInScope(op.row, op.what) /\ op.row \in WorkspaceRow
    BY <1>1, OperationFields DEF RecordWorkspace, ScopeInv
  <2>2. RowsInScope([memory EXCEPT !.ws[op.what] = op.row])
    BY <1>0, <1>1, <2>1, ScopeWorkspace DEF RecordWorkspace
  <2> QED BY <1>1, <2>2, SaveKeepsScope DEF RecordWorkspace
<1>2. CASE RecordIntegration
  <2>1. memory'.ws = memory.ws /\ file' = memory'
    BY <1>2 DEF RecordIntegration, Save, Registry
  <2> QED BY <1>2, <2>1, SaveIntegrationKeepsScope DEF RecordIntegration
<1>3. CASE TestCandidate
  <2>1. op'.kind = "tested"
    BY <1>3, OperationFields DEF TestCandidate
  <2> QED BY <1>3, <2>1, NoRecordKeepsScope DEF TestCandidate, git
<1>4. CASE EndAudit
  <2>1. memory'.ws = memory.ws /\ file' = memory'
    BY <1>4 DEF EndAudit, Save, Registry
  <2> QED BY <1>4, <2>1, SaveIntegrationKeepsScope DEF EndAudit
<1>5. CASE RecordMerge
  <2>1. memory'.ws = memory.ws /\ file' = memory'
    BY <1>5 DEF RecordMerge, Save, Registry
  <2> QED BY <1>5, <2>1, SaveIntegrationKeepsScope DEF RecordMerge
<1>6. CASE IndexMerged
  BY <1>6, NoRecordKeepsScope DEF IndexMerged, Indexed, git
<1>7. CASE IndexMergedFails
  BY <1>7, NoRecordKeepsScope DEF IndexMergedFails, Indexed, git
<1>8. CASE EndObserve
  <2>1. memory'.ws = memory.ws /\ file' = memory'
    BY <1>8 DEF EndObserve, Save, Registry
  <2> QED BY <1>8, <2>1, SaveIntegrationKeepsScope DEF EndObserve
<1>9. CASE RecordRetired
  <2>1. CASE op.what \in Workspaces
    <3>1. RowsInScope([memory EXCEPT !.ws[op.what].status = "RETIRED"])
      BY <1>0, <2>1, ScopeWorkspace
    <3> QED BY <1>9, <2>1, <3>1, SaveKeepsScope DEF RecordRetired, MarkRetired
  <2>2. CASE op.what \notin Workspaces
    <3>1. memory'.ws = memory.ws /\ file' = memory'
      BY <1>9, <2>2 DEF RecordRetired, MarkRetired, Save, Registry
    <3> QED BY <1>9, <3>1, SaveIntegrationKeepsScope DEF RecordRetired
  <2> QED BY <2>1, <2>2
<1>10. CASE Raise
  BY <1>10, NoRecordKeepsScope DEF Raise, Free, git
<1> QED BY <1>1, <1>2, <1>3, <1>4, <1>5, <1>6, <1>7, <1>8, <1>9, <1>10
        DEF OperationStep

(* An MCP call writes back rows that were and are in scope. *)
LEMMA CallKeepsScope ==
  ASSUME GitTypeOK, ScopeInv, NEW c \in Calls, CallStep(c)
  PROVE  ScopeInv'
<1> USE DEF GitTypeOK
<1>1. CASE LoadRegistry(c)
  BY <1>1 DEF LoadRegistry, ScopeInv, git
<1>2. ASSUME NEW w \in Workspaces, WriteRegistry(c, w)
      PROVE  ScopeInv'
  <2>1. calls[c] \in [loaded : {TRUE}, registry : Registry]
    <3>1. calls[c] \in Call /\ calls[c].loaded
      BY <1>2 DEF WriteRegistry
    <3>2. calls[c] # NotLoaded
      BY <3>1 DEF NotLoaded
    <3> QED BY <3>1, <3>2 DEF Call
  <2>2. RowsInScope(Refresh(calls[c].registry, w))
    BY <2>1, ScopeWorkspace DEF ScopeInv
  <2>3. /\ file' = Refresh(calls[c].registry, w)
        /\ calls' = [calls EXCEPT ![c] =
                      [calls[c] EXCEPT !.registry = Refresh(calls[c].registry, w)]]
        /\ UNCHANGED <<git, memory, op>>
    BY <1>2 DEF WriteRegistry
  <2>4. \A d \in Calls : calls'[d].loaded => RowsInScope(calls'[d].registry)
    BY <2>1, <2>2, <2>3 DEF ScopeInv
  <2> QED BY <2>2, <2>3, <2>4 DEF ScopeInv, git
<1>3. CASE ReturnCall(c)
  BY <1>3 DEF ReturnCall, NotLoaded, ScopeInv, git
<1> QED BY <1>1, <1>2, <1>3 DEF CallStep

(* Humans and merges bring no edit of an agent. *)
LEMMA WorldKeepsScope ==
  ASSUME GitTypeOK, ScopeInv, WorldStep
  PROVE  ScopeInv'
<1> USE DEF GitTypeOK
<1>1. ASSUME NEW h \in HumanEdits, CommitOnTarget(h)
      PROVE  ScopeInv'
  <2>1. Clean(target \cup {h})
    BY CleanWithMark DEF ScopeInv
  <2> QED BY <1>1, <2>1 DEF CommitOnTarget, ScopeInv
<1>2. ASSUME NEW h \in HumanEdits, NEW i \in Integrations,
             CommitOnIntegration(i, h)
      PROVE  ScopeInv'
  <2>1. Clean(head[i] \cup {h})
    BY CleanWithMark DEF ScopeInv
  <2>2. \A j \in Integrations : Clean(head'[j])
    BY <1>2, <2>1 DEF CommitOnIntegration, ScopeInv
  <2> QED BY <1>2, <2>2 DEF CommitOnIntegration, ScopeInv
<1>3. ASSUME NEW i \in Integrations, UpdateIntegration(i)
      PROVE  ScopeInv'
  <2>1. Clean(head[i] \cup target)
    BY CleanUnion DEF ScopeInv
  <2>2. \A j \in Integrations : Clean(head'[j])
    BY <1>3, <2>1 DEF UpdateIntegration, ScopeInv
  <2> QED BY <1>3, <2>2 DEF UpdateIntegration, ScopeInv
<1>4. ASSUME NEW label \in {NoLabel, target}, PublishTarget(label)
      PROVE  ScopeInv'
  BY <1>4, NoRecordKeepsScope DEF PublishTarget, git
<1>5. CASE Restart
  BY <1>5 DEF Restart, ScopeInv, Free, git
<1> QED BY <1>1, <1>2, <1>3, <1>4, <1>5 DEF WorldStep

(* ScopeInv is inductive, given the types. *)
LEMMA StepKeepsScope == GitTypeOK /\ ScopeInv /\ [GitNext]_gitVars => ScopeInv'
<1> SUFFICES ASSUME GitTypeOK, ScopeInv, [GitNext]_gitVars PROVE ScopeInv'
  OBVIOUS
<1>1. CASE UNCHANGED gitVars
  BY <1>1 DEF ScopeInv, gitVars, git
<1>2. CASE GitNext
  BY <1>2, WorkspaceKeepsScope, IntegrationKeepsScope, OperationKeepsScope,
     CallKeepsScope, WorldKeepsScope DEF GitNext
<1> QED BY <1>1, <1>2

(* No edit outside the scope its agent was given reaches the target. *)
THEOREM TargetStaysInScope == GitSpec => []TargetInScope
<1>1. GitInit => ScopeInv
  BY DEF GitInit, ScopeInv, RowsInScope, RowInScope, Clean, EmptyRegistry,
         Root, NotLoaded, Free
<1>2. ScopeInv => TargetInScope
  BY DEF ScopeInv, Clean, TargetInScope
<1> QED BY <1>1, <1>2, GitTypeCorrect, StepKeepsScope, PTL DEF GitSpec

-----------------------------------------------------------------------------
(* The merge                                                               *)

(* Marks that come into being once, on one branch. *)
Stamps == HumanEdits \cup Integrations

(* Integrations start empty; a stamp is on one branch until it reaches the *)
(* target, and a branch that is ahead of the target is so by a stamp; what *)
(* agents have was once the target, but for their own edits.               *)
HeadsInv ==
  /\ \A i \in Integrations :
       trees[i] = "NEVER" => head[i] = {} /\ i \notin target
  /\ \A i \in Integrations : head[i] \cap Integrations \subseteq target \cup {i}
  /\ \A i, j \in Integrations :
       i # j => head[i] \cap head[j] \cap Stamps \subseteq target
  /\ \A i \in Integrations :
       head[i] \subseteq target \/ (head[i] \ target) \cap Stamps # {}
  /\ \A w \in Workspaces : branch[w] \cap Stamps \subseteq target

(* What the row of an integration says of its heads and its merge.  Since  *)
(* it was built the target has stayed, or has got a stamp that the built   *)
(* head does not have or that is the merge commit itself.                  *)
RowBuilt(row, i) ==
  /\ row.head \subseteq head[i]
  /\ row.head \cap Stamps \subseteq row.target \cup {i}
  /\ \/ target = row.target
     \/ \E m \in Stamps \cap target : m \notin row.head \/ m = i

RowMerged(row) ==
  row.publication # "NOT_PUBLISHED" =>
    /\ row.head \subseteq row.merged
    /\ row.merged \subseteq target
    /\ row.publication = "OBSERVED" =>
         \E r \in 1..Current : /\ published[r].label = row.merged
                               /\ row.head \subseteq published[r].content

RegistryReal(r) ==
  /\ \A w \in Workspaces : r.ws[w].submitted \cap Stamps \subseteq target
  /\ \A i \in Integrations : RowBuilt(r.ints[i], i) /\ RowMerged(r.ints[i])

(* What the operation that holds the lock has seen and not yet recorded.   *)
OperationReal ==
  /\ op.kind = "allocate" =>
       /\ op.what \in Workspaces => op.row.submitted \cap Stamps \subseteq target
       /\ op.what \in Integrations => RowBuilt(op.row, op.what) /\ RowMerged(op.row)
  /\ op.kind = "merge" =>
       /\ memory.ints[op.int].eligible
       /\ op.moved => memory.ints[op.int].head \subseteq target
  /\ op.kind \in {"observe", "observed"} =>
       memory.ints[op.int].publication # "NOT_PUBLISHED"
  /\ op.kind = "observed" /\ op.result # 0 =>
       /\ op.result \in 1..Current
       /\ memory.ints[op.int].head \subseteq published[op.result].content

MergeInv ==
  /\ HeadsInv
  /\ 1 \in 1..Current
  /\ RegistryReal(memory)
  /\ RegistryReal(file)
  /\ \A c \in Calls : calls[c].loaded => RegistryReal(calls[c].registry)
  /\ OperationReal

(* What commits and revisions do: the target grows by a stamp or not at    *)
(* all, the branches of integrations grow, revisions are only added.       *)
Grows ==
  /\ target \subseteq target'
  /\ target' = target \/ \E m \in Stamps : m \in target' /\ m \notin target
  /\ \A i \in Integrations : head[i] \subseteq head'[i]
  /\ \A r \in 1..Current : r \in 1..Current' /\ published'[r] = published[r]

(* What a registry says stays true as they grow. *)
LEMMA BuiltStays ==
  ASSUME Grows, NEW i \in Integrations, NEW row, RowBuilt(row, i)
  PROVE  RowBuilt(row, i)'
<1>1. \/ target' = row.target
      \/ \E m \in Stamps \cap target' : m \notin row.head \/ m = i
  <2>1. CASE target = row.target
    BY <2>1 DEF Grows, RowBuilt
  <2>2. CASE \E m \in Stamps \cap target : m \notin row.head \/ m = i
    BY <2>2 DEF Grows
  <2> QED BY <2>1, <2>2 DEF RowBuilt
<1>2. row.head \subseteq head'[i]
  BY DEF Grows, RowBuilt
<1> QED BY <1>1, <1>2 DEF RowBuilt, Stamps

(* So does what it says of a merge. *)
LEMMA MergedStays ==
  ASSUME Grows, NEW row, RowMerged(row)
  PROVE  RowMerged(row)'
BY DEF Grows, RowMerged, Current

(* So does the whole registry. *)
LEMMA RealStays ==
  ASSUME Grows, NEW r, RegistryReal(r)
  PROVE  RegistryReal(r)'
<1>1. \A w \in Workspaces : r.ws[w].submitted \cap Stamps \subseteq target'
  BY DEF Grows, RegistryReal
<1>2. ASSUME NEW i \in Integrations
      PROVE  RowBuilt(r.ints[i], i)' /\ RowMerged(r.ints[i])'
  BY BuiltStays, MergedStays DEF RegistryReal
<1> QED BY <1>1, <1>2 DEF RegistryReal, Stamps

(* Updates of the rows of workspaces. *)
LEMMA RealWorkspace ==
  ASSUME NEW r \in Registry, RegistryReal(r), NEW w \in Workspaces
  PROVE  /\ \A row \in WorkspaceRow : row.submitted \cap Stamps \subseteq target
              => RegistryReal([r EXCEPT !.ws[w] = row])
         /\ \A c \in Commit, b \in BOOLEAN : c \cap Stamps \subseteq target
              => RegistryReal([r EXCEPT !.ws[w].submitted = c,
                                        !.ws[w].inScope = b])
         /\ RegistryReal([r EXCEPT !.ws[w].status = "RETIRED"])
         /\ RegistryReal(Refresh(r, w))
<1> USE DEF RegistryReal, Registry
<1>1. ASSUME NEW row \in WorkspaceRow, row.submitted \cap Stamps \subseteq target
      PROVE  RegistryReal([r EXCEPT !.ws[w] = row])
  BY <1>1
<1>2. ASSUME NEW c \in Commit, NEW b \in BOOLEAN, c \cap Stamps \subseteq target
      PROVE  RegistryReal([r EXCEPT !.ws[w].submitted = c, !.ws[w].inScope = b])
  <2> DEFINE row == [r.ws[w] EXCEPT !.submitted = c, !.inScope = b]
  <2>1. [r EXCEPT !.ws[w].submitted = c, !.ws[w].inScope = b]
          = [r EXCEPT !.ws[w] = row]
    OBVIOUS
  <2>2. row.submitted = c
    BY DEF WorkspaceRow
  <2> HIDE DEF row
  <2> QED BY <1>2, <2>1, <2>2
<1>3. ASSUME NEW s
      PROVE  RegistryReal([r EXCEPT !.ws[w].status = s])
  <2> DEFINE row == [r.ws[w] EXCEPT !.status = s]
  <2>1. [r EXCEPT !.ws[w].status = s] = [r EXCEPT !.ws[w] = row]
    OBVIOUS
  <2>2. row.submitted = r.ws[w].submitted
    BY DEF WorkspaceRow
  <2> HIDE DEF row
  <2> QED BY <2>1, <2>2
<1>4. RegistryReal(Refresh(r, w))
  BY <1>3 DEF Refresh
<1> QED BY <1>1, <1>2, <1>3, <1>4

(* Updates of the rows of integrations: a row that was built and merged as *)
(* it says, and fields that say nothing about it.                          *)
LEMMA RealIntegration ==
  ASSUME NEW r \in Registry, RegistryReal(r), NEW i \in Integrations
  PROVE  /\ \A row \in IntegrationRow : RowBuilt(row, i) /\ RowMerged(row)
              => RegistryReal([r EXCEPT !.ints[i] = row])
         /\ \A b \in BOOLEAN : RegistryReal([r EXCEPT !.ints[i].eligible = b])
         /\ RegistryReal([r EXCEPT !.ints[i].status = "RETIRED"])
<1>1. ASSUME NEW row, RowBuilt(row, i) /\ RowMerged(row)
      PROVE  RegistryReal([r EXCEPT !.ints[i] = row])
  <2>1. /\ [r EXCEPT !.ints[i] = row].ws = r.ws
        /\ \A j \in Integrations :
             [r EXCEPT !.ints[i] = row].ints[j] = IF j = i THEN row ELSE r.ints[j]
    BY DEF Registry
  <2> QED BY <1>1, <2>1 DEF RegistryReal
<1>2. ASSUME NEW row,
             /\ row.head = r.ints[i].head /\ row.target = r.ints[i].target
             /\ row.merged = r.ints[i].merged
             /\ row.publication = r.ints[i].publication
      PROVE  RegistryReal([r EXCEPT !.ints[i] = row])
  <2>1. RowBuilt(row, i) /\ RowMerged(row)
    BY <1>2 DEF RegistryReal, RowBuilt, RowMerged
  <2> QED BY <1>1, <2>1
<1>3. r.ints[i] \in IntegrationRow
  BY DEF Registry
<1>4. ASSUME NEW b \in BOOLEAN
      PROVE  RegistryReal([r EXCEPT !.ints[i].eligible = b])
  <2> DEFINE row == [r.ints[i] EXCEPT !.eligible = b]
  <2>1. [r EXCEPT !.ints[i].eligible = b] = [r EXCEPT !.ints[i] = row]
    BY DEF Registry
  <2>2. /\ row.head = r.ints[i].head /\ row.target = r.ints[i].target
        /\ row.merged = r.ints[i].merged
        /\ row.publication = r.ints[i].publication
    BY <1>3 DEF IntegrationRow
  <2> HIDE DEF row
  <2> QED BY <1>2, <2>1, <2>2
<1>5. RegistryReal([r EXCEPT !.ints[i].status = "RETIRED"])
  <2> DEFINE row == [r.ints[i] EXCEPT !.status = "RETIRED"]
  <2>1. [r EXCEPT !.ints[i].status = "RETIRED"] = [r EXCEPT !.ints[i] = row]
    BY DEF Registry
  <2>2. /\ row.head = r.ints[i].head /\ row.target = r.ints[i].target
        /\ row.merged = r.ints[i].merged
        /\ row.publication = r.ints[i].publication
    BY <1>3 DEF IntegrationRow
  <2> HIDE DEF row
  <2> QED BY <1>2, <2>1, <2>2
<1> QED BY <1>1, <1>4, <1>5

(* A step that saves such a registry and ends its operation. *)
LEMMA SaveKeepsMerge ==
  ASSUME MergeInv, RegistryReal(memory'), file' \in {file, memory'},
         op' = Free, UNCHANGED <<git, calls, published>>
  PROVE  MergeInv'
<1>1. HeadsInv' /\ OperationReal' /\ 1 \in 1..Current'
  BY DEF MergeInv, HeadsInv, OperationReal, git, Free, Stamps, Current
<1>2. ASSUME NEW r, RegistryReal(r)
      PROVE  RegistryReal(r)'
  BY <1>2 DEF RegistryReal, RowBuilt, RowMerged, Current, Stamps, git
<1>3. RegistryReal(memory)'
  BY DEF RegistryReal, RowBuilt, RowMerged, Current, Stamps, git
<1>4. RegistryReal(file)'
  BY <1>3 DEF MergeInv, RegistryReal, RowBuilt, RowMerged, Current, Stamps, git
<1>5. (\A c \in Calls : calls[c].loaded => RegistryReal(calls[c].registry))'
  BY DEF MergeInv, RegistryReal, RowBuilt, RowMerged, Current, Stamps, git
<1> QED BY <1>1, <1>3, <1>4, <1>5 DEF MergeInv

(* A step that writes no registry. *)
LEMMA NoRecordKeepsMerge ==
  ASSUME MergeInv, Grows, HeadsInv', OperationReal',
         UNCHANGED <<memory, file, calls>>
  PROVE  MergeInv'
<1>1. RegistryReal(memory)'
  <2>1. PICK r : r = memory
    OBVIOUS
  <2>2. RegistryReal(r)'
    BY <2>1, RealStays DEF MergeInv
  <2> QED BY <2>1, <2>2 DEF RegistryReal, RowBuilt, RowMerged
<1>2. RegistryReal(file)'
  <2>1. PICK r : r = file
    OBVIOUS
  <2>2. RegistryReal(r)'
    BY <2>1, RealStays DEF MergeInv
  <2> QED BY <2>1, <2>2 DEF RegistryReal, RowBuilt, RowMerged
<1>3. ASSUME NEW c \in Calls, calls'[c].loaded
      PROVE  RegistryReal(calls[c].registry)'
  <2>1. PICK r : r = calls[c].registry
    OBVIOUS
  <2>2. RegistryReal(r)'
    BY <1>3, <2>1, RealStays DEF MergeInv
  <2> QED BY <2>1, <2>2 DEF RegistryReal, RowBuilt, RowMerged
<1>4. 1 \in 1..Current'
  BY DEF MergeInv, Grows
<1> QED BY <1>1, <1>2, <1>3, <1>4 DEF MergeInv

(* What the operation has seen stays so. *)
LEMMA OperationStays ==
  ASSUME OperationReal, Grows, op' = op, memory' = memory
  PROVE  OperationReal'
<1>1. op.kind = "allocate" =>
        /\ op.what \in Workspaces => op.row.submitted \cap Stamps \subseteq target'
        /\ op.what \in Integrations =>
             (RowBuilt(op.row, op.what) /\ RowMerged(op.row))'
  <2>1. CASE op.kind = "allocate" /\ op.what \in Integrations
    <3>0. PICK row : row = op.row
      OBVIOUS
    <3>1. PICK j \in Integrations : row = op.row /\ j = op.what
      BY <2>1, <3>0
    <3>2. RowBuilt(row, j) /\ RowMerged(row)
      BY <2>1, <3>1 DEF OperationReal
    <3>3. RowBuilt(row, j)' /\ RowMerged(row)'
      BY <3>2, BuiltStays, MergedStays
    <3>4. (RowBuilt(op.row, op.what) /\ RowMerged(op.row))'
      BY <3>1, <3>3 DEF RowBuilt, RowMerged
    <3>5. op.what \in Workspaces => op.row.submitted \cap Stamps \subseteq target'
      BY <2>1 DEF OperationReal, Grows
    <3> QED BY <3>4, <3>5
  <2>2. CASE op.kind = "allocate" /\ op.what \notin Integrations
    BY <2>2 DEF OperationReal, Grows
  <2> QED BY <2>1, <2>2
<1>2. op.kind = "merge" =>
        /\ memory.ints[op.int].eligible
        /\ op.moved => memory.ints[op.int].head \subseteq target'
  BY DEF OperationReal, Grows
<1>3. op.kind = "observed" /\ op.result # 0 =>
        /\ op.result \in 1..Current'
        /\ memory.ints[op.int].head \subseteq published'[op.result].content
  BY DEF OperationReal, Grows
<1> QED BY <1>1, <1>2, <1>3 DEF OperationReal, Stamps

(* Steps that touch neither commits nor revisions. *)
LEMMA NothingGrows ==
  ASSUME UNCHANGED <<target, head, published>>
  PROVE  Grows
BY DEF Grows, Current

(* The steps on a workspace keep the invariant: what an agent starts from  *)
(* is the target, and its own edits are no stamps.                         *)
LEMMA WorkspaceKeepsMerge ==
  ASSUME GitTypeOK, MergeInv, NEW w \in Workspaces, WorkspaceStep(w)
  PROVE  MergeInv'
<1> USE DEF GitTypeOK
<1>0. RegistryReal(memory) /\ HeadsInv /\ OperationReal
  BY DEF MergeInv
<1>1. ASSUME NEW agent \in Agents, NEW task \in Tasks,
             CreateAgentWorktree(w, agent, task)
      PROVE  MergeInv'
  <2> DEFINE row == [status |-> "LIVE", agent |-> agent, task |-> task,
                     base |-> target, submitted |-> target, inScope |-> FALSE]
  <2>1. /\ op' = [kind |-> "allocate", what |-> w, row |-> row]
        /\ branch' = [branch EXCEPT ![w] = target]
        /\ trees' = [trees EXCEPT ![w] = "PRESENT"]
        /\ UNCHANGED <<target, head, memory, file, calls, published>>
    BY <1>1 DEF CreateAgentWorktree, Allocate
  <2>2. w \notin Integrations /\ w \in Managed
    BY GitAssumption DEF Managed
  <2>3. \A i \in Integrations : trees'[i] = trees[i]
    BY <2>1, <2>2 DEF Managed
  <2>4. \A v \in Workspaces : branch'[v] \cap Stamps \subseteq target
    BY <1>0, <2>1 DEF HeadsInv
  <2>5. HeadsInv'
    BY <1>0, <2>1, <2>3, <2>4 DEF HeadsInv, Stamps
  <2>6. /\ op'.kind = "allocate" /\ op'.what = w
        /\ op'.row.submitted = target
    BY <2>1
  <2>7. OperationReal'
    BY <2>1, <2>2, <2>6 DEF OperationReal, Stamps
  <2> QED BY <2>1, <2>5, <2>7, NothingGrows, NoRecordKeepsMerge
<1>2. CASE AgentCommit(w)
  <2>1. PICK e \in EditsOf(w) : branch' = [branch EXCEPT ![w] = @ \cup {e}]
    BY <1>2 DEF AgentCommit
  <2>2. e \notin Stamps
    BY GitAssumption DEF EditsOf, Stamps
  <2>3. \A v \in Workspaces : branch'[v] \cap Stamps \subseteq target
    BY <1>0, <2>1, <2>2 DEF HeadsInv
  <2>4. UNCHANGED <<target, head, trees, memory, file, calls, op, published>>
    BY <1>2 DEF AgentCommit
  <2>5. HeadsInv'
    BY <1>0, <2>3, <2>4 DEF HeadsInv, Stamps
  <2>6. Grows /\ OperationReal'
    BY <1>0, <2>4, NothingGrows, OperationStays
  <2> QED BY <2>4, <2>5, <2>6, NoRecordKeepsMerge
<1>3. CASE SubmitCommittedResult(w)
  <2> DEFINE b == Violations(w, branch[w]) = {}
             r == [memory EXCEPT !.ws[w].submitted = branch[w],
                                 !.ws[w].inScope = b]
  <2>1. branch[w] \in Commit /\ b \in BOOLEAN /\ branch[w] \cap Stamps \subseteq target
    BY <1>0 DEF HeadsInv
  <2>2. Save(r) /\ op = Free /\ UNCHANGED <<git, calls, op, published>>
    BY <1>3 DEF SubmitCommittedResult
  <2> HIDE DEF b
  <2>3. RegistryReal(r)
    BY <1>0, <2>1, RealWorkspace
  <2> HIDE DEF r
  <2>4. RegistryReal(memory')
    BY <2>2, <2>3 DEF Save
  <2> QED BY <2>2, <2>4, SaveKeepsMerge DEF Save
<1>4. CASE Inspect(w)
  <2>1. RegistryReal(Refresh(memory, w))
    BY <1>0, RealWorkspace
  <2>2. RegistryReal(memory')
    BY <1>4, <2>1 DEF Inspect, Save
  <2> QED BY <1>4, <2>2, SaveKeepsMerge DEF Inspect, Save
<1>5. CASE RetireWorktree(w)
  <2>1. /\ trees' = [trees EXCEPT ![w] = "REMOVED"]
        /\ op' = [kind |-> "retire", what |-> w]
        /\ UNCHANGED <<target, branch, head, memory, file, calls, published>>
    BY <1>5 DEF RetireWorktree, Remove
  <2>2. \A i \in Integrations : trees'[i] = trees[i]
    BY <2>1, GitAssumption
  <2>3. HeadsInv'
    BY <1>0, <2>1, <2>2 DEF HeadsInv, Stamps
  <2>4. op'.kind = "retire"
    BY <2>1
  <2>5. OperationReal'
    BY <2>4 DEF OperationReal
  <2> QED BY <2>1, <2>3, <2>5, NothingGrows, NoRecordKeepsMerge
<1> QED BY <1>1, <1>2, <1>3, <1>4, <1>5 DEF WorkspaceStep

(* What an integration is built from was the target once, so its only      *)
(* stamp of its own is its merge commit.                                   *)
LEMMA CreateKeepsMerge ==
  ASSUME GitTypeOK, MergeInv, NEW i \in Integrations,
         NEW candidates \in SUBSET Workspaces, CreateIntegration(i, candidates)
  PROVE  MergeInv'
<1> USE DEF GitTypeOK
<1>0. RegistryReal(memory) /\ HeadsInv
  BY DEF MergeInv
<1> DEFINE commit == [w \in Workspaces |-> memory.ws[w].submitted]
           merge(members) == UNION {commit[w] : w \in members}
           new(members) == IF merge(members) \subseteq target THEN target
                           ELSE target \cup merge(members) \cup {i}
           row(members) ==
             [status |-> "OPEN", target |-> target, head |-> new(members),
              clean |-> members = candidates, eligible |-> FALSE,
              merged |-> Root, publication |-> "NOT_PUBLISHED"]
<1>1. PICK members \in SUBSET candidates :
        /\ head' = [head EXCEPT ![i] = new(members)]
        /\ Allocate(i, row(members))
  BY DEF CreateIntegration, IntegrateCommits
<1>2. /\ op' = [kind |-> "allocate", what |-> i, row |-> row(members)]
      /\ trees' = [trees EXCEPT ![i] = "PRESENT"]
      /\ UNCHANGED <<target, branch, memory, file, calls, published>>
  BY <1>1 DEF Allocate, CreateIntegration, IntegrateCommits
<1>3. merge(members) \cap Stamps \subseteq target
  BY <1>0 DEF RegistryReal
<1> HIDE DEF merge
<1>4. /\ target \subseteq new(members) \/ new(members) = target
      /\ new(members) \cap Stamps \subseteq target \cup {i}
      /\ new(members) \subseteq target \/ i \in new(members)
  BY <1>3
<1>5. head[i] = {} /\ i \notin target /\ i \in Stamps
  BY <1>0 DEF CreateIntegration, IntegrateCommits, HeadsInv, Stamps
<1> DEFINE built == new(members)
<1>6. /\ op'.kind = "allocate" /\ op'.what = i
      /\ op'.row.head = built /\ op'.row.target = target
      /\ op'.row.publication = "NOT_PUBLISHED"
  BY <1>2
<1>7. head' = [head EXCEPT ![i] = built]
  BY <1>1
<1>8. /\ built \cap Stamps \subseteq target \cup {i}
      /\ built \subseteq target \/ i \in built
  BY <1>4
<1> HIDE DEF built, new, row
<1>9. /\ head'[i] = built
      /\ \A j \in Integrations : j # i => head'[j] = head[j]
      /\ \A j \in Integrations : trees'[j] = "NEVER" => trees[j] = "NEVER" /\ j # i
  BY <1>2, <1>7 DEF Managed
<1>10. Grows
  BY <1>2, <1>5, <1>9 DEF Grows, Current
<1>11. HeadsInv'
  <2>1. \A j \in Integrations :
          trees'[j] = "NEVER" => head'[j] = {} /\ j \notin target
    BY <1>0, <1>9 DEF HeadsInv
  <2>2. \A j \in Integrations :
          head'[j] \cap Integrations \subseteq target \cup {j}
    BY <1>0, <1>8, <1>9 DEF HeadsInv, Stamps
  <2>3. ASSUME NEW j \in Integrations, NEW k \in Integrations, j # k
        PROVE  head'[j] \cap head'[k] \cap Stamps \subseteq target
    <3>1. CASE j = i
      <4>1. head[k] \cap Integrations \subseteq target \cup {k} /\ k # i
        BY <1>0, <2>3, <3>1 DEF HeadsInv
      <4> QED BY <1>8, <1>9, <3>1, <4>1
    <3>2. CASE k = i
      <4>1. head[j] \cap Integrations \subseteq target \cup {j} /\ j # i
        BY <1>0, <2>3, <3>2 DEF HeadsInv
      <4> QED BY <1>8, <1>9, <3>2, <4>1
    <3>3. CASE j # i /\ k # i
      BY <1>0, <1>9, <2>3, <3>3 DEF HeadsInv
    <3> QED BY <3>1, <3>2, <3>3
  <2>4. \A j \in Integrations :
          head'[j] \subseteq target \/ (head'[j] \ target) \cap Stamps # {}
    <3>1. built \subseteq target \/ (built \ target) \cap Stamps # {}
      BY <1>5, <1>8
    <3> QED BY <1>0, <1>9, <3>1 DEF HeadsInv
  <2> QED BY <1>0, <1>2, <2>1, <2>2, <2>3, <2>4 DEF HeadsInv, Stamps
<1>12. OperationReal'
  <2>1. i \notin Workspaces
    BY GitAssumption
  <2> QED BY <1>2, <1>6, <1>8, <1>9, <2>1
          DEF OperationReal, RowBuilt, RowMerged, Stamps
<1> QED BY <1>2, <1>10, <1>11, <1>12, NoRecordKeepsMerge

(* The target is fast-forwarded to the branch of an integration, or it     *)
(* already holds that branch.                                              *)
LEMMA FastForwardKeepsMerge ==
  ASSUME GitTypeOK, MergeInv, NEW i \in Integrations, FastForward(i)
  PROVE  MergeInv'
<1>0. RegistryReal(memory) /\ HeadsInv /\ OperationReal
  BY DEF MergeInv
<1>1. /\ target' = head[i] \/ target' = target
      /\ target \subseteq target' /\ head[i] \subseteq target'
      /\ op.kind = "merge" /\ op.int = i
      /\ op' = [op EXCEPT !.moved = TRUE]
      /\ UNCHANGED <<branch, head, trees, memory, file, calls, published>>
  BY DEF FastForward, Moved
<1>2. Grows
  <2>1. head[i] \subseteq target \/ (head[i] \ target) \cap Stamps # {}
    BY <1>0 DEF HeadsInv
  <2>2. CASE head[i] \subseteq target
    <3>1. target' = target
      BY <1>1, <2>2
    <3> QED BY <1>1, <3>1 DEF Grows, Current
  <2>3. CASE (head[i] \ target) \cap Stamps # {}
    <3>1. PICK m \in Stamps : m \in head[i] /\ m \notin target
      BY <2>3
    <3>2. m \in target'
      BY <1>1, <3>1
    <3> QED BY <1>1, <3>1, <3>2 DEF Grows, Current
  <2> QED BY <2>1, <2>2, <2>3
<1>3. HeadsInv'
  <2>1. ASSUME NEW j \in Integrations, trees[j] = "NEVER"
        PROVE  head[j] = {} /\ j \notin target'
    <3>1. head[j] = {} /\ j \notin target
      BY <1>0, <2>1 DEF HeadsInv
    <3>2. head[i] \cap Integrations \subseteq target \cup {i}
      BY <1>0 DEF HeadsInv
    <3> QED BY <1>1, <3>1, <3>2
  <2>2. ASSUME NEW j \in Integrations
        PROVE  head[j] \subseteq target' \/ (head[j] \ target') \cap Stamps # {}
    <3>1. CASE j = i
      BY <1>1, <3>1
    <3>2. CASE j # i
      <4>1. head[j] \cap head[i] \cap Stamps \subseteq target
        BY <1>0, <3>2 DEF HeadsInv
      <4>2. head[j] \subseteq target \/ (head[j] \ target) \cap Stamps # {}
        BY <1>0 DEF HeadsInv
      <4> QED BY <1>1, <4>1, <4>2
    <3> QED BY <3>1, <3>2
  <2>3. \A j \in Integrations :
          head[j] \cap Integrations \subseteq target' \cup {j}
    BY <1>0, <1>1 DEF HeadsInv
  <2>4. \A j, k \in Integrations :
          j # k => head[j] \cap head[k] \cap Stamps \subseteq target'
    BY <1>0, <1>1 DEF HeadsInv
  <2>5. \A w \in Workspaces : branch[w] \cap Stamps \subseteq target'
    BY <1>0, <1>1 DEF HeadsInv
  <2> QED BY <1>1, <2>1, <2>2, <2>3, <2>4, <2>5 DEF HeadsInv, Stamps
<1>4. OperationReal'
  <2>1. op \in [kind : {"merge"}, int : Integrations, moved : BOOLEAN]
    BY <1>1, OperationFields DEF GitTypeOK
  <2>2. op'.kind = "merge" /\ op'.int = i
    BY <1>1, <2>1
  <2>3. memory.ints[i].eligible
    BY <1>0, <1>1 DEF OperationReal
  <2>4. memory.ints[i].head \subseteq target'
    BY <1>0, <1>1 DEF RegistryReal, RowBuilt
  <2> QED BY <1>1, <2>2, <2>3, <2>4 DEF OperationReal
<1> QED BY <1>1, <1>2, <1>3, <1>4, NoRecordKeepsMerge

(* The other steps on an integration write only what its audit found.      *)
LEMMA IntegrationKeepsMerge ==
  ASSUME GitTypeOK, MergeInv, NEW i \in Integrations, IntegrationStep(i)
  PROVE  MergeInv'
<1> USE DEF GitTypeOK
<1>0. RegistryReal(memory) /\ HeadsInv /\ OperationReal
  BY DEF MergeInv
<1>1. ASSUME NEW candidates \in SUBSET Workspaces,
             CreateIntegration(i, candidates)
      PROVE  MergeInv'
  BY <1>1, CreateKeepsMerge
<1>2. RegistryReal([memory EXCEPT !.ints[i].eligible = FALSE])
  BY <1>0, RealIntegration
<1>3. ASSUME UNCHANGED <<git, memory, file, calls, published>>, OperationReal'
      PROVE  MergeInv'
  <2>1. HeadsInv'
    BY <1>0, <1>3 DEF HeadsInv, Stamps, git
  <2> QED BY <1>3, <2>1, NothingGrows, NoRecordKeepsMerge DEF git
<1>4. CASE BeginAudit(i)
  <2>1. CASE HeadAsBuilt(i) /\ TargetAsBuilt(i)
    <3>1. op' = [kind |-> "audit", int |-> i, before |-> Current]
      BY <1>4, <2>1 DEF BeginAudit
    <3>2. op'.kind = "audit"
      BY <3>1
    <3>3. OperationReal'
      BY <3>2 DEF OperationReal
    <3> QED BY <1>3, <1>4, <2>1, <3>3 DEF BeginAudit
  <2>2. CASE ~(HeadAsBuilt(i) /\ TargetAsBuilt(i))
    <3>1. /\ memory' = [memory EXCEPT !.ints[i].eligible = FALSE]
          /\ op' = Free /\ UNCHANGED <<git, file, calls, published>>
      BY <1>4, <2>2 DEF BeginAudit
    <3>2. RegistryReal(memory')
      BY <1>2, <3>1
    <3> QED BY <3>1, <3>2, SaveKeepsMerge
  <2> QED BY <2>1, <2>2
<1>5. CASE ProjectMerge(i)
  <2>1. RegistryReal(memory')
    BY <1>2, <1>5 DEF ProjectMerge, Save
  <2> QED BY <1>5, <2>1, SaveKeepsMerge DEF ProjectMerge, Save
<1>6. CASE BeginMerge(i)
  <2>1. CASE TargetAsBuilt(i) /\ HeadAsBuilt(i)
    <3>1. /\ op' = [kind |-> "merge", int |-> i, moved |-> FALSE]
          /\ memory.ints[i].eligible
          /\ UNCHANGED <<git, memory, file, calls, published>>
      BY <1>6, <2>1 DEF BeginMerge
    <3>2. op'.kind = "merge" /\ op'.int = i /\ op'.moved = FALSE
      BY <3>1
    <3>3. OperationReal'
      BY <3>1, <3>2 DEF OperationReal
    <3> QED BY <1>3, <3>1, <3>3
  <2>2. CASE ~(TargetAsBuilt(i) /\ HeadAsBuilt(i))
    <3>1. /\ Save([memory EXCEPT !.ints[i].eligible = FALSE])
          /\ op' = Free /\ UNCHANGED <<git, calls, published>>
      BY <1>6, <2>2 DEF BeginMerge
    <3>2. RegistryReal(memory')
      BY <1>2, <3>1 DEF Save
    <3> QED BY <3>1, <3>2, SaveKeepsMerge DEF Save
  <2> QED BY <2>1, <2>2
<1>7. CASE FastForward(i)
  BY <1>7, FastForwardKeepsMerge
<1>8. CASE BeginObserve(i)
  <2>1. op' = [kind |-> "observe", int |-> i, before |-> Current]
    BY <1>8 DEF BeginObserve
  <2>2. op'.kind = "observe" /\ op'.int = i
    BY <2>1
  <2>3. OperationReal'
    BY <1>8, <2>2 DEF OperationReal, BeginObserve
  <2> QED BY <1>3, <1>8, <2>3 DEF BeginObserve
<1>9. CASE RetireIntegration(i)
  <2>1. /\ trees' = [trees EXCEPT ![i] = "REMOVED"]
        /\ op' = [kind |-> "retire", what |-> i]
        /\ UNCHANGED <<target, branch, head, memory, file, calls, published>>
    BY <1>9 DEF RetireIntegration, Remove
  <2>2. \A j \in Integrations : trees'[j] = "NEVER" => trees[j] = "NEVER"
    BY <2>1 DEF Managed
  <2>3. HeadsInv'
    BY <1>0, <2>1, <2>2 DEF HeadsInv, Stamps
  <2>4. op'.kind = "retire"
    BY <2>1
  <2>5. OperationReal'
    BY <2>4 DEF OperationReal
  <2> QED BY <2>1, <2>3, <2>5, NothingGrows, NoRecordKeepsMerge
<1> QED BY <1>1, <1>4, <1>5, <1>6, <1>7, <1>8, <1>9 DEF IntegrationStep

(* An appended revision leaves the earlier ones. *)
LEMMA AppendGrows ==
  ASSUME GitTypeOK, NEW revision, published' = Append(published, revision),
         UNCHANGED <<target, head>>
  PROVE  /\ Grows
         /\ Current' = Current + 1 /\ Current \in Nat
         /\ published'[Current + 1] = revision
<1>1. /\ Len(published') = Len(published) + 1
      /\ \A r \in 1..Len(published) : published'[r] = published[r]
      /\ published'[Len(published) + 1] = revision
  BY DEF GitTypeOK
<1>2. Len(published) \in Nat
  BY DEF GitTypeOK
<1> QED BY <1>1, <1>2 DEF Grows, Current

(* What an operation has seen is what it records; what it records of a     *)
(* merge git has done, and what it indexes is the target.                  *)
LEMMA OperationKeepsMerge ==
  ASSUME GitTypeOK, MergeInv, OperationStep
  PROVE  MergeInv'
<1> USE DEF GitTypeOK
<1>0. RegistryReal(memory) /\ HeadsInv /\ OperationReal
  BY DEF MergeInv
<1>1. CASE RecordWorkspace
  <2>1. /\ op.what \in Workspaces /\ op.row \in WorkspaceRow
        /\ op.row.submitted \cap Stamps \subseteq target
    BY <1>0, <1>1, OperationFields DEF RecordWorkspace, OperationReal
  <2>2. RegistryReal([memory EXCEPT !.ws[op.what] = op.row])
    BY <1>0, <2>1, RealWorkspace
  <2>3. RegistryReal(memory')
    BY <1>1, <2>2 DEF RecordWorkspace, Save
  <2> QED BY <1>1, <2>3, SaveKeepsMerge DEF RecordWorkspace, Save
<1>2. CASE RecordIntegration
  <2>1. /\ op.what \in Integrations /\ op.row \in IntegrationRow
        /\ RowBuilt(op.row, op.what) /\ RowMerged(op.row)
    BY <1>0, <1>2, OperationFields DEF RecordIntegration, OperationReal
  <2>2. RegistryReal([memory EXCEPT !.ints[op.what] = op.row])
    BY <1>0, <2>1, RealIntegration
  <2>3. RegistryReal(memory')
    BY <1>2, <2>2 DEF RecordIntegration, Save
  <2> QED BY <1>2, <2>3, SaveKeepsMerge DEF RecordIntegration, Save
<1>3. CASE TestCandidate
  <2>1. op \in [kind : {"audit", "tested", "observe"}, int : Integrations,
                before : Counts]
    BY <1>3, OperationFields DEF TestCandidate
  <2>2. op' = [op EXCEPT !.kind = "tested"]
    BY <1>3 DEF TestCandidate
  <2>3. op'.kind = "tested"
    BY <2>1, <2>2
  <2>4. OperationReal' /\ HeadsInv'
    BY <1>0, <1>3, <2>3 DEF OperationReal, TestCandidate, HeadsInv, Stamps, git
  <2> QED BY <1>3, <2>4, NothingGrows, NoRecordKeepsMerge DEF TestCandidate, git
<1>4. CASE EndAudit
  <2>1. op.int \in Integrations
    BY <1>4, OperationFields DEF EndAudit
  <2>2. PICK eligible \in BOOLEAN :
          Save([memory EXCEPT !.ints[op.int].eligible = eligible])
    BY <1>4 DEF EndAudit
  <2>3. RegistryReal([memory EXCEPT !.ints[op.int].eligible = eligible])
    BY <1>0, <2>1, RealIntegration
  <2>4. RegistryReal(memory')
    BY <2>2, <2>3 DEF Save
  <2> QED BY <1>4, <2>2, <2>4, SaveKeepsMerge DEF EndAudit, Save
<1>5. CASE RecordMerge
  <2> DEFINE i == op.int
             row == [memory.ints[i] EXCEPT !.merged = target,
                                           !.publication = "PENDING"]
  <2>1. i \in Integrations /\ target \in Commit
    BY <1>5, OperationFields DEF RecordMerge
  <2>2. memory.ints[i] \in IntegrationRow
    BY <2>1 DEF Registry
  <2>3. /\ row.head = memory.ints[i].head /\ row.target = memory.ints[i].target
        /\ row.merged = target /\ row.publication = "PENDING"
    BY <2>2 DEF IntegrationRow
  <2>4. row \in IntegrationRow
    BY <2>1, <2>2 DEF IntegrationRow, Publication
  <2>5. [memory EXCEPT !.ints[i].merged = target, !.ints[i].publication = "PENDING"]
          = [memory EXCEPT !.ints[i] = row]
    BY <2>1, <2>2 DEF Registry
  <2>6. memory.ints[i].head \subseteq target
    BY <1>0, <1>5 DEF RecordMerge, OperationReal
  <2>7. RowBuilt(memory.ints[i], i)
    BY <1>0, <2>1 DEF RegistryReal
  <2> HIDE DEF row
  <2>8. RowBuilt(row, i) /\ RowMerged(row)
    BY <2>3, <2>6, <2>7 DEF RowBuilt, RowMerged
  <2>9. RegistryReal([memory EXCEPT !.ints[i] = row])
    BY <1>0, <2>1, <2>4, <2>8, RealIntegration
  <2>10. RegistryReal(memory')
    BY <1>5, <2>5, <2>9 DEF RecordMerge, Save
  <2> QED BY <1>5, <2>10, SaveKeepsMerge DEF RecordMerge, Save
<1>6. CASE IndexMerged
  <2> DEFINE i == op.int
             revision == [label |-> memory.ints[i].merged, content |-> target]
  <2>1. /\ i \in Integrations
        /\ memory.ints[i].publication # "NOT_PUBLISHED"
    BY <1>0, <1>6, OperationFields DEF IndexMerged, OperationReal
  <2>2. memory.ints[i].head \subseteq revision.content
    BY <1>0, <2>1 DEF RegistryReal, RowMerged
  <2>3. /\ UNCHANGED <<git, memory, file, calls>>
        /\ \/ published' = Append(published, revision) /\ Indexed(Current + 1)
           \/ published[Current] = revision /\ Indexed(Current) /\ UNCHANGED published
    BY <1>6 DEF IndexMerged
  <2> HIDE DEF revision
  <2>4. Grows /\ \E n \in 1..Current' : Indexed(n) /\ published'[n] = revision
    <3>1. CASE published' = Append(published, revision) /\ Indexed(Current + 1)
      <4>1. /\ Grows /\ Current' = Current + 1 /\ Current \in Nat
            /\ published'[Current + 1] = revision
        BY <2>3, <3>1, AppendGrows DEF git
      <4>2. Current + 1 \in 1..Current'
        BY <4>1
      <4> QED BY <3>1, <4>1, <4>2
    <3>2. CASE published[Current] = revision /\ Indexed(Current) /\ UNCHANGED published
      <4>1. Current \in 1..Current /\ Current' = Current
        BY <3>2 DEF MergeInv, Current
      <4>2. Grows /\ published' = published
        BY <2>3, <3>2, NothingGrows DEF git
      <4> QED BY <3>2, <4>1, <4>2
    <3> QED BY <2>3, <3>1, <3>2
  <2>5. PICK n \in 1..Current' : Indexed(n) /\ published'[n] = revision
    BY <2>4
  <2>6. op'.kind = "observed" /\ op'.int = i /\ op'.result = n
    BY <2>5 DEF Indexed
  <2>7. OperationReal'
    BY <2>1, <2>2, <2>3, <2>5, <2>6 DEF OperationReal
  <2>8. HeadsInv'
    BY <1>0, <2>3 DEF HeadsInv, Stamps, git
  <2> QED BY <2>3, <2>4, <2>7, <2>8, NoRecordKeepsMerge
<1>7. CASE IndexMergedFails
  <2>1. /\ memory.ints[op.int].publication # "NOT_PUBLISHED"
        /\ UNCHANGED <<git, memory, file, calls, published>>
        /\ Indexed(0)
    BY <1>0, <1>7 DEF IndexMergedFails, OperationReal
  <2>2. op'.kind = "observed" /\ op'.int = op.int /\ op'.result = 0
    BY <2>1 DEF Indexed
  <2>3. OperationReal' /\ HeadsInv'
    BY <1>0, <2>1, <2>2 DEF OperationReal, HeadsInv, Stamps, git
  <2> QED BY <2>1, <2>3, NothingGrows, NoRecordKeepsMerge DEF git
<1>8. CASE EndObserve
  <2> DEFINE i == op.int
  <2>1. i \in Integrations /\ memory.ints[i] \in IntegrationRow
    BY <1>8, OperationFields DEF EndObserve, Registry
  <2>2. PICK status \in {"OBSERVED", "NOT_OBSERVED", "VIOLATION"} :
          /\ status = "OBSERVED" => op.result # 0 /\ BoundToMerge(i, op.result)
          /\ Save([memory EXCEPT !.ints[i].publication = status])
    BY <1>8 DEF EndObserve
  <2> DEFINE row == [memory.ints[i] EXCEPT !.publication = status]
  <2>3. /\ row.head = memory.ints[i].head /\ row.target = memory.ints[i].target
        /\ row.merged = memory.ints[i].merged /\ row.publication = status
    BY <2>1 DEF IntegrationRow
  <2>4. row \in IntegrationRow
    BY <2>1 DEF IntegrationRow, Publication
  <2>5. [memory EXCEPT !.ints[i].publication = status]
          = [memory EXCEPT !.ints[i] = row]
    BY <2>1 DEF Registry
  <2> HIDE DEF row
  <2>6. RowBuilt(row, i)
    BY <1>0, <2>1, <2>3 DEF RegistryReal, RowBuilt
  <2>7. RowMerged(row)
    <3>1. /\ memory.ints[i].head \subseteq memory.ints[i].merged
          /\ memory.ints[i].merged \subseteq target
      BY <1>0, <1>8, <2>1 DEF RegistryReal, RowMerged, OperationReal, EndObserve
    <3>2. status = "OBSERVED" =>
            /\ op.result \in 1..Current
            /\ published[op.result].label = memory.ints[i].merged
            /\ memory.ints[i].head \subseteq published[op.result].content
      BY <1>0, <1>8, <2>2 DEF OperationReal, EndObserve, BoundToMerge
    <3> QED BY <2>3, <3>1, <3>2 DEF RowMerged
  <2>8. RegistryReal([memory EXCEPT !.ints[i] = row])
    BY <1>0, <2>1, <2>4, <2>6, <2>7, RealIntegration
  <2>9. RegistryReal(memory')
    BY <2>2, <2>5, <2>8 DEF Save
  <2> QED BY <1>8, <2>2, <2>9, SaveKeepsMerge DEF EndObserve, Save
<1>9. CASE RecordRetired
  <2>1. op.what \in Managed
    BY <1>9, OperationFields DEF RecordRetired
  <2>2. PICK r : Save(r) /\ RegistryReal(r)
    <3>1. CASE op.what \in Workspaces
      <4>1. RegistryReal([memory EXCEPT !.ws[op.what].status = "RETIRED"])
        BY <1>0, <3>1, RealWorkspace
      <4> QED BY <1>9, <3>1, <4>1 DEF RecordRetired, MarkRetired
    <3>2. CASE op.what \notin Workspaces
      <4>1. RegistryReal([memory EXCEPT !.ints[op.what].status = "RETIRED"])
        BY <1>0, <2>1, <3>2, RealIntegration DEF Managed
      <4> QED BY <1>9, <3>2, <4>1 DEF RecordRetired, MarkRetired
    <3> QED BY <3>1, <3>2
  <2>3. RegistryReal(memory')
    BY <2>2 DEF Save
  <2> QED BY <1>9, <2>2, <2>3, SaveKeepsMerge DEF RecordRetired, Save
<1>10. CASE Raise
  <2>1. op' = Free /\ UNCHANGED <<git, memory, file, calls, published>>
    BY <1>10 DEF Raise
  <2> QED BY <1>0, <2>1, SaveKeepsMerge
<1> QED BY <1>1, <1>2, <1>3, <1>4, <1>5, <1>6, <1>7, <1>8, <1>9, <1>10
        DEF OperationStep

(* An MCP call writes back a registry that was true when it was loaded,    *)
(* and has become no less so.                                              *)
LEMMA CallKeepsMerge ==
  ASSUME GitTypeOK, MergeInv, NEW c \in Calls, CallStep(c)
  PROVE  MergeInv'
<1> USE DEF GitTypeOK
<1>0. /\ UNCHANGED <<git, memory, op, published>>
      /\ HeadsInv' /\ OperationReal' /\ 1 \in 1..Current'
  <2>1. UNCHANGED <<git, memory, op, published>>
    BY DEF CallStep, LoadRegistry, WriteRegistry, ReturnCall
  <2>2. HeadsInv' /\ 1 \in 1..Current'
    BY <2>1 DEF MergeInv, HeadsInv, Stamps, Current, git
  <2>3. OperationReal'
    BY <2>1, NothingGrows, OperationStays DEF MergeInv, git
  <2> QED BY <2>1, <2>2, <2>3
<1>1. ASSUME NEW r, RegistryReal(r)
      PROVE  RegistryReal(r)'
  BY <1>0, <1>1, NothingGrows, RealStays DEF git
<1>2. RegistryReal(memory)'
  BY <1>0 DEF MergeInv, RegistryReal, RowBuilt, RowMerged, Current, Stamps, git
<1>3. ASSUME RegistryReal(file'),
             \A d \in Calls : calls'[d].loaded => RegistryReal(calls'[d].registry)
      PROVE  MergeInv'
  <2>1. RegistryReal(file)'
    BY <1>0, <1>3 DEF RegistryReal, RowBuilt, RowMerged, Current, Stamps, git
  <2>2. (\A d \in Calls : calls[d].loaded => RegistryReal(calls[d].registry))'
    BY <1>0, <1>3 DEF RegistryReal, RowBuilt, RowMerged, Current, Stamps, git
  <2> QED BY <1>0, <1>2, <2>1, <2>2 DEF MergeInv
<1>4. CASE LoadRegistry(c)
  <2>1. /\ calls' = [calls EXCEPT ![c] = [loaded |-> TRUE, registry |-> file]]
        /\ file' = file
    BY <1>4 DEF LoadRegistry
  <2>2. \A d \in Calls : calls'[d].loaded => RegistryReal(calls'[d].registry)
    BY <2>1 DEF MergeInv
  <2> QED BY <1>3, <2>1, <2>2 DEF MergeInv
<1>5. ASSUME NEW w \in Workspaces, WriteRegistry(c, w)
      PROVE  MergeInv'
  <2>1. calls[c] \in [loaded : {TRUE}, registry : Registry]
    <3>1. calls[c] \in Call /\ calls[c].loaded
      BY <1>5 DEF WriteRegistry
    <3>2. calls[c] # NotLoaded
      BY <3>1 DEF NotLoaded
    <3> QED BY <3>1, <3>2 DEF Call
  <2>2. RegistryReal(calls[c].registry)
    BY <2>1 DEF MergeInv
  <2>3. RegistryReal(Refresh(calls[c].registry, w))
    BY <2>1, <2>2, RealWorkspace
  <2>4. /\ file' = Refresh(calls[c].registry, w)
        /\ calls' = [calls EXCEPT ![c] =
                      [calls[c] EXCEPT !.registry = Refresh(calls[c].registry, w)]]
    BY <1>5 DEF WriteRegistry
  <2>5. \A d \in Calls : calls'[d].loaded => RegistryReal(calls'[d].registry)
    BY <2>1, <2>3, <2>4 DEF MergeInv
  <2> QED BY <1>3, <2>3, <2>4, <2>5
<1>6. CASE ReturnCall(c)
  <2>1. calls' = [calls EXCEPT ![c] = NotLoaded] /\ file' = file
    BY <1>6 DEF ReturnCall
  <2>2. \A d \in Calls : calls'[d].loaded => RegistryReal(calls'[d].registry)
    BY <2>1 DEF MergeInv, NotLoaded
  <2> QED BY <1>3, <2>1, <2>2 DEF MergeInv
<1> QED BY <1>4, <1>5, <1>6 DEF CallStep

(* A stamp is new when it is made, wherever it is made.                    *)
LEMMA WorldKeepsMerge ==
  ASSUME GitTypeOK, MergeInv, WorldStep
  PROVE  MergeInv'
<1> USE DEF GitTypeOK
<1>0. HeadsInv /\ OperationReal
  BY DEF MergeInv
<1>1. ASSUME NEW h \in HumanEdits, CommitOnTarget(h)
      PROVE  MergeInv'
  <2>1. /\ target' = target \cup {h} /\ h \notin target
        /\ \A i \in Integrations : h \notin head[i]
        /\ UNCHANGED <<branch, head, trees, memory, file, calls, op, published>>
    BY <1>1 DEF CommitOnTarget, Fresh
  <2>2. h \in Stamps /\ h \notin Integrations
    BY GitAssumption DEF Stamps
  <2>3. Grows
    BY <2>1, <2>2 DEF Grows, Current
  <2>4. HeadsInv'
    <3>1. \A i \in Integrations :
            trees[i] = "NEVER" => head[i] = {} /\ i \notin target'
      BY <1>0, <2>1, <2>2 DEF HeadsInv
    <3>2. ASSUME NEW i \in Integrations
          PROVE  head[i] \subseteq target' \/ (head[i] \ target') \cap Stamps # {}
      <4>1. head[i] \ target' = head[i] \ target
        BY <2>1
      <4> QED BY <1>0, <4>1 DEF HeadsInv
    <3>3. /\ \A i \in Integrations :
               head[i] \cap Integrations \subseteq target' \cup {i}
          /\ \A i, j \in Integrations :
               i # j => head[i] \cap head[j] \cap Stamps \subseteq target'
          /\ \A w \in Workspaces : branch[w] \cap Stamps \subseteq target'
      BY <1>0, <2>1 DEF HeadsInv
    <3> QED BY <2>1, <3>1, <3>2, <3>3 DEF HeadsInv, Stamps
  <2> QED BY <1>0, <2>1, <2>3, <2>4, OperationStays, NoRecordKeepsMerge
<1>2. ASSUME NEW h \in HumanEdits, NEW i \in Integrations,
             CommitOnIntegration(i, h)
      PROVE  MergeInv'
  <2>1. /\ head' = [head EXCEPT ![i] = head[i] \cup {h}]
        /\ trees[i] = "PRESENT" /\ h \notin target
        /\ \A j \in Integrations : h \notin head[j]
        /\ UNCHANGED <<target, branch, trees, memory, file, calls, op, published>>
    BY <1>2 DEF CommitOnIntegration, Fresh, OnDisk
  <2>2. h \in Stamps /\ h \notin Integrations
    BY GitAssumption DEF Stamps
  <2>3. /\ head'[i] = head[i] \cup {h}
        /\ \A j \in Integrations : j # i => head'[j] = head[j]
    BY <2>1
  <2>4. Grows
    BY <2>1, <2>3 DEF Grows, Current
  <2>5. HeadsInv'
    <3>1. \A j \in Integrations :
            trees[j] = "NEVER" => head'[j] = {} /\ j \notin target
      BY <1>0, <2>1, <2>3 DEF HeadsInv
    <3>2. \A j \in Integrations :
            head'[j] \cap Integrations \subseteq target \cup {j}
      BY <1>0, <2>2, <2>3 DEF HeadsInv
    <3>3. ASSUME NEW j \in Integrations, NEW k \in Integrations, j # k
          PROVE  head'[j] \cap head'[k] \cap Stamps \subseteq target
      <4>1. head[j] \cap head[k] \cap Stamps \subseteq target
        BY <1>0, <3>3 DEF HeadsInv
      <4> QED BY <2>1, <2>3, <3>3, <4>1
    <3>4. \A j \in Integrations :
            head'[j] \subseteq target \/ (head'[j] \ target) \cap Stamps # {}
      BY <1>0, <2>1, <2>2, <2>3 DEF HeadsInv
    <3> QED BY <1>0, <2>1, <3>1, <3>2, <3>3, <3>4 DEF HeadsInv, Stamps
  <2> QED BY <1>0, <2>1, <2>4, <2>5, OperationStays, NoRecordKeepsMerge
<1>3. ASSUME NEW i \in Integrations, UpdateIntegration(i)
      PROVE  MergeInv'
  <2>1. /\ head' = [head EXCEPT ![i] = head[i] \cup target]
        /\ trees[i] = "PRESENT"
        /\ UNCHANGED <<target, branch, trees, memory, file, calls, op, published>>
    BY <1>3 DEF UpdateIntegration, OnDisk
  <2>2. /\ head'[i] = head[i] \cup target
        /\ \A j \in Integrations : j # i => head'[j] = head[j]
    BY <2>1
  <2>3. Grows
    BY <2>1, <2>2 DEF Grows, Current
  <2>4. HeadsInv'
    <3>1. \A j \in Integrations :
            trees[j] = "NEVER" => head'[j] = {} /\ j \notin target
      BY <1>0, <2>1, <2>2 DEF HeadsInv
    <3>2. \A j \in Integrations :
            head'[j] \cap Integrations \subseteq target \cup {j}
      BY <1>0, <2>2 DEF HeadsInv
    <3>3. ASSUME NEW j \in Integrations, NEW k \in Integrations, j # k
          PROVE  head'[j] \cap head'[k] \cap Stamps \subseteq target
      <4>1. head[j] \cap head[k] \cap Stamps \subseteq target
        BY <1>0, <3>3 DEF HeadsInv
      <4> QED BY <2>2, <3>3, <4>1
    <3>4. ASSUME NEW j \in Integrations
          PROVE  head'[j] \subseteq target \/ (head'[j] \ target) \cap Stamps # {}
      <4>1. head'[j] \ target = head[j] \ target
        BY <2>2
      <4> QED BY <1>0, <4>1 DEF HeadsInv
    <3> QED BY <1>0, <2>1, <3>1, <3>2, <3>3, <3>4 DEF HeadsInv, Stamps
  <2> QED BY <1>0, <2>1, <2>3, <2>4, OperationStays, NoRecordKeepsMerge
<1>4. ASSUME NEW label \in {NoLabel, target}, PublishTarget(label)
      PROVE  MergeInv'
  <2>1. /\ published' = Append(published, [label |-> label, content |-> target])
        /\ UNCHANGED <<git, memory, file, calls, op>>
    BY <1>4 DEF PublishTarget
  <2>2. Grows
    BY <2>1, AppendGrows DEF git
  <2>3. HeadsInv'
    BY <1>0, <2>1 DEF HeadsInv, Stamps, git
  <2> QED BY <1>0, <2>1, <2>2, <2>3, OperationStays, NoRecordKeepsMerge
<1>5. CASE Restart
  <2>1. RegistryReal(memory')
    BY <1>5 DEF Restart, MergeInv
  <2> QED BY <1>5, <2>1, SaveKeepsMerge DEF Restart
<1> QED BY <1>1, <1>2, <1>3, <1>4, <1>5 DEF WorldStep

(* MergeInv is inductive, given the types. *)
LEMMA StepKeepsMerge == GitTypeOK /\ MergeInv /\ [GitNext]_gitVars => MergeInv'
<1> SUFFICES ASSUME GitTypeOK, MergeInv, [GitNext]_gitVars PROVE MergeInv'
  OBVIOUS
<1>1. CASE UNCHANGED gitVars
  <2>1. HeadsInv'
    BY <1>1 DEF MergeInv, HeadsInv, Stamps, gitVars, git
  <2>2. Grows /\ OperationReal'
    BY <1>1, NothingGrows, OperationStays DEF MergeInv, gitVars, git
  <2> QED BY <1>1, <2>1, <2>2, NoRecordKeepsMerge DEF gitVars
<1>2. CASE GitNext
  BY <1>2, WorkspaceKeepsMerge, IntegrationKeepsMerge, OperationKeepsMerge,
     CallKeepsMerge, WorldKeepsMerge DEF GitNext
<1> QED BY <1>1, <1>2

(* MergeInv holds at the start. *)
LEMMA MergeInit == GitInit => MergeInv
<1> SUFFICES ASSUME GitInit PROVE MergeInv
  OBVIOUS
<1>1. HeadsInv
  BY DEF GitInit, HeadsInv, Root, Managed
<1>2. RegistryReal(EmptyRegistry)
  BY DEF GitInit, RegistryReal, RowBuilt, RowMerged, EmptyRegistry, Root
<1>3. OperationReal
  BY DEF GitInit, OperationReal, Free
<1>4. 1 \in 1..Current
  BY DEF GitInit, Current
<1> QED BY <1>1, <1>2, <1>3, <1>4 DEF MergeInv, GitInit, NotLoaded

(* What the registry says of merges and observations is so. *)
THEOREM MergesAreReal == GitSpec => []MergeIsReal
<1>1. MergeInv => MergeIsReal
  BY DEF MergeInv, MergeIsReal, RegistryReal, RowMerged
<1> QED BY <1>1, GitTypeCorrect, MergeInit, StepKeepsMerge, PTL DEF GitSpec

(* Two steps move the target branch. *)
LEMMA TargetMoves ==
  GitNext => \/ target' = target
             \/ \E h \in HumanEdits : CommitOnTarget(h)
             \/ \E i \in Integrations : FastForward(i)
<1> SUFFICES ASSUME GitNext, target' # target
             PROVE  \/ \E h \in HumanEdits : CommitOnTarget(h)
                    \/ \E i \in Integrations : FastForward(i)
  OBVIOUS
<1> USE DEF git
<1>1. ASSUME NEW w \in Workspaces, WorkspaceStep(w) PROVE FALSE
  BY <1>1 DEF WorkspaceStep, CreateAgentWorktree, Allocate, AgentCommit,
              SubmitCommittedResult, Inspect, RetireWorktree, Remove
<1>2. ASSUME NEW i \in Integrations, IntegrationStep(i), ~FastForward(i)
      PROVE  FALSE
  <2>1. ASSUME NEW candidates \in SUBSET Workspaces,
               CreateIntegration(i, candidates)
        PROVE  FALSE
    BY <2>1 DEF CreateIntegration, IntegrateCommits, Allocate
  <2> QED BY <1>2, <2>1 DEF IntegrationStep, BeginAudit, ProjectMerge,
             BeginMerge, BeginObserve, RetireIntegration, Remove
<1>3. CASE OperationStep
  BY <1>3 DEF OperationStep, RecordWorkspace, RecordIntegration, TestCandidate,
              EndAudit, RecordMerge, IndexMerged, IndexMergedFails, EndObserve,
              RecordRetired, Raise
<1>4. ASSUME NEW c \in Calls, CallStep(c) PROVE FALSE
  BY <1>4 DEF CallStep, LoadRegistry, WriteRegistry, ReturnCall
<1>5. CASE WorldStep
  BY <1>5 DEF WorldStep, CommitOnIntegration, UpdateIntegration,
              PublishTarget, Restart
<1> QED BY <1>1, <1>2, <1>3, <1>4, <1>5 DEF GitNext

(* A branch that is as it was audited and is ahead of the target is ahead  *)
(* of the target it was built on: any other would hold a stamp it lacks.   *)
THEOREM MergesComeFromAuditedTargets == GitSpec => MergedFromAuditedTarget
<1>1. ASSUME MergeInv, [GitNext]_gitVars, NEW i \in Integrations,
             i \in target' \ target
      PROVE  memory.ints[i].eligible /\ (HeadAsBuilt(i) => TargetAsBuilt(i))
  <2>1. PICK j \in Integrations : FastForward(j)
    <3>1. target' # target
      BY <1>1
    <3>2. ASSUME NEW h \in HumanEdits, CommitOnTarget(h)
          PROVE  FALSE
      BY <1>1, <3>2, GitAssumption DEF CommitOnTarget
    <3> QED BY <1>1, <3>1, <3>2, TargetMoves DEF gitVars, git
  <2>2. /\ op.kind = "merge" /\ op.int = j /\ target' = head[j]
        /\ target \subseteq head[j]
    BY <1>1, <2>1 DEF FastForward, Moved
  <2>3. i = j
    <3>1. head[j] \cap Integrations \subseteq target \cup {j}
      BY <1>1 DEF MergeInv, HeadsInv
    <3> QED BY <1>1, <2>2, <3>1
  <2>4. memory.ints[i].eligible
    BY <1>1, <2>2, <2>3 DEF MergeInv, OperationReal
  <2>5. ASSUME HeadAsBuilt(i)
        PROVE  TargetAsBuilt(i)
    <3>1. RowBuilt(memory.ints[i], i)
      BY <1>1 DEF MergeInv, RegistryReal
    <3>2. target \subseteq memory.ints[i].head /\ i \notin target
      BY <1>1, <2>2, <2>3, <2>5 DEF HeadAsBuilt
    <3> QED BY <3>1, <3>2 DEF RowBuilt, TargetAsBuilt
  <2> QED BY <2>4, <2>5
<1>2. MergeInv /\ [GitNext]_gitVars =>
        [\A i \in Integrations : i \in target' \ target =>
           /\ memory.ints[i].eligible
           /\ HeadAsBuilt(i) => TargetAsBuilt(i)]_target
  BY <1>1
<1> QED BY <1>2, GitTypeCorrect, MergeInit, StepKeepsMerge, PTL
        DEF GitSpec, MergedFromAuditedTarget

=============================================================================
