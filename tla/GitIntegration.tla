--------------------------- MODULE GitIntegration ---------------------------
(***************************************************************************)
(* Agent worktrees, integrations and the merge of an integration into the  *)
(* target branch (git_workspace.py, git_integration_authority.py).         *)
(*                                                                         *)
(* Four kinds of state live apart from one another: what git holds         *)
(* (branches and managed worktrees), the registry in the memory of the     *)
(* server's GitWorkspaceManager, the state file that mirrors it, and the   *)
(* revisions of the production store.  The manager's lock makes its        *)
(* operations exclude each other in one process; it holds neither git, nor *)
(* the store, nor the MCP tools, which run in processes of their own, load *)
(* the file, and write it back whole.  An operation that touches more than *)
(* one of these is several steps here, and it may raise, or the process    *)
(* die, between them.                                                      *)
(*                                                                         *)
(* A commit is represented by its history: the set of edits and merges it  *)
(* contains.  Every edit is made once, so one commit descends from another *)
(* when it contains it.  Nobody rewrites history, and nobody but the       *)
(* server's merge takes the branch of an agent or of an integration to the *)
(* target: humans commit to it what is their own.  All this happens in one *)
(* repository and on one target branch, checked out in the human's         *)
(* worktree.                                                               *)
(***************************************************************************)
EXTENDS Naturals, Sequences, FiniteSets

CONSTANTS
  Workspaces,     \* identities of agent workspaces
  Integrations,   \* identities of integrations, and of their merge commits
  Agents,         \* names of agents
  Tasks,          \* tasks they are given
  AgentEdits,     \* edits an agent can make in a workspace
  OutOfScope,     \* those of them outside the scope it was given
  HumanEdits,     \* commits made by anybody else
  Calls,          \* MCP calls
  NoLabel,        \* a revision indexed without a commit
  MaxPublished    \* bound on the number of published revisions

ASSUME GitAssumption ==
  /\ Workspaces \cap Integrations = {}
  /\ Agents # {} /\ Agents \cap Workspaces = {}
  /\ Tasks # {}
  /\ OutOfScope \subseteq AgentEdits
  /\ HumanEdits \cap Integrations = {}
  /\ (HumanEdits \cup Integrations) \cap (Workspaces \X AgentEdits) = {}
  /\ MaxPublished \in Nat \ {0}

VARIABLES
  target,      \* the commit of the target branch
  branch,      \* branch[w] is the commit of the branch of workspace w
  head,        \* head[i] is the commit of the branch of integration i
  trees,       \* trees[x] is the managed worktree of x
  memory,      \* the registry of the server's manager
  file,        \* state.json
  calls,       \* calls[c] is the registry MCP call c loaded
  op,          \* the operation that holds the manager's lock
  published    \* the published revisions of the production store

git == <<target, branch, head, trees>>
gitVars == <<git, memory, file, calls, op, published>>

Managed == Workspaces \cup Integrations
OnDisk(x) == trees[x] = "PRESENT"

EditsOf(w) == {w} \X AgentEdits
Marks == (Workspaces \X AgentEdits) \cup HumanEdits \cup Integrations
Commit == SUBSET Marks
Root == {}

(* submitted = base: nothing was submitted. *)
WorkspaceRow ==
  [status : {"ABSENT", "LIVE", "MISSING", "RETIRED"}, agent : Agents,
   task : Tasks, base : Commit, submitted : Commit, inScope : BOOLEAN]

Publication == {"NOT_PUBLISHED", "PENDING", "OBSERVED", "NOT_OBSERVED",
                "VIOLATION"}
(* eligible: the latest projection says MERGE_ELIGIBLE; it was computed    *)
(* for this target and this head, which never change in a row.             *)
IntegrationRow ==
  [status : {"ABSENT", "OPEN", "RETIRED"}, target : Commit, head : Commit,
   clean : BOOLEAN, eligible : BOOLEAN, merged : Commit,
   publication : Publication]

Registry == [ws : [Workspaces -> WorkspaceRow],
             ints : [Integrations -> IntegrationRow]]

EmptyRegistry ==
  [ws |-> [w \in Workspaces |->
     [status |-> "ABSENT", agent |-> CHOOSE a \in Agents : TRUE,
      task |-> CHOOSE t \in Tasks : TRUE, base |-> Root, submitted |-> Root,
      inScope |-> FALSE]],
   ints |-> [i \in Integrations |->
     [status |-> "ABSENT", target |-> Root, head |-> Root, clean |-> FALSE,
      eligible |-> FALSE, merged |-> Root, publication |-> "NOT_PUBLISHED"]]]

Free == [kind |-> "free"]
Counts == 0..MaxPublished
Operation ==
  {Free}
    \cup [kind : {"allocate"}, what : Workspaces, row : WorkspaceRow]
    \cup [kind : {"allocate"}, what : Integrations, row : IntegrationRow]
    \cup [kind : {"audit", "tested", "observe"}, int : Integrations,
          before : Counts]
    \cup [kind : {"merge"}, int : Integrations, moved : BOOLEAN]
    \cup [kind : {"observed"}, int : Integrations, before : Counts,
          result : Counts]
    \cup [kind : {"retire"}, what : Managed]

NotLoaded == [loaded |-> FALSE]
Call == {NotLoaded} \cup [loaded : {TRUE}, registry : Registry]
Revision == [label : Commit \cup {NoLabel}, content : Commit]

GitTypeOK ==
  /\ target \in Commit
  /\ branch \in [Workspaces -> Commit]
  /\ head \in [Integrations -> Commit]
  /\ trees \in [Managed -> {"NEVER", "PRESENT", "REMOVED"}]
  /\ memory \in Registry
  /\ file \in Registry
  /\ calls \in [Calls -> Call]
  /\ op \in Operation
  /\ published \in Seq(Revision) /\ Len(published) \in Counts

GitInit ==
  /\ target = Root
  /\ branch = [w \in Workspaces |-> Root]
  /\ head = [i \in Integrations |-> Root]
  /\ trees = [x \in Managed |-> "NEVER"]
  /\ memory = EmptyRegistry
  /\ file = EmptyRegistry
  /\ calls = [c \in Calls |-> NotLoaded]
  /\ op = Free
  /\ published = <<[label |-> Root, content |-> Root]>>

(***************************************************************************)
(* Agent worktrees                                                         *)
(***************************************************************************)

(* _save: the whole registry replaces the file. *)
Save(registry) == memory' = registry /\ file' = registry

(* The principal minted for a workspace is as unique as the workspace.     *)
PrincipalOf(w) == w

(* The row of an active workspace of this agent and task, as               *)
(* create_agent_worktree looks for it: by principal, not by agent.         *)
ActiveFor(agent, task) ==
  {w \in Workspaces : /\ memory.ws[w].status \notin {"ABSENT", "RETIRED"}
                      /\ PrincipalOf(w) = agent
                      /\ memory.ws[w].task = task}

(* The worktree is added, at the target's commit on a branch of its own... *)
Allocate(what, row) ==
  /\ trees' = [trees EXCEPT ![what] = "PRESENT"]
  /\ op' = [kind |-> "allocate", what |-> what, row |-> row]
  /\ UNCHANGED <<target, memory, file, calls, published>>

CreateAgentWorktree(w, agent, task) ==
  /\ op = Free
  /\ trees[w] = "NEVER"
  /\ ActiveFor(agent, task) = {}
  /\ branch' = [branch EXCEPT ![w] = target]
  /\ Allocate(w, [status |-> "LIVE", agent |-> agent, task |-> task,
                  base |-> target, submitted |-> target, inScope |-> FALSE])
  /\ UNCHANGED head

(* ... and then recorded. *)
RecordWorkspace ==
  /\ op.kind = "allocate" /\ op.what \in Workspaces
  /\ Save([memory EXCEPT !.ws[op.what] = op.row])
  /\ op' = Free
  /\ UNCHANGED <<git, calls, published>>

AgentCommit(w) ==
  /\ OnDisk(w)
  /\ \E e \in EditsOf(w) \ branch[w] :
       branch' = [branch EXCEPT ![w] = @ \cup {e}]
  /\ UNCHANGED <<target, head, trees, memory, file, calls, op, published>>

Violations(w, commit) ==
  {e \in commit \ memory.ws[w].base : e \in {w} \X OutOfScope}

(* The branch is clean, has a commit of its own and descends from the      *)
(* base.  Paths outside the scope are recorded, not refused.               *)
SubmitCommittedResult(w) ==
  /\ op = Free
  /\ memory.ws[w].status = "LIVE" /\ OnDisk(w)
  /\ branch[w] # memory.ws[w].base
  /\ memory.ws[w].base \subseteq branch[w]
  /\ Save([memory EXCEPT !.ws[w].submitted = branch[w],
                         !.ws[w].inScope = (Violations(w, branch[w]) = {})])
  /\ UNCHANGED <<git, calls, op, published>>

(* inspect_worktree, which every read of a workspace goes through: notice  *)
(* a worktree that is gone, and save.                                      *)
Unretired(registry, w) == registry.ws[w].status \in {"LIVE", "MISSING"}
Refresh(registry, w) ==
  [registry EXCEPT !.ws[w].status = IF OnDisk(w) THEN @ ELSE "MISSING"]

Inspect(w) ==
  /\ op = Free
  /\ Unretired(memory, w)
  /\ Save(Refresh(memory, w))
  /\ UNCHANGED <<git, calls, op, published>>

(***************************************************************************)
(* Integrations                                                            *)
(***************************************************************************)

(* The commits are merged one by one onto the target until one conflicts;  *)
(* members is the set of workspaces whose commit was merged.               *)
IntegrateCommits(i, candidates, commit) ==
  /\ op = Free
  /\ trees[i] = "NEVER"
  /\ \A w \in candidates :
       /\ memory.ws[w].status # "ABSENT"
       /\ memory.ws[w].submitted # memory.ws[w].base
       /\ memory.ws[w].inScope
  /\ \E members \in SUBSET candidates :
       LET commits == UNION {commit[w] : w \in members}
           new == IF commits \subseteq target THEN target
                  ELSE target \cup commits \cup {i}
       IN /\ head' = [head EXCEPT ![i] = new]
          /\ Allocate(i, [status |-> "OPEN", target |-> target, head |-> new,
                          clean |-> members = candidates, eligible |-> FALSE,
                          merged |-> Root, publication |-> "NOT_PUBLISHED"])
  /\ UNCHANGED branch

(* Slip: what the branches hold by now is integrated. *)
CreateFromBranches(i, candidates) == IntegrateCommits(i, candidates, branch)

CreateIntegration(i, candidates) ==
  IntegrateCommits(i, candidates, [w \in Workspaces |-> memory.ws[w].submitted])

RecordIntegration ==
  /\ op.kind = "allocate" /\ op.what \in Integrations
  /\ Save([memory EXCEPT !.ints[op.what] = op.row])
  /\ op' = Free
  /\ UNCHANGED <<git, calls, published>>

(* The heads are still those the integration was built from. *)
HeadAsBuilt(i) == head[i] = memory.ints[i].head
TargetAsBuilt(i) == target = memory.ints[i].target

Current == Len(published)

(* audit_integration: a worktree left dirty by a conflict is refused; a    *)
(* moved head takes eligibility back, in memory only.                      *)
BeginAudit(i) ==
  /\ op = Free
  /\ memory.ints[i].status # "ABSENT" /\ OnDisk(i)
  /\ memory.ints[i].clean
  /\ IF HeadAsBuilt(i) /\ TargetAsBuilt(i)
     THEN /\ op' = [kind |-> "audit", int |-> i, before |-> Current]
          /\ UNCHANGED memory
     ELSE /\ memory' = [memory EXCEPT !.ints[i].eligible = FALSE]
          /\ UNCHANGED op
  /\ UNCHANGED <<git, file, calls, published>>

(* The candidate was indexed in a store of its own; the runner of build    *)
(* and test refuses a worktree whose head has moved.                       *)
TestCandidate ==
  /\ op.kind = "audit"
  /\ HeadAsBuilt(op.int)
  /\ op' = [op EXCEPT !.kind = "tested"]
  /\ UNCHANGED <<git, memory, file, calls, published>>

(* A publication in the production store meanwhile costs eligibility.      *)
EndAudit ==
  /\ op.kind = "tested"
  /\ \E eligible \in BOOLEAN :
       /\ eligible => Current = op.before
       /\ Save([memory EXCEPT !.ints[op.int].eligible = eligible])
  /\ op' = Free
  /\ UNCHANGED <<git, calls, published>>

(* project_merge: a caller's claims take eligibility back. *)
ProjectMerge(i) ==
  /\ op = Free
  /\ memory.ints[i].status # "ABSENT"
  /\ Save([memory EXCEPT !.ints[i].eligible = FALSE])
  /\ UNCHANGED <<git, calls, op, published>>

(***************************************************************************)
(* Merge                                                                   *)
(***************************************************************************)

(* merge_authorized up to the merge: the owner asks, the target worktree   *)
(* is clean, the projection stands and the heads are those it is about.    *)
(* The target is looked at first, so that its answer does not need the     *)
(* worktree.                                                               *)
BeginMerge(i) ==
  /\ op = Free
  /\ memory.ints[i].eligible
  /\ TargetAsBuilt(i) => OnDisk(i)
  /\ IF TargetAsBuilt(i) /\ HeadAsBuilt(i)
     THEN /\ op' = [kind |-> "merge", int |-> i, moved |-> FALSE]
          /\ UNCHANGED <<memory, file>>
     ELSE /\ Save([memory EXCEPT !.ints[i].eligible = FALSE])
          /\ UNCHANGED op
  /\ UNCHANGED <<git, calls, published>>

Moved(i, commit) ==
  /\ op.kind = "merge" /\ op.int = i /\ ~op.moved
  /\ target' = commit
  /\ op' = [op EXCEPT !.moved = TRUE]
  /\ UNCHANGED <<branch, head, trees, memory, file, calls, published>>

(* Slip: git merges whatever the target has become. *)
PlainMerge(i) == Moved(i, target \cup head[i])

(* Slip: the exit code of git is ignored. *)
UncheckedFastForward(i) ==
  Moved(i, IF target \subseteq head[i] THEN head[i] ELSE target)

(* git merge --ff-only of the integration branch, by name, when one of the *)
(* two contains the other; otherwise git refuses and the operation raises. *)
FastForward(i) ==
  /\ target \subseteq head[i] \/ head[i] \subseteq target
  /\ Moved(i, target \cup head[i])

RecordMerge ==
  /\ op.kind = "merge" /\ op.moved
  /\ Save([memory EXCEPT !.ints[op.int].merged = target,
                         !.ints[op.int].publication = "PENDING"])
  /\ op' = Free
  /\ UNCHANGED <<git, calls, published>>

(***************************************************************************)
(* Observation                                                             *)
(***************************************************************************)

BeginObserve(i) ==
  /\ op = Free
  /\ memory.ints[i].publication = "PENDING"
  /\ target = memory.ints[i].merged
  /\ op' = [kind |-> "observe", int |-> i, before |-> Current]
  /\ UNCHANGED <<git, memory, file, calls, published>>

Indexed(result) ==
  op' = [kind |-> "observed", int |-> op.int, before |-> op.before,
         result |-> result]

(* The index run labels what the worktree holds with the merged commit.    *)
(* It is cut off when the current revision has that label and content.     *)
IndexMerged ==
  /\ op.kind = "observe"
  /\ LET revision == [label |-> memory.ints[op.int].merged, content |-> target]
     IN \/ /\ published[Current] # revision
           /\ Current < MaxPublished
           /\ published' = Append(published, revision)
           /\ Indexed(Current + 1)
        \/ /\ published[Current] = revision
           /\ Indexed(Current)
           /\ UNCHANGED published
  /\ UNCHANGED <<git, memory, file, calls>>

IndexMergedFails ==
  /\ op.kind = "observe"
  /\ Indexed(0)
  /\ UNCHANGED <<git, memory, file, calls, published>>

(* What observe_merged_commit checks of the current revision. *)
BoundToMerge(i, result) ==
  /\ result = Current
  /\ published[result].label = memory.ints[i].merged

(* Support may be found wanting at the end although the binding holds.     *)
EndObserve ==
  /\ op.kind = "observed"
  /\ \E status \in {"OBSERVED", "NOT_OBSERVED", "VIOLATION"} :
       /\ status = "OBSERVED" => op.result # 0 /\ BoundToMerge(op.int, op.result)
       /\ status = "NOT_OBSERVED" => Current = op.before
       /\ status = "VIOLATION" => Current # op.before
       /\ Save([memory EXCEPT !.ints[op.int].publication = status])
  /\ op' = Free
  /\ UNCHANGED <<git, calls, published>>

(***************************************************************************)
(* Retirement                                                              *)
(***************************************************************************)

(* A clean worktree at the head the registry knows is removed from disk... *)
Remove(what) ==
  /\ trees' = [trees EXCEPT ![what] = "REMOVED"]
  /\ op' = [kind |-> "retire", what |-> what]
  /\ UNCHANGED <<target, branch, head, memory, file, calls, published>>

RetireWorktree(w) ==
  /\ op = Free
  /\ memory.ws[w].status = "LIVE" /\ OnDisk(w)
  /\ Remove(w)

(* Slip: the retirement of an integration goes into the wrong field. *)
MarkPublicationRetired(what) ==
  IF what \in Workspaces
  THEN Save([memory EXCEPT !.ws[what].status = "RETIRED"])
  ELSE Save([memory EXCEPT !.ints[what].publication = "RETIRED"])

MarkRetired(what) ==
  IF what \in Workspaces
  THEN Save([memory EXCEPT !.ws[what].status = "RETIRED"])
  ELSE Save([memory EXCEPT !.ints[what].status = "RETIRED"])

(* Slip: the retirement is recorded before git is asked to remove it. *)
RetireFirst(i) ==
  /\ op = Free
  /\ memory.ints[i].status = "OPEN" /\ OnDisk(i)
  /\ MarkRetired(i)
  /\ op' = [kind |-> "retire", what |-> i]
  /\ UNCHANGED <<git, calls, published>>

RetireIntegration(i) ==
  /\ op = Free
  /\ memory.ints[i].status = "OPEN" /\ OnDisk(i) /\ HeadAsBuilt(i)
  /\ Remove(i)

(* ... and then recorded as retired. *)
RecordRetired ==
  /\ op.kind = "retire"
  /\ MarkRetired(op.what)
  /\ op' = Free
  /\ UNCHANGED <<git, calls, published>>

(***************************************************************************)
(* MCP calls                                                               *)
(***************************************************************************)

(* A tool builds a manager of its own from the file, *)
LoadRegistry(c) ==
  /\ calls[c] = NotLoaded
  /\ calls' = [calls EXCEPT ![c] = [loaded |-> TRUE, registry |-> file]]
  /\ UNCHANGED <<git, memory, file, op, published>>

(* inspects the workspaces, perhaps after a build or a test, and each time *)
(* writes back all it has.                                                 *)
WriteRegistry(c, w) ==
  /\ calls[c].loaded
  /\ Unretired(calls[c].registry, w)
  /\ calls' = [calls EXCEPT ![c].registry = Refresh(@, w)]
  /\ file' = Refresh(calls[c].registry, w)
  /\ UNCHANGED <<git, memory, op, published>>

ReturnCall(c) ==
  /\ calls[c].loaded
  /\ calls' = [calls EXCEPT ![c] = NotLoaded]
  /\ UNCHANGED <<git, memory, file, op, published>>

(***************************************************************************)
(* The rest of the world                                                   *)
(***************************************************************************)

Fresh(h) == h \notin target /\ \A i \in Integrations : h \notin head[i]

(* A human may not merge past the server: what the properties say of the   *)
(* target is said of what the server brings there.                         *)
CommitOnTarget(h) ==
  /\ Fresh(h)
  /\ target' = target \cup {h}
  /\ UNCHANGED <<branch, head, trees, memory, file, calls, op, published>>

CommitOnIntegration(i, h) ==
  /\ OnDisk(i) /\ Fresh(h)
  /\ head' = [head EXCEPT ![i] = @ \cup {h}]
  /\ UNCHANGED <<target, branch, trees, memory, file, calls, op, published>>

(* Somebody merges the target into the branch of the integration.          *)
UpdateIntegration(i) ==
  /\ OnDisk(i) /\ ~(target \subseteq head[i])
  /\ head' = [head EXCEPT ![i] = @ \cup target]
  /\ UNCHANGED <<target, branch, trees, memory, file, calls, op, published>>

(* Any other index run of the repository, with a commit or without.        *)
PublishTarget(label) ==
  /\ Current < MaxPublished
  /\ published' = Append(published, [label |-> label, content |-> target])
  /\ UNCHANGED <<git, memory, file, calls, op>>

(* An operation that raises releases the lock and records nothing.  Once   *)
(* the merged commit is indexed, observe_merged_commit catches instead.    *)
Raise ==
  /\ op # Free /\ op.kind # "observed"
  /\ op' = Free
  /\ UNCHANGED <<git, memory, file, calls, published>>

(* The server dies and is started again: the manager loads the file.       *)
Restart ==
  /\ memory' = file
  /\ op' = Free
  /\ UNCHANGED <<git, file, calls, published>>

WorkspaceStep(w) ==
  \/ \E agent \in Agents, task \in Tasks : CreateAgentWorktree(w, agent, task)
  \/ AgentCommit(w)
  \/ SubmitCommittedResult(w)
  \/ Inspect(w)
  \/ RetireWorktree(w)

IntegrationStep(i) ==
  \/ \E candidates \in SUBSET Workspaces \ {{}} :
       CreateIntegration(i, candidates)
  \/ BeginAudit(i) \/ ProjectMerge(i)
  \/ BeginMerge(i) \/ FastForward(i)
  \/ BeginObserve(i)
  \/ RetireIntegration(i)

OperationStep ==
  \/ RecordWorkspace \/ RecordIntegration
  \/ TestCandidate \/ EndAudit
  \/ RecordMerge
  \/ IndexMerged \/ IndexMergedFails \/ EndObserve
  \/ RecordRetired
  \/ Raise

CallStep(c) ==
  \/ LoadRegistry(c)
  \/ \E w \in Workspaces : WriteRegistry(c, w)
  \/ ReturnCall(c)

WorldStep ==
  \/ \E h \in HumanEdits :
       CommitOnTarget(h) \/ \E i \in Integrations : CommitOnIntegration(i, h)
  \/ \E i \in Integrations : UpdateIntegration(i)
  \/ \E label \in {NoLabel, target} : PublishTarget(label)
  \/ Restart

GitNext ==
  \/ \E w \in Workspaces : WorkspaceStep(w)
  \/ \E i \in Integrations : IntegrationStep(i)
  \/ OperationStep
  \/ \E c \in Calls : CallStep(c)
  \/ WorldStep

GitSpec == GitInit /\ [][GitNext]_gitVars

(***************************************************************************)
(* Properties                                                              *)
(***************************************************************************)

(* An integration reaches the target branch only while its audit stands;   *)
(* and the branch that was audited reaches it only from the very target it *)
(* was audited against, although the target can move between the checks    *)
(* and the merge: what git refuses to fast forward is not merged at all.   *)
(* Of a branch that was added to after its audit nothing is claimed: the   *)
(* merge names the branch, and takes what it holds.                        *)
MergedFromAuditedTarget ==
  [][\A i \in Integrations : i \in target' \ target =>
       /\ memory.ints[i].eligible
       /\ HeadAsBuilt(i) => TargetAsBuilt(i)]_target

(* No edit outside the scope its agent was given reaches the target        *)
(* branch, however the agent goes on committing after its submission was   *)
(* judged.                                                                 *)
TargetInScope ==
  \A w \in Workspaces : target \cap ({w} \X OutOfScope) = {}

(* An integration recorded as merged is in the target branch, and one that *)
(* is recorded as observed has a published revision, labelled with its     *)
(* merged commit, that holds everything the integration was audited for.   *)
MergeIsReal ==
  \A i \in Integrations : LET row == memory.ints[i] IN
    row.publication # "NOT_PUBLISHED" =>
      /\ row.head \subseteq row.merged
      /\ row.merged \subseteq target
      /\ row.publication = "OBSERVED" =>
           \E r \in 1..Current : /\ published[r].label = row.merged
                                 /\ row.head \subseteq published[r].content

(* What the registry, in memory or on disk, calls retired is gone from     *)
(* disk, whatever raised or died on the way: no worktree that is still     *)
(* there is written off.                                                   *)
RetiredIsGone ==
  \A registry \in {memory, file} :
    /\ \A w \in Workspaces : registry.ws[w].status = "RETIRED" => ~OnDisk(w)
    /\ \A i \in Integrations :
         registry.ints[i].status = "RETIRED" => ~OnDisk(i)
=============================================================================
